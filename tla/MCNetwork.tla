----------------------------- MODULE MCNetwork -----------------------------
(***************************************************************************)
(* Small instances of the components that exchange messages.  They share   *)
(* no state, so that each behaviour explores one of them: part.            *)
(***************************************************************************)
EXTENDS Connect, FiniteSets

CONSTANTS Conns, MessagesKept, Threads, Timeout, Modulus, MaxTime, DatagramSizes,
          MaxDatagrams, Owners, Members, Pointers, Null, MaxRequests, MaxLost

ASSUME RuleAssumption == MessagesKept \in BOOLEAN
ASSUME DatagramsAssumption == DatagramSizes \subseteq Nat
\* The clock does not run for 2^64 milliseconds.
ASSUME ClockAssumption ==
    /\ Timeout \in Nat /\ MaxTime \in Nat /\ Modulus \in Nat
    /\ MaxTime + Timeout < Modulus
\* nullptr is no object, and a member is none that is made by itself.
ASSUME ObjectsAssumption ==
    /\ IsFiniteSet(Owners) /\ IsFiniteSet(Members) /\ IsFiniteSet(Pointers)
    /\ Null \notin Owners /\ Owners \cap (Owners \X Members) = {}

VARIABLES
    part,
    destroyed, clients, sock, eof, dead, holders, resWritable, answered, stack,
    atomic, clock, now, lastUpdate, buffer, pc, seen, date, alone, clean,
    handle, useCount, owned, deleted, consuming, receiving, queue, wire, written,
    ptr, memory, uses, ended, requests, lost

serverVars == <<destroyed, clients, sock, eof, dead, holders, resWritable,
                answered, stack>>
dateVars == <<atomic, clock, now, lastUpdate, buffer, pc, seen, date, alone, clean>>
udpVars == <<handle, useCount, owned, deleted, consuming, receiving, queue, wire,
             written>>
pointerVars == <<ptr, memory, uses, ended, requests, lost>>

Server == INSTANCE HttpServer
Dates == INSTANCE DateBuffer
Udp == INSTANCE UdpSocket
Shared == INSTANCE SharedPtr

MCInit ==
    /\ part \in {"connect", "server", "dates", "udp", "pointers"}
    /\ Init /\ Server!Init /\ Udp!Init /\ Shared!Init
    /\ Dates!Init
    /\ part # "dates" => atomic

MCNext ==
    /\ UNCHANGED part
    /\ \/ /\ part = "connect"
          /\ Next
          /\ UNCHANGED <<serverVars, dateVars, udpVars, pointerVars>>
       \/ /\ part = "server"
          /\ Server!Next
          /\ UNCHANGED <<vars, dateVars, udpVars, pointerVars>>
       \/ /\ part = "dates"
          /\ Dates!Next
          /\ UNCHANGED <<vars, serverVars, udpVars, pointerVars>>
       \/ /\ part = "udp"
          /\ Udp!Next
          /\ UNCHANGED <<vars, serverVars, dateVars, pointerVars>>
       \/ /\ part = "pointers"
          /\ Shared!Next
          /\ UNCHANGED <<vars, serverVars, dateVars, udpVars>>

MCSpec ==
    /\ MCInit
    /\ [][MCNext]_<<part, vars, serverVars, dateVars, udpVars, pointerVars>>
    /\ Fairness /\ Server!Fairness /\ Udp!Fairness

-----------------------------------------------------------------------------
(* The properties of the other components under names of their own *)

\* server.cc:100-197: connections, messages and the walk over _clients survive
\* a destroy() from any listener of a program that follows its rule.
ServerSafe == Server!ServerSafe

\* server.cc:91: an answered connection is closed and freed, or the program ends.
AnsweredIsClosed == Server!AnsweredIsClosed

\* _http_date_buffer.cc:39-64: the date is fresh and does not go back, but for
\* what two updates that overlap leave behind.
DatesSafe == Dates!DatesSafe

\* udp/socket.cc:113-194: every request holds the socket once, and datagrams
\* leave once and in order.
UdpSafe == Udp!UdpSafe

\* udp/socket.cc:180-190: a socket nobody references is deleted in the end.
DroppedIsDeleted == Udp!DroppedIsDeleted

\* object.h:79-205: an owner is deleted exactly after its last use.
PointersSafe == Shared!PointersSafe

=============================================================================
