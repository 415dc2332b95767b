------------------------ MODULE AsyncChannel_proofs ------------------------
(* Theorems about AsyncChannel, for any senders and any number of values. *)
EXTENDS AsyncChannel, SequenceTheorems, TLAPS

\* The types of the variables, which the other theorems rest on.
THEOREM Typing == ChannelSpec => []ChannelTypeOK
<1>1. ChannelInit => ChannelTypeOK
  <2> SUFFICES ASSUME ChannelInit PROVE ChannelTypeOK
    OBVIOUS
  <2>1. <<>> \in Seq(Values) /\ 0 \in 0 .. MaxSends
    BY MaxSendsAssumption
  <2>2. sent \in [Senders -> 0 .. MaxSends]
    BY <2>1 DEF ChannelInit
  <2> QED
    BY <2>1, <2>2 DEF ChannelInit, ChannelTypeOK
<1>2. ChannelTypeOK /\ [ChannelNext]_asyncVars => ChannelTypeOK'
  <2> SUFFICES ASSUME ChannelTypeOK, [ChannelNext]_asyncVars PROVE ChannelTypeOK'
    OBVIOUS
  <2> USE MaxSendsAssumption
  <2>1. ASSUME NEW p \in Senders, Push(p) PROVE ChannelTypeOK'
    <3>1. <<p, sent[p] + 1>> \in Values
      BY <2>1 DEF ChannelTypeOK, Push, Values
    <3>2. queue' \in Seq(Values)
      BY <2>1, <3>1 DEF ChannelTypeOK, Push
    <3> QED
      BY <2>1, <3>2 DEF ChannelTypeOK, Push, loopVars
  <2>2. ASSUME NEW p \in Senders, Check(p) PROVE ChannelTypeOK'
    BY <2>2 DEF ChannelTypeOK, Check, channelVars, loopVars
  <2>3. ASSUME NEW p \in Senders, Signal(p) PROVE ChannelTypeOK'
    BY <2>3 DEF ChannelTypeOK, Signal, loopVars
  <2>4. CASE Create
    BY <2>4 DEF ChannelTypeOK, Create, senderVars
  <2>5. CASE Wake
    BY <2>5 DEF ChannelTypeOK, Wake, senderVars
  <2>6. CASE Fire
    BY <2>6 DEF ChannelTypeOK, Fire, senderVars
  <2>7. CASE Receive
    BY <2>7 DEF ChannelTypeOK, Receive, senderVars
  <2>8. CASE Deliver
    BY <2>8 DEF ChannelTypeOK, Deliver, channelVars, senderVars
  <2>9. CASE DestroyChannel
    BY <2>9 DEF ChannelTypeOK, DestroyChannel, loopVars
  <2>10. CASE UNCHANGED asyncVars
    BY <2>10 DEF ChannelTypeOK, asyncVars, channelVars, loopVars, senderVars
  <2> QED
    BY <2>1, <2>2, <2>3, <2>4, <2>5, <2>6, <2>7, <2>8, <2>9, <2>10
    DEF ChannelNext, LoopThread, Send
<1> QED
  BY <1>1, <1>2, PTL DEF ChannelSpec

-----------------------------------------------------------------------------

\* Between init() and the first recv() after it a wake-up is always on its way:
\* this is what makes up for the senders that cannot see the handle yet.
FirstWakeup == async /\ ~published => signal \/ loop \in {"init", "fired"}

WakeupInv == ChannelTypeOK /\ FirstWakeup /\ NoLostWakeup

\* No interleaving of any number of senders with init(), destroy() and the
\* loop leaves a value in the channel without a wake-up on its way.
THEOREM WakeupNeverLost == ChannelSpec => []NoLostWakeup
<1>1. ChannelInit => FirstWakeup /\ NoLostWakeup
  BY DEF ChannelInit, FirstWakeup, NoLostWakeup
<1>2. WakeupInv /\ [ChannelNext]_asyncVars => (FirstWakeup /\ NoLostWakeup)'
  <2> SUFFICES ASSUME WakeupInv, [ChannelNext]_asyncVars PROVE (FirstWakeup /\ NoLostWakeup)'
    OBVIOUS
  <2> USE DEF WakeupInv, ChannelTypeOK, FirstWakeup, NoLostWakeup
  <2>1. ASSUME NEW p \in Senders, Push(p) PROVE (FirstWakeup /\ NoLostWakeup)'
    <3>1. at'[p] = "pushed" /\ synced'[p] = published
      BY <2>1 DEF Push
    <3> QED
      BY <2>1, <3>1 DEF Push, loopVars
  <2>2. ASSUME NEW p \in Senders, Check(p) PROVE (FirstWakeup /\ NoLostWakeup)'
    <3>1. \A q \in Senders \ {p} : at'[q] = at[q]
      BY <2>2 DEF Check
    <3>2. async /\ synced[p] => at'[p] = "checked"
      BY <2>2 DEF Check
    <3>3. at[p] = "pushed"
      BY <2>2 DEF Check
    <3> QED
      BY <2>2, <3>1, <3>2, <3>3 DEF Check, channelVars, loopVars
  <2>3. ASSUME NEW p \in Senders, Signal(p) PROVE (FirstWakeup /\ NoLostWakeup)'
    BY <2>3 DEF Signal, loopVars
  <2>4. CASE LoopThread
    BY <2>4 DEF LoopThread, Create, Wake, Fire, Receive, Deliver, DestroyChannel,
                channelVars, senderVars, loopVars
  <2>5. CASE UNCHANGED asyncVars
    BY <2>5 DEF asyncVars, channelVars, loopVars, senderVars
  <2> QED
    BY <2>1, <2>2, <2>3, <2>4, <2>5 DEF ChannelNext, Send
<1> QED
  BY <1>1, <1>2, Typing, PTL DEF ChannelSpec, WakeupInv

-----------------------------------------------------------------------------
(* Order *)

\* recv() finds the vector of the last one handed over.
BatchEmpty == loop # "received" => batch = <<>>

\* What InOrder says of any sequence of values
OrderOf(all, counts) ==
    /\ {all[i] : i \in DOMAIN all} = {v \in Values : v[2] <= counts[v[1]]}
    /\ \A i, j \in DOMAIN all :
          i < j /\ all[i][1] = all[j][1] => all[i][2] < all[j][2]

LEMMA AppendKeepsOrder ==
    ASSUME NEW all \in Seq(Values), NEW counts \in [Senders -> 0 .. MaxSends],
           NEW p \in Senders, counts[p] < MaxSends, OrderOf(all, counts)
    PROVE  OrderOf(Append(all, <<p, counts[p] + 1>>), [counts EXCEPT ![p] = @ + 1])
<1> DEFINE v == <<p, counts[p] + 1>>
           new == Append(all, v)
           n == Len(all)
           more == [counts EXCEPT ![p] = @ + 1]
<1>1. v \in Values /\ v[1] = p /\ v[2] = counts[p] + 1
  BY MaxSendsAssumption DEF Values
<1>2. /\ new \in Seq(Values) /\ Len(new) = n + 1 /\ n \in Nat
      /\ \A i \in 1 .. n : new[i] = all[i]
      /\ new[n + 1] = v
  BY <1>1, AppendProperties, LenProperties
<1>3. DOMAIN new = 1 .. n + 1 /\ DOMAIN all = 1 .. n
  BY <1>2, LenProperties
<1>4. \A i \in 1 .. n : all[i] \in Values /\ all[i][2] <= counts[all[i][1]]
  <2> TAKE i \in 1 .. n
  <2>1. all[i] \in {all[k] : k \in DOMAIN all}
    BY <1>3
  <2> QED
    BY <2>1 DEF OrderOf
<1>5. \A q \in Senders : more[q] = IF q = p THEN counts[q] + 1 ELSE counts[q]
  OBVIOUS
<1> HIDE DEF v, new, more
<1>6. \A i \in 1 .. n + 1 : i \in 1 .. n \/ i = n + 1
  BY <1>2
<1>7. {new[i] : i \in DOMAIN new} = {w \in Values : w[2] <= more[w[1]]}
  <2>1. ASSUME NEW i \in DOMAIN new PROVE new[i] \in Values /\ new[i][2] <= more[new[i][1]]
    <3>1. CASE i = n + 1
      BY <1>1, <1>2, <1>5, <3>1
    <3>2. CASE i \in 1 .. n
      <4>1. new[i] \in Values /\ new[i][2] <= counts[new[i][1]]
        BY <1>2, <1>4, <3>2
      <4>2. new[i][1] \in Senders /\ new[i][2] \in Nat /\ counts[new[i][1]] \in Nat
        BY <4>1 DEF Values
      <4> QED
        BY <1>5, <4>1, <4>2
    <3> QED
      BY <1>3, <1>6, <2>1, <3>1, <3>2
  <2>2. ASSUME NEW w \in Values, w[2] <= more[w[1]]
        PROVE  \E i \in DOMAIN new : w = new[i]
    <3>1. w[1] \in Senders /\ w[2] \in Nat /\ w = <<w[1], w[2]>> /\ counts[w[1]] \in Nat
      BY <2>2 DEF Values
    <3>2. CASE w[2] <= counts[w[1]]
      <4>1. w \in {all[i] : i \in DOMAIN all}
        BY <2>2, <3>2 DEF OrderOf
      <4>2. PICK i \in DOMAIN all : w = all[i]
        BY <4>1
      <4>3. i \in DOMAIN new /\ w = new[i]
        BY <1>2, <1>3, <4>2
      <4> QED
        BY <4>3
    <3>3. CASE ~(w[2] <= counts[w[1]])
      <4>1. w[1] = p /\ w[2] = counts[p] + 1
        BY <1>5, <2>2, <3>1, <3>3
      <4>2. w = new[n + 1] /\ n + 1 \in DOMAIN new
        BY <1>2, <1>3, <3>1, <4>1 DEF v
      <4> QED
        BY <4>2
    <3> QED
      BY <3>2, <3>3
  <2> QED
    BY <2>1, <2>2
<1>8. ASSUME NEW i \in DOMAIN new, NEW j \in DOMAIN new, i < j, new[i][1] = new[j][1]
      PROVE  new[i][2] < new[j][2]
  <2>1. i \in 1 .. n
    BY <1>2, <1>3, <1>8
  <2>2. CASE j \in 1 .. n
    BY <1>2, <1>3, <1>8, <2>1, <2>2 DEF OrderOf
  <2>3. CASE j = n + 1
    <3>1. new[i][1] = p /\ new[j][2] = counts[p] + 1
      BY <1>1, <1>2, <1>8, <2>3
    <3>2. new[i][2] <= counts[p] /\ new[i] \in Values
      BY <1>2, <1>4, <2>1, <3>1
    <3>3. new[i][2] \in Nat /\ counts[p] \in Nat
      BY <3>2 DEF Values
    <3> QED
      BY <3>1, <3>2, <3>3
  <2> QED
    BY <1>3, <1>6, <1>8, <2>2, <2>3
<1> QED
  BY <1>7, <1>8 DEF OrderOf, new, v, more

OrderInv == ChannelTypeOK /\ BatchEmpty /\ OrderOf(Conveyed, sent)

LEMMA ConveyedMoves ==
    ASSUME ChannelTypeOK, BatchEmpty
    PROVE  /\ Conveyed \in Seq(Values)
           /\ \A p \in Senders : Push(p) =>
                  Conveyed' = Append(Conveyed, <<p, sent[p] + 1>>)
           /\ Receive \/ Deliver => Conveyed' = Conveyed
<1>1. got \in Seq(Values) /\ batch \in Seq(Values) /\ queue \in Seq(Values)
      /\ <<>> \in Seq(Values)
  BY EmptySeq DEF ChannelTypeOK
<1>2. got \o batch \in Seq(Values) /\ Conveyed \in Seq(Values)
  BY <1>1, ConcatProperties DEF Conveyed
<1>3. ASSUME NEW p \in Senders, Push(p)
      PROVE  Conveyed' = Append(Conveyed, <<p, sent[p] + 1>>)
  <2> DEFINE v == <<p, sent[p] + 1>>
  <2>1. v \in Values
    BY <1>3, MaxSendsAssumption DEF Push, ChannelTypeOK, Values
  <2>2. queue' = Append(queue, v) /\ got' = got /\ batch' = batch
    BY <1>3 DEF Push, loopVars
  <2> HIDE DEF v
  <2>3. Append(queue, v) = queue \o <<v>> /\ Append(Conveyed, v) = Conveyed \o <<v>>
        /\ <<v>> \in Seq(Values)
    BY <1>1, <1>2, <2>1, AppendIsConcat
  <2>4. (got \o batch) \o (queue \o <<v>>) = ((got \o batch) \o queue) \o <<v>>
    BY <1>1, <1>2, <2>3, ConcatAssociative
  <2> QED
    BY <2>2, <2>3, <2>4 DEF Conveyed, v
<1>4. ASSUME Receive PROVE Conveyed' = Conveyed
  <2>1. batch = <<>> /\ batch' = queue /\ queue' = <<>> /\ got' = got
    BY <1>4 DEF Receive, BatchEmpty
  <2>2. got \o <<>> = got /\ (got \o queue) \o <<>> = got \o queue
    BY <1>1, ConcatEmptySeq, ConcatProperties
  <2>3. Conveyed' = (got \o queue) \o <<>> /\ Conveyed = (got \o <<>>) \o queue
    BY <2>1, Zenon DEF Conveyed
  <2> QED
    BY <2>2, <2>3, Zenon
<1>5. ASSUME Deliver PROVE Conveyed' = Conveyed
  <2>1. got' = got \o batch /\ batch' = <<>> /\ queue' = queue
    BY <1>5 DEF Deliver, channelVars
  <2>2. (got \o batch) \o <<>> = got \o batch
    BY <1>2, ConcatEmptySeq
  <2>3. Conveyed' = ((got \o batch) \o <<>>) \o queue
    BY <2>1, Zenon DEF Conveyed
  <2> QED
    BY <2>2, <2>3, Zenon DEF Conveyed
<1> QED
  BY <1>2, <1>3, <1>4, <1>5

\* For every sender, what it sent is delivered once, in its order: whoever
\* sends at the same time, and whatever signals coalesce (channel.h:24-60).
THEOREM DeliveredInOrder == ChannelSpec => []InOrder
<1>1. ChannelInit => BatchEmpty /\ OrderOf(Conveyed, sent)
  <2> SUFFICES ASSUME ChannelInit PROVE BatchEmpty /\ OrderOf(Conveyed, sent)
    OBVIOUS
  <2>1. Conveyed = <<>>
    BY EmptySeq, ConcatEmptySeq DEF ChannelInit, Conveyed
  <2>2. DOMAIN Conveyed = {}
    BY <2>1, EmptySeq, LenProperties
  <2>3. \A v \in Values : ~(v[2] <= sent[v[1]])
    BY DEF ChannelInit, Values
  <2> QED
    BY <2>2, <2>3 DEF OrderOf, BatchEmpty, ChannelInit
<1>2. OrderInv /\ [ChannelNext]_asyncVars => (BatchEmpty /\ OrderOf(Conveyed, sent))'
  <2> SUFFICES ASSUME OrderInv, [ChannelNext]_asyncVars
               PROVE  (BatchEmpty /\ OrderOf(Conveyed, sent))'
    OBVIOUS
  <2>1. ChannelTypeOK /\ BatchEmpty /\ OrderOf(Conveyed, sent)
    BY DEF OrderInv
  <2>2. ASSUME Conveyed' = Conveyed, sent' = sent
        PROVE  OrderOf(Conveyed, sent)'
    BY <2>1, <2>2 DEF OrderOf
  <2>3. ASSUME UNCHANGED <<got, batch, queue, sent>>, UNCHANGED loop \/ loop # "received"
        PROVE  (BatchEmpty /\ OrderOf(Conveyed, sent))'
    BY <2>1, <2>2, <2>3 DEF BatchEmpty, Conveyed
  <2>4. ASSUME NEW p \in Senders, Push(p)
        PROVE  (BatchEmpty /\ OrderOf(Conveyed, sent))'
    <3>1. Conveyed \in Seq(Values) /\ Conveyed' = Append(Conveyed, <<p, sent[p] + 1>>)
      BY <2>1, <2>4, ConveyedMoves
    <3>2. sent' = [sent EXCEPT ![p] = @ + 1] /\ sent[p] < MaxSends
          /\ UNCHANGED <<loop, batch>>
      BY <2>4 DEF Push, loopVars
    <3>3. sent \in [Senders -> 0 .. MaxSends]
      BY <2>1 DEF ChannelTypeOK
    <3>4. OrderOf(Append(Conveyed, <<p, sent[p] + 1>>), [sent EXCEPT ![p] = @ + 1])
      BY <2>1, <3>1, <3>2, <3>3, AppendKeepsOrder
    <3>5. OrderOf(Conveyed', sent')
      BY <3>1, <3>2, <3>4, Zenon
    <3>6. OrderOf(Conveyed, sent)'
      BY <3>5, Zenon DEF OrderOf
    <3>7. BatchEmpty'
      BY <2>1, <3>2 DEF BatchEmpty
    <3> QED
      BY <3>6, <3>7
  <2>5. CASE Receive \/ Deliver
    <3>1. Conveyed' = Conveyed /\ sent' = sent /\ BatchEmpty'
      BY <2>1, <2>5, ConveyedMoves DEF Receive, Deliver, senderVars, BatchEmpty
    <3> QED
      BY <2>2, <3>1
  <2>6. ASSUME NEW p \in Senders, Check(p) \/ Signal(p)
        PROVE  (BatchEmpty /\ OrderOf(Conveyed, sent))'
    BY <2>3, <2>6 DEF Check, Signal, channelVars, loopVars
  <2>7. CASE Create \/ Wake \/ Fire \/ DestroyChannel \/ UNCHANGED asyncVars
    BY <2>3, <2>7 DEF Create, Wake, Fire, DestroyChannel, asyncVars, channelVars, loopVars, senderVars
  <2> QED
    BY <2>4, <2>5, <2>6, <2>7 DEF ChannelNext, LoopThread, Send
<1>3. OrderInv => InOrder
  BY DEF OrderInv, OrderOf, InOrder
<1> QED
  BY <1>1, <1>2, <1>3, Typing, PTL DEF ChannelSpec, OrderInv

=============================================================================
