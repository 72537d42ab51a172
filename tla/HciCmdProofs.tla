---------------------------- MODULE HciCmdProofs ----------------------------
(***************************************************************************)
(* Proofs about HciCmd, for every size of the command queue and every      *)
(* number of commands, restarts, lost commands and Command Completes that  *)
(* answer nothing.                                                         *)
(***************************************************************************)
EXTENDS HciCmd, SequenceTheorems, FiniteSetTheorems, TLAPS

USE HciCmdAssumption DEF HciCmdAssumption

-----------------------------------------------------------------------------
(* Every command and answer on its way, the oldest first.                  *)
Way == evts \o (ctrl \o fifo)

(* At most one encryption request is on the way w, and it is the one that  *)
(* the callback cb was registered with.                                    *)
OneRequest(w, cb) ==
    /\ \A i \in DOMAIN w : w[i].op = "encrypt" => cb # 0 /\ w[i].id = cb
    /\ \A i, j \in DOMAIN w :
            w[i].op = "encrypt" /\ w[j].op = "encrypt" => i = j

(* The order invariant, and what makes the queue wake up.                  *)
QInv == TypeOK /\ HandedInOrder /\ NeverStuck

IInv ==
    /\ QInv
    /\ OneRequest(Way, encrypt_cb)
    /\ RightAnswer

Item == Command \cup Event

-----------------------------------------------------------------------------
(* Queues of commands and of events are queues of items.                   *)
LEMMA AsItems ==
    /\ \A s \in Seq(Command) : s \in Seq(Item)
    /\ \A s \in Seq(Event) : s \in Seq(Item)
<1>1. ASSUME NEW S, NEW T, S \subseteq T, NEW s \in Seq(S) PROVE s \in Seq(T)
  <2>1. Len(s) \in Nat /\ s = [i \in 1 .. Len(s) |-> s[i]]
    BY LenProperties
  <2>2. \A i \in 1 .. Len(s) : s[i] \in T
    BY <1>1, ElementOfSeq
  <2> QED
    BY <2>1, <2>2, IsASeq
<1> QED
  BY <1>1 DEF Item

(* Concatenation of queues of commands is associative.                     *)
LEMMA Regroup ==
    \A r, s, t \in Seq(Command) : (r \o s) \o t = r \o (s \o t)
BY ConcatAssociative

LEMMA RegroupItems ==
    \A r, s, t \in Seq(Item) : (r \o s) \o t = r \o (s \o t)
BY ConcatAssociative

(* A queue of commands is its oldest command and the rest.                 *)
LEMMA SplitHead ==
    ASSUME NEW f \in Seq(Command), f # <<>>
    PROVE  /\ Head(f) \in Command
           /\ Tail(f) \in Seq(Command)
           /\ Len(Tail(f)) = Len(f) - 1
           /\ <<Head(f)>> \in Seq(Command)
           /\ <<Head(f)>> \o Tail(f) = f
<1>1. Head(f) \in Command /\ Tail(f) \in Seq(Command) /\ Len(Tail(f)) = Len(f) - 1
  BY HeadTailProperties
<1>2. f = <<Head(f)>> \o Tail(f)
  <2>1. Len(f) \in Nat \ {0}
    BY EmptySeq, LenProperties
  <2>2. Len(<<Head(f)>> \o Tail(f)) = Len(f)
    BY <1>1, <2>1
  <2>3. \A i \in 1 .. Len(f) : f[i] = (<<Head(f)>> \o Tail(f))[i]
    BY <1>1, <2>1
  <2> QED
    BY <1>1, <2>2, <2>3, SeqEqual
<1> QED
  BY <1>1, <1>2

(* ... and everything but the newest command, and that one.                *)
LEMMA SplitLast ==
    ASSUME NEW f \in Seq(Command), f # <<>>
    PROVE  /\ Front(f) \in Seq(Command)
           /\ <<Last(f)>> \in Seq(Command)
           /\ f = Front(f) \o <<Last(f)>>
<1>1. Len(f) \in Nat \ {0} /\ f = [i \in 1 .. Len(f) |-> f[i]]
  BY EmptySeq, LenProperties
<1>2. Last(f) \in Command /\ Last(f) = f[Len(f)]
  BY <1>1, ElementOfSeq DEF Last
<1>3. /\ Front(f) \in Seq(Command)
      /\ Len(Front(f)) = Len(f) - 1
      /\ \A i \in 1 .. Len(f) - 1 : Front(f)[i] = f[i]
  BY <1>1 DEF Front
<1>4. Len(Front(f) \o <<Last(f)>>) = Len(f)
  <2>1. \A a \in Seq(Command), x \in Command : Len(a \o <<x>>) = Len(a) + 1
    OBVIOUS
  <2>2. Len(Front(f) \o <<Last(f)>>) = Len(Front(f)) + 1
    BY <1>2, <1>3, <2>1
  <2>3. /\ Len(f) \in Nat
        /\ Len(Front(f)) = Len(f) - 1
    BY <1>1, <1>3
  <2> QED
    BY <2>2, <2>3
<1>5. \A i \in 1 .. Len(f) : f[i] = (Front(f) \o <<Last(f)>>)[i]
  <2> TAKE i \in 1 .. Len(f)
  <2>1. CASE i = Len(f)
    BY <1>1, <1>2, <1>3, <2>1
  <2>2. CASE i # Len(f)
    <3>1. i \in 1 .. Len(f) - 1
      BY <1>1, <2>2
    <3> QED
      BY <1>1, <1>2, <1>3, <3>1
  <2> QED
    BY <2>1, <2>2
<1> QED
  BY <1>2, <1>3, <1>4, <1>5, SeqEqual

(* eb_hci_pending_send, whatever called it, keeps the order of commands,   *)
(* and leaves nothing in the queue unless the flag is set.                 *)
LEMMA PendingSendEffect ==
    ASSUME NEW new \in Seq(Command), NEW p \in {0, 1}, PendingSend(new, p),
           TypeOK
    PROVE  /\ fifo' \in Seq(Command) /\ Len(fifo') < BufNum
           /\ pending' \in {0, 1}
           /\ ctrl' \in Seq(Command)
           /\ issued' \in Seq(Command)
           /\ handed' \in Seq(Command)
           /\ HandedInOrder => HandedInOrder'
           /\ ctrl' \o fifo' = (ctrl \o fifo) \o new
           /\ fifo' # <<>> => pending' = 1
           /\ pending' = 1 => ctrl' # <<>> \/ (p = 1 /\ ctrl' = ctrl)
           /\ p = 0 \/ pending' = 1
<1> DEFINE f == fifo \o new
<1>1. /\ fifo \in Seq(Command) /\ ctrl \in Seq(Command)
      /\ issued \in Seq(Command) /\ handed \in Seq(Command)
  BY DEF TypeOK
<1>2. f \in Seq(Command) /\ Len(f) < BufNum /\ issued' = issued \o new
  BY <1>1 DEF PendingSend
<1>3. issued' \in Seq(Command)
  BY <1>1, <1>2
<1>4. CASE p = 0 /\ f # <<>>
  <2>1. /\ fifo' = Tail(f) /\ pending' = 1
        /\ ctrl' = Append(ctrl, Head(f))
        /\ handed' = Append(handed, Head(f))
    BY <1>4 DEF PendingSend
  <2>2. /\ Head(f) \in Command /\ Tail(f) \in Seq(Command)
        /\ Len(Tail(f)) = Len(f) - 1
        /\ <<Head(f)>> \in Seq(Command) /\ <<Head(f)>> \o Tail(f) = f
    BY <1>2, <1>4, SplitHead
  <2> HIDE DEF f
  <2>3. /\ ctrl' = ctrl \o <<Head(f)>> /\ handed' = handed \o <<Head(f)>>
    BY <1>1, <2>1, <2>2, AppendIsConcat
  <2>4. ctrl' \in Seq(Command) /\ handed' \in Seq(Command) /\ ctrl' # <<>>
    BY <1>1, <2>1, <2>2, AppendProperties
  <2>5. ctrl' \o fifo' = ctrl \o f /\ handed' \o fifo' = handed \o f
    <3>1. \A s \in Seq(Command) :
              (s \o <<Head(f)>>) \o Tail(f) = s \o (<<Head(f)>> \o Tail(f))
      BY <2>2, Regroup
    <3> QED
      BY <1>1, <2>1, <2>2, <2>3, <3>1
  <2>6. ctrl \o f = (ctrl \o fifo) \o new /\ handed \o f = (handed \o fifo) \o new
    BY <1>1, Regroup DEF f
  <2>7. HandedInOrder => HandedInOrder'
    BY <1>2, <2>5, <2>6 DEF HandedInOrder
  <2>8. Len(fifo') < BufNum
    BY <1>2, <2>1, <2>2, LenProperties
  <2> QED
    BY <1>3, <2>1, <2>2, <2>4, <2>5, <2>6, <2>7, <2>8
<1>5. CASE ~(p = 0 /\ f # <<>>)
  <2>1. fifo' = f /\ pending' = p /\ ctrl' = ctrl /\ handed' = handed
    BY <1>5 DEF PendingSend
  <2>2. ctrl \o f = (ctrl \o fifo) \o new /\ handed \o f = (handed \o fifo) \o new
    BY <1>1, Regroup
  <2>3. HandedInOrder => HandedInOrder'
    BY <1>2, <2>1, <2>2 DEF HandedInOrder
  <2> QED
    BY <1>1, <1>2, <1>3, <1>5, <2>1, <2>2, <2>3
<1> QED
  BY <1>4, <1>5

(* What is on the way keeps at most one request when it is rearranged into *)
(* v, and every request of v stood at place m of w.                        *)
LEMMA Rearranged ==
    ASSUME NEW w, NEW v, NEW cb, NEW m, OneRequest(w, cb),
           \A i \in DOMAIN v : v[i].op = "encrypt" =>
                /\ m[i] \in DOMAIN w
                /\ w[m[i]].op = "encrypt" /\ w[m[i]].id = v[i].id,
           \A i, j \in DOMAIN v :
                v[i].op = "encrypt" /\ v[j].op = "encrypt" /\ m[i] = m[j]
                    => i = j
    PROVE  OneRequest(v, cb)
BY DEF OneRequest

(* A command that is no request may be added.                              *)
LEMMA OtherAdded ==
    ASSUME NEW w \in Seq(Item), NEW c \in Item, NEW cb,
           c.op # "encrypt", OneRequest(w, cb)
    PROVE  OneRequest(Append(w, c), cb)
<1>1. \A i \in DOMAIN Append(w, c) :
          Append(w, c)[i].op = "encrypt" =>
              i \in DOMAIN w /\ Append(w, c)[i] = w[i]
  BY AppendProperties, LenProperties
<1> QED
  BY <1>1 DEF OneRequest

(* A request may be added when there is none.                              *)
LEMMA RequestAdded ==
    ASSUME NEW w \in Seq(Item), NEW c \in Item, c.op = "encrypt", c.id # 0,
           \A i \in DOMAIN w : w[i].op # "encrypt"
    PROVE  OneRequest(Append(w, c), c.id)
<1>1. \A i \in DOMAIN Append(w, c) :
          Append(w, c)[i].op = "encrypt" =>
              i = Len(w) + 1 /\ Append(w, c)[i] = c
  BY AppendProperties, LenProperties
<1> QED
  BY <1>1 DEF OneRequest

(* The oldest item leaves; if it is the request, no other is left.         *)
LEMMA OldestLeaves ==
    ASSUME NEW w \in Seq(Item), w # <<>>, NEW cb, OneRequest(w, cb)
    PROVE  /\ OneRequest(Tail(w), cb)
           /\ w[1].op = "encrypt" =>
                /\ cb # 0 /\ w[1].id = cb
                /\ \A i \in DOMAIN Tail(w) : Tail(w)[i].op # "encrypt"
<1>1. /\ Len(w) \in Nat \ {0} /\ DOMAIN w = 1 .. Len(w)
      /\ DOMAIN Tail(w) = 1 .. Len(w) - 1
      /\ \A i \in 1 .. Len(w) - 1 : Tail(w)[i] = w[i + 1]
  BY EmptySeq, LenProperties, HeadTailProperties
<1> QED
  BY <1>1 DEF OneRequest

(* The way is a sequence of commands and events, and its head is the       *)
(* oldest event.                                                           *)
LEMMA WayType ==
    ASSUME NEW e \in Seq(Event), NEW c \in Seq(Command), NEW f \in Seq(Command)
    PROVE  /\ e \o (c \o f) \in Seq(Item)
           /\ e # <<>> =>
                /\ e \o (c \o f) # <<>>
                /\ (e \o (c \o f))[1] = Head(e)
                /\ Tail(e) \in Seq(Event)
                /\ Tail(e) \o (c \o f) = Tail(e \o (c \o f))
<1> DEFINE r == c \o f
<1>1. r \in Seq(Command)
  OBVIOUS
<1> HIDE DEF r
<1>2. e \in Seq(Item) /\ r \in Seq(Item)
  BY <1>1, AsItems
<1>3. e \o r \in Seq(Item)
  BY <1>2
<1>4. ASSUME e # <<>>
      PROVE  /\ e \o r # <<>> /\ (e \o r)[1] = Head(e)
             /\ Tail(e) \in Seq(Event)
             /\ Tail(e) \o r = Tail(e \o r)
  <2>1. Len(e) \in Nat \ {0} /\ Len(r) \in Nat
    BY <1>2, <1>4, EmptySeq, LenProperties
  <2>2. /\ Tail(e) \in Seq(Event) /\ Len(Tail(e)) = Len(e) - 1
        /\ \A i \in 1 .. Len(e) - 1 : Tail(e)[i] = e[i + 1]
    BY <1>4, HeadTailProperties
  <2>3. /\ Len(e \o r) = Len(e) + Len(r)
        /\ \A i \in 1 .. Len(e) + Len(r) :
               (e \o r)[i] = IF i <= Len(e) THEN e[i] ELSE r[i - Len(e)]
    BY <1>2, ConcatProperties
  <2>4. e \o r # <<>> /\ (e \o r)[1] = Head(e)
    BY <2>1, <2>3
  <2>5. /\ Tail(e \o r) \in Seq(Item) /\ Len(Tail(e \o r)) = Len(e) + Len(r) - 1
        /\ \A i \in 1 .. Len(e) + Len(r) - 1 : Tail(e \o r)[i] = (e \o r)[i + 1]
    BY <1>3, <2>3, <2>4, HeadTailProperties
  <2>6. Tail(e) \in Seq(Item)
    BY <1>2, <1>4, HeadTailProperties
  <2>7. /\ Tail(e) \o r \in Seq(Item)
        /\ Len(Tail(e) \o r) = Len(e) - 1 + Len(r)
        /\ \A i \in 1 .. Len(e) - 1 + Len(r) :
               (Tail(e) \o r)[i] =
                   IF i <= Len(e) - 1 THEN Tail(e)[i] ELSE r[i - (Len(e) - 1)]
    BY <1>2, <2>2, <2>6, ConcatProperties
  <2>8. \A i \in 1 .. Len(e) + Len(r) - 1 : (Tail(e) \o r)[i] = Tail(e \o r)[i]
    BY <2>1, <2>2, <2>3, <2>5, <2>7
  <2>9. Tail(e) \o r = Tail(e \o r)
    <3>1. Len(Tail(e) \o r) = Len(Tail(e \o r))
      BY <2>1, <2>5, <2>7
    <3>2. \A i \in 1 .. Len(Tail(e) \o r) : (Tail(e) \o r)[i] = Tail(e \o r)[i]
      BY <2>1, <2>7, <2>8
    <3> QED
      BY <2>5, <2>7, <3>1, <3>2, SeqEqual
  <2> QED
    BY <2>2, <2>4, <2>9
<1> QED
  BY <1>3, <1>4 DEF r

(* A step of the host leaves on the way what was there, without the events *)
(* it takes out, and adds what it sends.                                   *)
LEMMA HostWay ==
    ASSUME TypeOK, NEW new \in Seq(Command), NEW p \in {0, 1},
           PendingSend(new, p), evts' \in Seq(Event)
    PROVE  Way' = (evts' \o (ctrl \o fifo)) \o new
<1>1. ctrl' \o fifo' = (ctrl \o fifo) \o new
  BY PendingSendEffect
<1>2. ctrl \o fifo \in Seq(Command)
  BY DEF TypeOK
<1>3. ctrl \o fifo \in Seq(Item) /\ new \in Seq(Item) /\ evts' \in Seq(Item)
  BY <1>2, AsItems
<1>5. evts' \o ((ctrl \o fifo) \o new) = (evts' \o (ctrl \o fifo)) \o new
  BY <1>3, ConcatAssociative
<1> QED
  BY <1>1, <1>5 DEF Way

(* Two queues are empty only when both are.                                *)
LEMMA NotBothEmpty ==
    \A c \in Seq(Command), e \in Seq(Event) :
        c \o e # <<>> <=> (c # <<>> \/ e # <<>>)
<1> SUFFICES ASSUME NEW c \in Seq(Command), NEW e \in Seq(Event)
             PROVE  c \o e # <<>> <=> (c # <<>> \/ e # <<>>)
  OBVIOUS
<1>1. c \in Seq(Item) /\ e \in Seq(Item)
  BY AsItems
<1>2. Len(c) \in Nat /\ Len(e) \in Nat /\ Len(c \o e) = Len(c) + Len(e)
  BY <1>1, LenProperties, ConcatProperties
<1>3. \A s \in Seq(Item) : s = <<>> <=> Len(s) = 0
  BY EmptySeq
<1>4. c \o e \in Seq(Item)
  BY <1>1
<1> QED
  BY <1>1, <1>2, <1>3, <1>4

(* A step of the host that sends new keeps the types, the order and the    *)
(* wake-up of the queue.                                                   *)
LEMMA HostQInv ==
    ASSUME QInv, NEW new \in Seq(Command), NEW p \in {0, 1},
           PendingSend(new, p), evts' \in Seq(Event), encrypt_cb' \in Nat,
           served' \subseteq Nat \X Nat, nops' \in Nat, inits' \in Nat,
           lost' \in Nat,
           p = 0 \/ (p = pending /\ evts' = evts /\ lost' = lost)
    PROVE  QInv'
<1>1. TypeOK /\ HandedInOrder /\ NeverStuck
  BY DEF QInv
<1>2. /\ fifo' \in Seq(Command) /\ Len(fifo') < BufNum
      /\ pending' \in {0, 1}
      /\ ctrl' \in Seq(Command)
      /\ issued' \in Seq(Command)
      /\ handed' \in Seq(Command)
      /\ HandedInOrder'
      /\ fifo' # <<>> => pending' = 1
      /\ pending' = 1 => ctrl' # <<>> \/ (p = 1 /\ ctrl' = ctrl)
  BY <1>1, PendingSendEffect
<1>3. TypeOK'
  BY <1>2 DEF TypeOK
<1>4. pending' = 1 => ctrl' \o evts' # <<>> \/ lost' > 0
  <2>1. CASE ctrl' # <<>>
    BY <1>2, <2>1, NotBothEmpty
  <2>2. CASE pending' = 1 /\ p = 1 /\ ctrl' = ctrl
    BY <1>1, <2>2 DEF NeverStuck
  <2> QED
    BY <1>2, <2>1, <2>2
<1> QED
  BY <1>2, <1>3, <1>4 DEF QInv, NeverStuck

(* The next command is a command.                                          *)
LEMMA CmdType ==
    ASSUME TypeOK, NEW op \in Op
    PROVE  /\ Cmd(op) \in Command /\ Cmd(op) \in Item
           /\ Cmd(op).op = op
           /\ Cmd(op).id = Len(issued) + 1
           /\ Len(issued) + 1 \in Nat \ {0}
           /\ <<Cmd(op)>> \in Seq(Command)
           /\ \A w \in Seq(Item) : w \o <<Cmd(op)>> = Append(w, Cmd(op))
<1>1. Len(issued) \in Nat
  BY LenProperties DEF TypeOK
<1>2. Cmd(op) \in Command
  BY <1>1 DEF Cmd, Command
<1>3. Cmd(op) \in Item
  BY <1>2 DEF Item
<1>4. Cmd(op).op = op /\ Cmd(op).id = Len(issued) + 1
  BY DEF Cmd
<1> HIDE DEF Cmd
<1>5. \A w \in Seq(Item) : w \o <<Cmd(op)>> = Append(w, Cmd(op))
  BY <1>3, AppendIsConcat
<1> QED
  BY <1>1, <1>2, <1>3, <1>4, <1>5

(* On the way before a step.                                               *)
LEMMA WayNow ==
    ASSUME TypeOK
    PROVE  /\ Way \in Seq(Item)
           /\ evts # <<>> =>
                /\ Way # <<>> /\ Way[1] = Head(evts)
                /\ Tail(evts) \in Seq(Event)
                /\ Tail(evts) \o (ctrl \o fifo) = Tail(Way)
                /\ Tail(Way) \in Seq(Item)
                /\ Head(evts) \in Event
<1>1. evts \in Seq(Event) /\ ctrl \in Seq(Command) /\ fifo \in Seq(Command)
  BY DEF TypeOK
<1>2. Way \in Seq(Item)
  BY <1>1, WayType DEF Way
<1>3. ASSUME evts # <<>>
      PROVE  /\ Way # <<>> /\ Way[1] = Head(evts)
             /\ Tail(evts) \in Seq(Event)
             /\ Tail(evts) \o (ctrl \o fifo) = Tail(Way)
  BY <1>1, <1>3, WayType DEF Way
<1>4. evts # <<>> => Head(evts) \in Event
  BY <1>1, HeadTailProperties
<1>5. evts # <<>> => Tail(Way) \in Seq(Item)
  BY <1>2, <1>3, HeadTailProperties
<1> QED
  BY <1>2, <1>3, <1>4, <1>5

-----------------------------------------------------------------------------
LEMMA InitIInv == Init => IInv
<1> SUFFICES ASSUME Init PROVE IInv
  OBVIOUS
<1> DEFINE r == [id |-> 1, op |-> "reset"]
<1>1. r \in Command /\ <<r>> \in Seq(Command)
  BY DEF Command, Op
<1>2. TypeOK
  BY <1>1 DEF Init, TypeOK
<1>3. HandedInOrder
  BY <1>1, ConcatEmptySeq DEF Init, HandedInOrder
<1>4. NeverStuck
  <2>1. ctrl # <<>>
    BY DEF Init
  <2> QED
    BY <1>2, <2>1, NotBothEmpty DEF NeverStuck, Init, TypeOK
<1>5. OneRequest(Way, encrypt_cb)
  <2>1. Way = <<r>>
    BY <1>1 DEF Init, Way
  <2>2. DOMAIN <<r>> = {1} /\ <<r>>[1].op = "reset"
    OBVIOUS
  <2> QED
    BY <2>1, <2>2 DEF OneRequest
<1>6. RightAnswer
  BY DEF Init, RightAnswer
<1> QED
  BY <1>2, <1>3, <1>4, <1>5, <1>6 DEF IInv, QInv

-----------------------------------------------------------------------------
(* Steps of the host.                                                      *)

LEMMA SendCmdIInv == IInv /\ SendCmd => IInv'
<1> SUFFICES ASSUME IInv, SendCmd PROVE IInv'
  OBVIOUS
<1> DEFINE c == Cmd("other")
<1>1. TypeOK /\ QInv /\ OneRequest(Way, encrypt_cb) /\ RightAnswer
  BY DEF IInv, QInv
<1>2. /\ PendingSend(<<c>>, pending)
      /\ UNCHANGED <<encrypt_cb, evts, served, nops, inits, lost>>
  BY DEF SendCmd
<1>3. "other" \in Op
  BY DEF Op
<1>4. /\ c \in Item /\ c.op = "other" /\ <<c>> \in Seq(Command)
      /\ \A w \in Seq(Item) : w \o <<c>> = Append(w, c)
  BY <1>1, <1>3, CmdType
<1> HIDE DEF c
<1>5. /\ pending \in {0, 1} /\ evts' \in Seq(Event) /\ encrypt_cb' \in Nat
      /\ served' \subseteq Nat \X Nat /\ nops' \in Nat /\ inits' \in Nat
      /\ lost' \in Nat
  BY <1>1, <1>2 DEF TypeOK
<1>6. QInv'
  BY <1>1, <1>2, <1>4, <1>5, HostQInv
<1>7. Way' = Append(Way, c)
  <2>1. Way' = (evts' \o (ctrl \o fifo)) \o <<c>>
    BY <1>1, <1>2, <1>4, <1>5, HostWay
  <2>2. Way \in Seq(Item)
    BY <1>1, WayNow
  <2> QED
    BY <1>2, <1>4, <2>1, <2>2 DEF Way
<1>8. OneRequest(Way', encrypt_cb')
  <2>1. Way \in Seq(Item)
    BY <1>1, WayNow
  <2> QED
    BY <1>1, <1>2, <1>4, <1>7, <2>1, OtherAdded
<1>9. RightAnswer'
  BY <1>1, <1>2 DEF RightAnswer
<1> QED
  BY <1>6, <1>8, <1>9 DEF IInv

LEMMA EncryptIInv == IInv /\ Encrypt => IInv'
<1> SUFFICES ASSUME IInv, Encrypt PROVE IInv'
  OBVIOUS
<1> DEFINE c == Cmd("encrypt")
<1>1. TypeOK /\ QInv /\ OneRequest(Way, encrypt_cb) /\ RightAnswer
  BY DEF IInv, QInv
<1>2. /\ PendingSend(<<c>>, pending)
      /\ encrypt_cb = 0 /\ encrypt_cb' = Len(issued) + 1
      /\ UNCHANGED <<evts, served, nops, inits, lost>>
  BY DEF Encrypt
<1>3. "encrypt" \in Op
  BY DEF Op
<1>4. /\ c \in Item /\ c.op = "encrypt" /\ <<c>> \in Seq(Command)
      /\ c.id = Len(issued) + 1 /\ Len(issued) + 1 \in Nat \ {0}
      /\ \A w \in Seq(Item) : w \o <<c>> = Append(w, c)
  BY <1>1, <1>3, CmdType
<1> HIDE DEF c
<1>5. /\ pending \in {0, 1} /\ evts' \in Seq(Event) /\ encrypt_cb' \in Nat
      /\ served' \subseteq Nat \X Nat /\ nops' \in Nat /\ inits' \in Nat
      /\ lost' \in Nat
  BY <1>1, <1>2, <1>4 DEF TypeOK
<1>6. QInv'
  BY <1>1, <1>2, <1>4, <1>5, HostQInv
<1>7. Way' = Append(Way, c) /\ Way \in Seq(Item)
  <2>1. Way' = (evts' \o (ctrl \o fifo)) \o <<c>>
    BY <1>1, <1>2, <1>4, <1>5, HostWay
  <2>2. Way \in Seq(Item)
    BY <1>1, WayNow
  <2> QED
    BY <1>2, <1>4, <2>1, <2>2 DEF Way
<1>8. OneRequest(Way', encrypt_cb')
  <2>1. \A i \in DOMAIN Way : Way[i].op # "encrypt"
    BY <1>1, <1>2 DEF OneRequest
  <2>2. c.id # 0
    BY <1>4
  <2>3. OneRequest(Append(Way, c), c.id)
    BY <1>4, <1>7, <2>1, <2>2, RequestAdded
  <2> QED
    BY <1>2, <1>4, <1>7, <2>3
<1>9. RightAnswer'
  BY <1>1, <1>2 DEF RightAnswer
<1> QED
  BY <1>6, <1>8, <1>9 DEF IInv

LEMMA CommandStatusIInv == IInv /\ CommandStatus => IInv'
<1> SUFFICES ASSUME IInv, CommandStatus PROVE IInv'
  OBVIOUS
<1>1. TypeOK /\ QInv /\ OneRequest(Way, encrypt_cb) /\ RightAnswer
  BY DEF IInv, QInv
<1>2. /\ PendingSend(<<>>, 0) /\ evts # <<>> /\ evts' = Tail(evts)
      /\ UNCHANGED <<encrypt_cb, served, nops, inits, lost>>
  BY DEF CommandStatus
<1>3. /\ Way \in Seq(Item) /\ Way # <<>>
      /\ Tail(evts) \in Seq(Event)
      /\ Tail(evts) \o (ctrl \o fifo) = Tail(Way) /\ Tail(Way) \in Seq(Item)
  BY <1>1, <1>2, WayNow
<1>4. /\ <<>> \in Seq(Command) /\ evts' \in Seq(Event) /\ encrypt_cb' \in Nat
      /\ served' \subseteq Nat \X Nat /\ nops' \in Nat /\ inits' \in Nat
      /\ lost' \in Nat
  BY <1>1, <1>2, <1>3 DEF TypeOK
<1>5. QInv'
  BY <1>1, <1>2, <1>4, HostQInv
<1>6. Way' = Tail(Way)
  <2>1. Way' = (evts' \o (ctrl \o fifo)) \o <<>>
    BY <1>1, <1>2, <1>4, HostWay
  <2> QED
    BY <1>2, <1>3, <2>1, ConcatEmptySeq
<1>7. OneRequest(Way', encrypt_cb')
  BY <1>1, <1>2, <1>3, <1>6, OldestLeaves
<1>8. RightAnswer'
  BY <1>1, <1>2 DEF RightAnswer
<1> QED
  BY <1>5, <1>7, <1>8 DEF IInv

LEMMA CommandCompleteIInv ==
    ASSUME IInv, NEW next \in Follow, CommandComplete(next)
    PROVE  IInv'
<1> DEFINE e == Head(evts)
           new == IF next = "none" THEN <<>> ELSE <<Cmd(next)>>
<1>1. TypeOK /\ QInv /\ OneRequest(Way, encrypt_cb) /\ RightAnswer
  BY DEF IInv, QInv
<1>2. /\ evts # <<>> /\ evts' = Tail(evts)
      /\ IF e.op = "encrypt"
         THEN EncryptedHandler(e, next)
         ELSE /\ next # "encrypt"
              /\ UNCHANGED <<encrypt_cb, served>>
      /\ PendingSend(new, 0)
      /\ UNCHANGED <<nops, inits, lost>>
  BY DEF CommandComplete
<1>3. /\ Way \in Seq(Item) /\ Way # <<>> /\ Way[1] = e
      /\ Tail(evts) \in Seq(Event)
      /\ Tail(evts) \o (ctrl \o fifo) = Tail(Way) /\ Tail(Way) \in Seq(Item)
      /\ e \in Event
  BY <1>1, <1>2, WayNow
<1>4. /\ OneRequest(Tail(Way), encrypt_cb)
      /\ e.op = "encrypt" =>
            /\ encrypt_cb # 0 /\ e.id = encrypt_cb
            /\ \A i \in DOMAIN Tail(Way) : Tail(Way)[i].op # "encrypt"
  BY <1>1, <1>3, OldestLeaves
<1>5. next # "none" => next \in Op
  BY DEF Follow, Op
<1>6. next # "none" =>
        /\ Cmd(next) \in Item /\ Cmd(next).op = next
        /\ Cmd(next).id = Len(issued) + 1
        /\ <<Cmd(next)>> \in Seq(Command)
        /\ \A w \in Seq(Item) : w \o <<Cmd(next)>> = Append(w, Cmd(next))
  BY <1>1, <1>5, CmdType
<1>7. Len(issued) + 1 \in Nat \ {0}
  BY <1>1, CmdType DEF Op
<1>8. new \in Seq(Command)
  BY <1>6
<1>9. /\ e.op = "encrypt" =>
            /\ encrypt_cb' = IF next = "encrypt" THEN Len(issued) + 1 ELSE 0
            /\ served' = served \cup {<<encrypt_cb, e.id>>}
      /\ e.op # "encrypt" =>
            next # "encrypt" /\ encrypt_cb' = encrypt_cb /\ served' = served
  BY <1>2, <1>4 DEF EncryptedHandler
<1>10. /\ encrypt_cb \in Nat /\ e.id \in Nat /\ served \subseteq Nat \X Nat
  BY <1>1, <1>3 DEF TypeOK, Event
<1> HIDE DEF e, new
<1>11. /\ evts' \in Seq(Event) /\ encrypt_cb' \in Nat
       /\ served' \subseteq Nat \X Nat /\ nops' \in Nat /\ inits' \in Nat
       /\ lost' \in Nat
  <2>1. encrypt_cb' \in Nat
    BY <1>7, <1>9, <1>10
  <2>2. served' \subseteq Nat \X Nat
    BY <1>9, <1>10
  <2> QED
    BY <1>1, <1>2, <1>3, <2>1, <2>2 DEF TypeOK
<1>12. QInv'
  BY <1>1, <1>2, <1>8, <1>11, HostQInv
<1>13. Way' = Tail(Way) \o new
  <2>1. Way' = (evts' \o (ctrl \o fifo)) \o new
    BY <1>1, <1>2, <1>8, <1>11, HostWay
  <2> QED
    BY <1>2, <1>3, <2>1
<1>14. Way' = IF next = "none" THEN Tail(Way) ELSE Append(Tail(Way), Cmd(next))
  BY <1>3, <1>6, <1>13, ConcatEmptySeq DEF new
<1>15. OneRequest(Way', encrypt_cb')
  <2>1. CASE next = "encrypt"
    <3>1. /\ encrypt_cb' = Cmd(next).id /\ Cmd(next).id # 0
          /\ \A i \in DOMAIN Tail(Way) : Tail(Way)[i].op # "encrypt"
      BY <1>4, <1>6, <1>7, <1>9, <2>1
    <3>2. OneRequest(Append(Tail(Way), Cmd(next)), Cmd(next).id)
      BY <1>3, <1>6, <2>1, <3>1, RequestAdded
    <3> QED
      BY <1>14, <2>1, <3>1, <3>2
  <2>2. CASE next # "encrypt"
    <3>1. OneRequest(Tail(Way), encrypt_cb')
      BY <1>4, <1>9, <2>2 DEF OneRequest
    <3>2. CASE next = "none"
      BY <1>14, <3>1, <3>2
    <3>3. CASE next # "none"
      <4>1. OneRequest(Append(Tail(Way), Cmd(next)), encrypt_cb')
        BY <1>3, <1>6, <2>2, <3>1, <3>3, OtherAdded
      <4> QED
        BY <1>14, <3>3, <4>1
    <3> QED
      BY <3>2, <3>3
  <2> QED
    BY <2>1, <2>2
<1>16. RightAnswer'
  BY <1>1, <1>4, <1>9 DEF RightAnswer
<1> QED
  BY <1>12, <1>15, <1>16 DEF IInv

(* What stands in the middle may leave, be it a request or not, and what   *)
(* is not a request may come in.                                           *)
LEMMA MiddleReplaced ==
    ASSUME NEW a \in Seq(Item), NEW b \in Seq(Item), NEW c \in Seq(Item),
           NEW d \in Seq(Item), NEW cb, OneRequest(a \o (b \o c), cb),
           \A i \in DOMAIN d : d[i].op # "encrypt"
    PROVE  OneRequest(a \o (d \o c), cb)
<1> DEFINE w == a \o (b \o c)
           v == a \o (d \o c)
           place == [i \in DOMAIN v |->
                        IF i <= Len(a) THEN i ELSE i - Len(d) + Len(b)]
<1>1. /\ Len(a) \in Nat /\ Len(b) \in Nat /\ Len(c) \in Nat /\ Len(d) \in Nat
      /\ b \o c \in Seq(Item) /\ d \o c \in Seq(Item)
  BY LenProperties
<1>2. /\ DOMAIN w = 1 .. Len(a) + Len(b) + Len(c)
      /\ \A i \in 1 .. Len(a) : w[i] = a[i]
      /\ \A i \in 1 .. Len(c) : w[Len(a) + Len(b) + i] = c[i]
  BY <1>1
<1>3. /\ DOMAIN v = 1 .. Len(a) + Len(d) + Len(c)
      /\ \A i \in 1 .. Len(a) : v[i] = a[i]
      /\ \A i \in 1 .. Len(d) : v[Len(a) + i] = d[i]
      /\ \A i \in 1 .. Len(c) : v[Len(a) + Len(d) + i] = c[i]
  BY <1>1
<1> HIDE DEF w, v
<1>4. \A i \in DOMAIN v : i \in Nat /\ i >= 1 /\ i <= Len(a) + Len(d) + Len(c)
  BY <1>1, <1>3
<1>5. \A i \in DOMAIN v :
          place[i] = IF i <= Len(a) THEN i ELSE i - Len(d) + Len(b)
  OBVIOUS
<1> HIDE DEF place
<1>6. ASSUME NEW i \in DOMAIN v, v[i].op = "encrypt"
      PROVE  /\ i <= Len(a) \/ i > Len(a) + Len(d)
             /\ place[i] \in DOMAIN w /\ v[i] = w[place[i]]
  <2>1. CASE i <= Len(a)
    <3>1. i \in 1 .. Len(a) /\ place[i] = i
      BY <1>4, <1>5, <2>1
    <3>2. i \in DOMAIN w
      BY <1>1, <1>2, <3>1
    <3> QED
      BY <1>2, <1>3, <2>1, <3>1, <3>2
  <2>2. CASE i > Len(a) /\ i <= Len(a) + Len(d)
    <3>1. PICK k \in 1 .. Len(d) : i = Len(a) + k
      <4>1. i - Len(a) \in 1 .. Len(d) /\ i = Len(a) + (i - Len(a))
        BY <1>1, <1>4, <2>2
      <4> QED
        BY <4>1
    <3>2. v[i] = d[k] /\ k \in DOMAIN d
      BY <1>3, <3>1, LenProperties
    <3> QED
      BY <1>6, <3>2
  <2>3. CASE i > Len(a) + Len(d)
    <3>1. PICK k \in 1 .. Len(c) : i = Len(a) + Len(d) + k
      <4>1. /\ i - Len(a) - Len(d) \in 1 .. Len(c)
            /\ i = Len(a) + Len(d) + (i - Len(a) - Len(d))
        BY <1>1, <1>4, <2>3
      <4> QED
        BY <4>1
    <3>2. place[i] = Len(a) + Len(b) + k
      BY <1>1, <1>5, <2>3, <3>1
    <3>3. Len(a) + Len(b) + k \in DOMAIN w
      BY <1>1, <1>2
    <3>4. v[i] = c[k] /\ w[place[i]] = c[k]
      BY <1>2, <1>3, <3>1, <3>2
    <3> QED
      BY <2>3, <3>2, <3>3, <3>4
  <2> QED
    BY <1>1, <1>4, <2>1, <2>2, <2>3
<1>7. ASSUME NEW i \in DOMAIN v, NEW j \in DOMAIN v,
             v[i].op = "encrypt", v[j].op = "encrypt", place[i] = place[j]
      PROVE  i = j
  <2>1. (i <= Len(a) \/ i > Len(a) + Len(d)) /\ (j <= Len(a) \/ j > Len(a) + Len(d))
    BY <1>6, <1>7
  <2>2. /\ place[i] = IF i <= Len(a) THEN i ELSE i - Len(d) + Len(b)
        /\ place[j] = IF j <= Len(a) THEN j ELSE j - Len(d) + Len(b)
    BY <1>5
  <2>3. i \in Nat /\ j \in Nat
    BY <1>4
  <2>4. place[i] = place[j]
    BY <1>7
  <2> QED
    BY <1>1, <2>1, <2>2, <2>3, <2>4
<1>8. \A i \in DOMAIN v : v[i].op = "encrypt" =>
          /\ place[i] \in DOMAIN w
          /\ w[place[i]].op = "encrypt" /\ w[place[i]].id = v[i].id
  BY <1>6
<1>9. \A i, j \in DOMAIN v :
          v[i].op = "encrypt" /\ v[j].op = "encrypt" /\ place[i] = place[j]
              => i = j
  BY <1>7
<1>10. OneRequest(w, cb)
  BY DEF w
<1>11. OneRequest(v, cb)
  BY <1>8, <1>9, <1>10, Rearranged
<1> QED
  BY <1>11 DEF v

(* A command in the middle may turn into its answer.                       *)
LEMMA MiddleAnswered ==
    ASSUME NEW a \in Seq(Item), NEW x \in Item, NEW y \in Item,
           NEW c \in Seq(Item), NEW cb, x.op = y.op, x.id = y.id,
           OneRequest(a \o (<<x>> \o c), cb)
    PROVE  OneRequest(a \o (<<y>> \o c), cb)
<1> DEFINE w == a \o (<<x>> \o c)
           v == a \o (<<y>> \o c)
<1>1. /\ Len(a) \in Nat /\ Len(c) \in Nat
      /\ <<x>> \o c \in Seq(Item) /\ <<y>> \o c \in Seq(Item)
  BY LenProperties
<1>2. /\ DOMAIN w = 1 .. Len(a) + 1 + Len(c)
      /\ \A i \in 1 .. Len(a) + 1 + Len(c) :
            w[i] = IF i <= Len(a) THEN a[i]
                   ELSE IF i = Len(a) + 1 THEN x ELSE c[i - Len(a) - 1]
  BY <1>1
<1>3. /\ DOMAIN v = 1 .. Len(a) + 1 + Len(c)
      /\ \A i \in 1 .. Len(a) + 1 + Len(c) :
            v[i] = IF i <= Len(a) THEN a[i]
                   ELSE IF i = Len(a) + 1 THEN y ELSE c[i - Len(a) - 1]
  BY <1>1
<1>4. OneRequest(w, cb)
  OBVIOUS
<1> HIDE DEF w, v
<1>5. /\ DOMAIN v = DOMAIN w
      /\ \A i \in DOMAIN v : v[i].op = w[i].op /\ v[i].id = w[i].id
  BY <1>1, <1>2, <1>3
<1>6. OneRequest(v, cb)
  BY <1>4, <1>5 DEF OneRequest
<1> QED
  BY <1>6 DEF v

LEMMA ReinitIInv == IInv /\ Reinit => IInv'
<1> SUFFICES ASSUME IInv, Reinit PROVE IInv'
  OBVIOUS
<1> DEFINE c == Cmd("reset")
           f == Append(fifo, c)
<1>1. TypeOK /\ HandedInOrder /\ OneRequest(Way, encrypt_cb) /\ RightAnswer
  BY DEF IInv, QInv
<1>2. /\ evts \in Seq(Event) /\ ctrl \in Seq(Command)
      /\ fifo \in Seq(Command) /\ issued \in Seq(Command)
      /\ handed \in Seq(Command) /\ inits \in Nat
  BY <1>1 DEF TypeOK
<1>3. /\ c \in Item /\ c \in Command /\ c.op = "reset" /\ <<c>> \in Seq(Command)
      /\ \A w \in Seq(Item) : w \o <<c>> = Append(w, c)
  BY <1>1, CmdType DEF Op
<1> HIDE DEF c
<1>4. PICK k \in 0 .. Len(evts) : evts' = SubSeq(evts, k + 1, Len(evts))
  BY DEF Reinit
<1>5. PICK kept \in {<<>>, ctrl} : ctrl' = Append(kept, Head(f))
  BY DEF Reinit, c
<1>6. /\ Len(f) < BufNum /\ issued' = Append(issued, c) /\ fifo' = Tail(f)
      /\ handed' = Append(handed, Head(f)) /\ inits' = inits + 1
      /\ pending' = 1
      /\ UNCHANGED <<encrypt_cb, served, nops, lost>>
  BY DEF Reinit, c
<1>7. /\ f \in Seq(Command) /\ f # <<>> /\ f = fifo \o <<c>>
      /\ issued' = issued \o <<c>>
  BY <1>2, <1>3, <1>6, AppendProperties, AppendIsConcat
<1>8. /\ Head(f) \in Command /\ Tail(f) \in Seq(Command)
      /\ Len(Tail(f)) = Len(f) - 1
      /\ <<Head(f)>> \in Seq(Command) /\ <<Head(f)>> \o Tail(f) = f
  BY <1>7, SplitHead
<1> HIDE DEF f
<1>9. kept \in Seq(Command)
  <2>1. kept = <<>> \/ kept = ctrl
    BY <1>5
  <2>2. <<>> \in Seq(Command)
    BY EmptySeq
  <2> QED
    BY <1>2, <2>1, <2>2
<1>10. \A s \in Seq(Command) :
          /\ Append(s, Head(f)) \in Seq(Command)
          /\ Append(s, Head(f)) # <<>>
          /\ Append(s, Head(f)) \o Tail(f) = s \o f
  <2> SUFFICES ASSUME NEW s \in Seq(Command)
               PROVE  /\ Append(s, Head(f)) \in Seq(Command)
                      /\ Append(s, Head(f)) # <<>>
                      /\ Append(s, Head(f)) \o Tail(f) = s \o f
    OBVIOUS
  <2>1. /\ Append(s, Head(f)) \in Seq(Command) /\ Append(s, Head(f)) # <<>>
        /\ Append(s, Head(f)) = s \o <<Head(f)>>
    BY <1>8, AppendProperties, AppendIsConcat
  <2>2. (s \o <<Head(f)>>) \o Tail(f) = s \o (<<Head(f)>> \o Tail(f))
    BY <1>8, Regroup
  <2> QED
    BY <1>8, <2>1, <2>2
<1>11. evts' \in Seq(Event)
  BY <1>2, <1>4, LenProperties, SubSeqProperties
<1>12. TypeOK'
  <2>1. Len(fifo') < BufNum
    BY <1>6, <1>7, <1>8, LenProperties
  <2>2. issued' \in Seq(Command)
    BY <1>2, <1>3, <1>6
  <2> QED
    BY <1>1, <1>2, <1>5, <1>6, <1>8, <1>9, <1>10, <1>11, <2>1, <2>2 DEF TypeOK
<1>13. HandedInOrder'
  <2>1. handed' \o fifo' = handed \o f
    BY <1>2, <1>6, <1>10
  <2>2. handed \o f = (handed \o fifo) \o <<c>>
    BY <1>2, <1>3, <1>7, Regroup
  <2> QED
    BY <1>1, <1>7, <2>1, <2>2 DEF HandedInOrder
<1>14. NeverStuck'
  <2>1. ctrl' \in Seq(Command) /\ ctrl' # <<>>
    BY <1>5, <1>9, <1>10
  <2> QED
    BY <1>6, <1>11, <2>1, NotBothEmpty DEF NeverStuck
<1>15. Way' = Append(evts' \o (kept \o fifo), c)
  <2>1. ctrl' \o fifo' = kept \o f
    BY <1>5, <1>6, <1>9, <1>10
  <2>2. kept \o f = (kept \o fifo) \o <<c>>
    BY <1>2, <1>3, <1>7, <1>9, Regroup
  <2>3. kept \o fifo \in Seq(Command)
    BY <1>2, <1>9
  <2>4. kept \o fifo \in Seq(Item) /\ <<c>> \in Seq(Item) /\ evts' \in Seq(Item)
    BY <1>3, <1>11, <2>3, AsItems
  <2>5. evts' \o ((kept \o fifo) \o <<c>>) = (evts' \o (kept \o fifo)) \o <<c>>
    BY <2>4, ConcatAssociative
  <2>6. evts' \o (kept \o fifo) \in Seq(Item)
    BY <2>4
  <2> QED
    BY <1>3, <2>1, <2>2, <2>5, <2>6 DEF Way
<1>16. OneRequest(evts' \o (kept \o fifo), encrypt_cb)
  <2> DEFINE gone == SubSeq(evts, 1, k)
  <2>1. /\ evts \in Seq(Item) /\ ctrl \in Seq(Item) /\ fifo \in Seq(Item)
        /\ kept \in Seq(Item) /\ evts' \in Seq(Item) /\ <<>> \in Seq(Item)
    BY <1>2, <1>9, <1>11, AsItems
  <2>2. OneRequest(evts \o (kept \o fifo), encrypt_cb)
    <3>1. CASE kept = ctrl
      BY <1>1, <3>1 DEF Way
    <3>2. CASE kept = <<>>
      <4>1. \A i \in DOMAIN <<>> : <<>>[i].op # "encrypt"
        OBVIOUS
      <4>2. OneRequest(evts \o (<<>> \o fifo), encrypt_cb)
        BY <1>1, <2>1, <4>1, MiddleReplaced DEF Way
      <4> QED
        BY <3>2, <4>2
    <3> QED
      BY <3>1, <3>2
  <2>3. gone \in Seq(Item) /\ gone \o evts' = evts
    <3>1. Len(evts) \in Nat
      BY <1>2, LenProperties
    <3>2. gone \in Seq(Item)
      BY <2>1, <3>1, SubSeqProperties
    <3>3. /\ 1 \in 1 .. Len(evts) + 1
          /\ k \in 1 - 1 .. Len(evts)
          /\ Len(evts) \in k .. Len(evts)
      BY <3>1
    <3>4. gone \o evts' = SubSeq(evts, 1, Len(evts))
      BY <1>4, <2>1, <3>3, ConcatAdjacentSubSeq
    <3> QED
      BY <2>1, <3>2, <3>4, SubSeqFull
  <2> HIDE DEF gone
  <2>4. kept \o fifo \in Seq(Item) /\ evts' \o (kept \o fifo) \in Seq(Item)
    BY <2>1
  <2>5. evts \o (kept \o fifo) = <<>> \o (gone \o (evts' \o (kept \o fifo)))
    <3>1. (gone \o evts') \o (kept \o fifo) = gone \o (evts' \o (kept \o fifo))
      BY <2>1, <2>3, <2>4, RegroupItems
    <3>2. gone \o (evts' \o (kept \o fifo)) \in Seq(Item)
      BY <2>3, <2>4
    <3> QED
      BY <2>3, <3>1, <3>2, ConcatEmptySeq
  <2>6. \A i \in DOMAIN <<>> : <<>>[i].op # "encrypt"
    OBVIOUS
  <2>7. OneRequest(<<>> \o (gone \o (evts' \o (kept \o fifo))), encrypt_cb)
    BY <2>2, <2>5
  <2>8. OneRequest(<<>> \o (<<>> \o (evts' \o (kept \o fifo))), encrypt_cb)
    BY <2>1, <2>3, <2>4, <2>6, <2>7, MiddleReplaced
  <2> QED
    BY <2>4, <2>8, ConcatEmptySeq
<1>17. OneRequest(Way', encrypt_cb')
  <2>1. evts' \in Seq(Item) /\ kept \o fifo \in Seq(Item)
    BY <1>2, <1>9, <1>11, AsItems
  <2>2. evts' \o (kept \o fifo) \in Seq(Item)
    BY <2>1
  <2>3. c.op # "encrypt"
    BY <1>3
  <2>4. OneRequest(Append(evts' \o (kept \o fifo), c), encrypt_cb)
    BY <1>3, <1>16, <2>2, <2>3, OtherAdded
  <2> QED
    BY <1>6, <1>15, <2>4
<1>18. RightAnswer'
  BY <1>1, <1>6 DEF RightAnswer
<1> QED
  BY <1>12, <1>13, <1>14, <1>17, <1>18 DEF IInv, QInv

LEMMA AnswerIInv ==
    ASSUME NEW kind \in {"complete", "status"}, IInv, Answer(kind)
    PROVE  IInv'
<1> DEFINE x == Head(ctrl)
           y == [kind |-> kind, id |-> Head(ctrl).id, op |-> Head(ctrl).op]
           t == Tail(ctrl)
<1>1. TypeOK /\ HandedInOrder /\ NeverStuck /\ OneRequest(Way, encrypt_cb)
      /\ RightAnswer
  BY DEF IInv, QInv
<1>2. /\ evts \in Seq(Event) /\ ctrl \in Seq(Command) /\ fifo \in Seq(Command)
  BY <1>1 DEF TypeOK
<1>3. /\ ctrl # <<>> /\ evts' = Append(evts, y) /\ ctrl' = t
      /\ UNCHANGED <<fifo, pending, encrypt_cb, issued, handed, served, nops,
                     inits, lost>>
  BY DEF Answer, hostVars, histVars
<1>4. /\ x \in Command /\ t \in Seq(Command) /\ <<x>> \in Seq(Command)
      /\ <<x>> \o t = ctrl
  BY <1>2, <1>3, SplitHead
<1>5. y \in Event /\ y.op = x.op /\ y.id = x.id
  <2>1. x.id \in Nat /\ x.op \in Op
    BY <1>4 DEF Command
  <2> QED
    BY <2>1 DEF Event
<1> HIDE DEF x, y, t
<1>6. evts' \in Seq(Event) /\ evts' # <<>> /\ evts' = evts \o <<y>>
      /\ <<y>> \in Seq(Event)
  BY <1>2, <1>3, <1>5, AppendProperties, AppendIsConcat
<1>7. TypeOK'
  BY <1>1, <1>3, <1>4, <1>6 DEF TypeOK
<1>8. HandedInOrder'
  BY <1>1, <1>3 DEF HandedInOrder
<1>9. NeverStuck'
  <2>1. ctrl' \o evts' # <<>>
    BY <1>3, <1>4, <1>6, NotBothEmpty
  <2> QED
    BY <1>1, <1>3, <2>1 DEF NeverStuck
<1>10. OneRequest(Way', encrypt_cb')
  <2>1. t \o fifo \in Seq(Command)
    BY <1>2, <1>4
  <2>2. /\ evts \in Seq(Item) /\ t \o fifo \in Seq(Item) /\ <<y>> \in Seq(Item)
    BY <1>2, <1>6, <2>1, AsItems
  <2>3. x \in Item /\ y \in Item
    BY <1>4, <1>5 DEF Item
  <2>4. ctrl \o fifo = <<x>> \o (t \o fifo)
    <3>1. (<<x>> \o t) \o fifo = <<x>> \o (t \o fifo)
      BY <1>2, <1>4, Regroup
    <3> QED
      BY <1>4, <3>1
  <2>5. OneRequest(evts \o (<<x>> \o (t \o fifo)), encrypt_cb)
    BY <1>1, <2>4 DEF Way
  <2>6. OneRequest(evts \o (<<y>> \o (t \o fifo)), encrypt_cb)
    BY <1>5, <2>2, <2>3, <2>5, MiddleAnswered
  <2>7. Way' = (evts \o <<y>>) \o (t \o fifo)
    BY <1>3, <1>6 DEF Way
  <2>8. Way' = evts \o (<<y>> \o (t \o fifo))
    BY <2>2, <2>7, RegroupItems
  <2> QED
    BY <1>3, <2>6, <2>8
<1>11. RightAnswer'
  BY <1>1, <1>3 DEF RightAnswer
<1> QED
  BY <1>7, <1>8, <1>9, <1>10, <1>11 DEF IInv, QInv

LEMMA SendNopIInv == IInv /\ SendNop => IInv'
<1> SUFFICES ASSUME IInv, SendNop PROVE IInv'
  OBVIOUS
<1>1. TypeOK /\ HandedInOrder /\ NeverStuck /\ OneRequest(Way, encrypt_cb)
      /\ RightAnswer
  BY DEF IInv, QInv
<1>2. /\ evts \in Seq(Event) /\ ctrl \in Seq(Command) /\ fifo \in Seq(Command)
      /\ nops \in Nat
  BY <1>1 DEF TypeOK
<1>3. /\ evts' = Append(evts, Nop) /\ nops' = nops + 1
      /\ UNCHANGED <<fifo, pending, encrypt_cb, ctrl, issued, handed, served,
                     inits, lost>>
  BY DEF SendNop, hostVars
<1>4. Nop \in Event /\ Nop.op # "encrypt"
  BY DEF Nop, Event
<1>5. evts' \in Seq(Event) /\ evts' # <<>> /\ evts' = evts \o <<Nop>>
      /\ <<Nop>> \in Seq(Event)
  BY <1>2, <1>3, <1>4, AppendProperties, AppendIsConcat
<1>6. TypeOK'
  BY <1>1, <1>2, <1>3, <1>5 DEF TypeOK
<1>7. HandedInOrder'
  BY <1>1, <1>3 DEF HandedInOrder
<1>8. NeverStuck'
  <2>1. ctrl' \o evts' # <<>>
    BY <1>2, <1>3, <1>5, NotBothEmpty
  <2> QED
    BY <1>1, <1>3, <2>1 DEF NeverStuck
<1>9. OneRequest(Way', encrypt_cb')
  <2> DEFINE q == ctrl \o fifo
  <2>1. q \in Seq(Command)
    BY <1>2
  <2>2. /\ evts \in Seq(Item) /\ q \in Seq(Item) /\ <<Nop>> \in Seq(Item)
        /\ <<>> \in Seq(Item) /\ <<>> \o q = q
    BY <1>2, <1>5, <2>1, AsItems, EmptySeq, ConcatEmptySeq
  <2>3. OneRequest(evts \o (<<>> \o q), encrypt_cb)
    BY <1>1, <2>2 DEF Way
  <2> HIDE DEF q
  <2>4. \A i \in DOMAIN <<Nop>> : <<Nop>>[i].op # "encrypt"
    BY <1>4
  <2>5. OneRequest(evts \o (<<Nop>> \o q), encrypt_cb)
    BY <2>2, <2>3, <2>4, MiddleReplaced
  <2>6. Way' = (evts \o <<Nop>>) \o q
    BY <1>3, <1>5 DEF Way, q
  <2>7. Way' = evts \o (<<Nop>> \o q)
    BY <2>2, <2>6, RegroupItems
  <2> QED
    BY <1>3, <2>5, <2>7
<1>10. RightAnswer'
  BY <1>1, <1>3 DEF RightAnswer
<1> QED
  BY <1>6, <1>7, <1>8, <1>9, <1>10 DEF IInv, QInv

LEMMA UsbLostIInv == IInv /\ UsbLost => IInv'
<1> SUFFICES ASSUME IInv, UsbLost PROVE IInv'
  OBVIOUS
<1>1. TypeOK /\ HandedInOrder /\ NeverStuck /\ OneRequest(Way, encrypt_cb)
      /\ RightAnswer
  BY DEF IInv, QInv
<1>2. /\ evts \in Seq(Event) /\ ctrl \in Seq(Command) /\ fifo \in Seq(Command)
      /\ lost \in Nat
  BY <1>1 DEF TypeOK
<1>3. /\ ctrl # <<>> /\ ctrl' = Front(ctrl) /\ lost' = lost + 1
      /\ UNCHANGED <<fifo, pending, encrypt_cb, evts, issued, handed, served,
                     nops, inits>>
  BY DEF UsbLost, hostVars
<1>4. /\ ctrl' \in Seq(Command) /\ <<Last(ctrl)>> \in Seq(Command)
      /\ ctrl = ctrl' \o <<Last(ctrl)>>
  BY <1>2, <1>3, SplitLast
<1>5. TypeOK'
  BY <1>1, <1>2, <1>3, <1>4 DEF TypeOK
<1>6. HandedInOrder'
  BY <1>1, <1>3 DEF HandedInOrder
<1>7. NeverStuck'
  BY <1>1, <1>2, <1>3 DEF NeverStuck
<1>8. OneRequest(Way', encrypt_cb')
  <2> DEFINE z == <<Last(ctrl)>>
  <2>1. z \in Seq(Command) /\ ctrl = ctrl' \o z
    BY <1>4
  <2> HIDE DEF z
  <2>2. ctrl \o fifo = ctrl' \o (z \o fifo)
    BY <1>2, <1>4, <2>1, Regroup
  <2>3. /\ evts \in Seq(Item) /\ ctrl' \in Seq(Item) /\ z \in Seq(Item)
        /\ fifo \in Seq(Item) /\ <<>> \in Seq(Item) /\ <<>> \o fifo = fifo
    BY <1>2, <1>4, <2>1, AsItems, EmptySeq, ConcatEmptySeq
  <2>4. /\ evts \o ctrl' \in Seq(Item) /\ z \o fifo \in Seq(Item)
    BY <2>3
  <2>5. (evts \o ctrl') \o (z \o fifo) = evts \o (ctrl' \o (z \o fifo))
    BY <2>3, <2>4, RegroupItems
  <2>6. OneRequest((evts \o ctrl') \o (z \o fifo), encrypt_cb)
    BY <1>1, <2>2, <2>5 DEF Way
  <2>7. \A i \in DOMAIN <<>> : <<>>[i].op # "encrypt"
    OBVIOUS
  <2>8. OneRequest((evts \o ctrl') \o (<<>> \o fifo), encrypt_cb)
    BY <2>3, <2>4, <2>6, <2>7, MiddleReplaced
  <2>9. Way' = evts \o (ctrl' \o fifo)
    BY <1>3 DEF Way
  <2>10. Way' = (evts \o ctrl') \o (<<>> \o fifo)
    <3>1. (evts \o ctrl') \o fifo = evts \o (ctrl' \o fifo)
      BY <2>3, RegroupItems
    <3>2. <<>> \o fifo = fifo
      BY <2>3
    <3> QED
      BY <2>9, <3>1, <3>2
  <2> QED
    BY <1>3, <2>8, <2>10
<1>9. RightAnswer'
  BY <1>1, <1>3 DEF RightAnswer
<1> QED
  BY <1>5, <1>6, <1>7, <1>8, <1>9 DEF IInv, QInv

-----------------------------------------------------------------------------
LEMMA StepIInv == IInv /\ [Next]_vars => IInv'
<1> SUFFICES ASSUME IInv, [Next]_vars PROVE IInv'
  OBVIOUS
<1>1. CASE SendCmd
  BY <1>1, SendCmdIInv
<1>2. CASE Encrypt
  BY <1>2, EncryptIInv
<1>3. ASSUME NEW next \in Follow, CommandComplete(next) PROVE IInv'
  BY <1>3, CommandCompleteIInv
<1>4. CASE CommandStatus
  BY <1>4, CommandStatusIInv
<1>5. CASE Reinit
  BY <1>5, ReinitIInv
<1>6. ASSUME NEW kind \in {"complete", "status"}, Answer(kind) PROVE IInv'
  BY <1>6, AnswerIInv
<1>7. CASE SendNop
  BY <1>7, SendNopIInv
<1>8. CASE UsbLost
  BY <1>8, UsbLostIInv
<1>9. CASE UNCHANGED vars
  <2>1. UNCHANGED <<fifo, pending, encrypt_cb, ctrl, evts, issued, handed,
                    served, nops, inits, lost>>
    BY <1>9 DEF vars, hostVars, ctrlVars, histVars
  <2>2. QInv'
    BY <2>1 DEF IInv, QInv, TypeOK, HandedInOrder, NeverStuck
  <2>3. OneRequest(Way', encrypt_cb')
    BY <2>1 DEF IInv, Way
  <2>4. RightAnswer'
    BY <2>1 DEF IInv, RightAnswer
  <2> QED
    BY <2>2, <2>3, <2>4 DEF IInv
<1> QED
  BY <1>1, <1>2, <1>3, <1>4, <1>5, <1>6, <1>7, <1>8, <1>9
     DEF Next, Host, Controller

(* IInv holds in every reachable state of the command path.                *)
THEOREM InvariantIInv == Spec => []IInv
BY InitIInv, StepIInv, PTL DEF Spec

(* The variables keep their types: in particular hci_buffer always has one *)
(* of its BUF_NUM slots free (eb_hci.c:237-263).                           *)
THEOREM TypeCorrect == Spec => []TypeOK
<1>1. IInv => TypeOK
  BY DEF IInv, QInv
<1> QED
  BY <1>1, InvariantIInv, PTL

(* Every command reaches usb_hci_send once and in the order of issue, over *)
(* restarts of the host too (eb_hci.c:237-281).                            *)
THEOREM OrderKept == Spec => []HandedInOrder
<1>1. IInv => HandedInOrder
  BY DEF IInv, QInv
<1> QED
  BY <1>1, InvariantIInv, PTL

(* A queue that waits is owed an event, unless a command was lost at the   *)
(* USB (eb_hci.c:98-115, 265-281).                                         *)
THEOREM QueueAwake == Spec => []NeverStuck
<1>1. IInv => NeverStuck
  BY DEF IInv, QInv
<1> QED
  BY <1>1, InvariantIInv, PTL

(* The callback of an encryption request is called with the answer to that *)
(* request, over restarts and lost commands too (eb_hci.c:213-235).        *)
THEOREM AnswersMatch == Spec => []RightAnswer
<1>1. IInv => RightAnswer
  BY DEF IInv
<1> QED
  BY <1>1, InvariantIInv, PTL

-----------------------------------------------------------------------------
(* What is on the way against the credits given: hci_cmd_pending stands    *)
(* for one command, each Command Complete that answers nothing and each    *)
(* restart for one more.                                                   *)
Accounted == Len(ctrl) + Len(evts) <= pending + nops + inits

(* A Command Status answers no encryption request.                         *)
StatusOther ==
    \A i \in DOMAIN evts : evts[i].kind = "status" => evts[i].op # "encrypt"

Asking(w) == \E i \in DOMAIN w : w[i].op = "encrypt"

(* A callback that is registered waits for something on the way.           *)
Registered == encrypt_cb # 0 /\ lost = 0 /\ inits = 0 => Asking(Way)

CInv == Accounted /\ StatusOther /\ Registered

LEMMA PendingSendCount ==
    ASSUME TypeOK, NEW new \in Seq(Command), NEW p \in {0, 1}, PendingSend(new, p)
    PROVE  Len(ctrl') - pending' = Len(ctrl) - p
<1> DEFINE f == fifo \o new
<1>1. ctrl \in Seq(Command) /\ f \in Seq(Command) /\ Len(ctrl) \in Nat
  BY LenProperties DEF TypeOK
<1>2. CASE p = 0 /\ f # <<>>
  <2>1. ctrl' = Append(ctrl, Head(f)) /\ pending' = 1
    BY <1>2 DEF PendingSend
  <2>2. Head(f) \in Command
    BY <1>1, <1>2, SplitHead
  <2> QED
    BY <1>1, <1>2, <2>1, <2>2, AppendProperties
<1>3. CASE ~(p = 0 /\ f # <<>>)
  BY <1>1, <1>3 DEF PendingSend
<1> QED
  BY <1>2, <1>3

(* The first event taken, and the rest.                                    *)
LEMMA TailOfEvts ==
    ASSUME TypeOK, evts # <<>>, evts' = Tail(evts)
    PROVE  /\ Len(evts) \in Nat /\ Len(evts') = Len(evts) - 1
           /\ StatusOther => StatusOther'
<1>1. evts \in Seq(Event)
  BY DEF TypeOK
<1>2. /\ Len(evts) \in Nat \ {0} /\ Len(evts') = Len(evts) - 1
      /\ DOMAIN evts = 1 .. Len(evts) /\ DOMAIN evts' = 1 .. Len(evts) - 1
      /\ \A i \in 1 .. Len(evts) - 1 : evts'[i] = evts[i + 1]
  BY <1>1, EmptySeq, HeadTailProperties, LenProperties
<1>3. ASSUME StatusOther, NEW i \in DOMAIN evts', evts'[i].kind = "status"
      PROVE  evts'[i].op # "encrypt"
  <2>1. i + 1 \in DOMAIN evts /\ evts'[i] = evts[i + 1]
    BY <1>2
  <2> QED
    BY <1>3, <2>1 DEF StatusOther
<1> QED
  BY <1>2, <1>3 DEF StatusOther

-----------------------------------------------------------------------------
LEMMA InitCInv == Init => CInv
<1> SUFFICES ASSUME Init PROVE CInv
  OBVIOUS
<1>1. Len(ctrl) = 1 /\ Len(evts) = 0 /\ DOMAIN evts = {}
  BY DEF Init
<1> QED
  BY <1>1 DEF Init, CInv, Accounted, StatusOther, Registered

LEMMA StepAccounted == IInv /\ Accounted /\ [Next]_vars => Accounted'
<1> SUFFICES ASSUME IInv, Accounted, [Next]_vars PROVE Accounted'
  OBVIOUS
<1>1. /\ TypeOK /\ evts \in Seq(Event) /\ ctrl \in Seq(Command)
      /\ Len(evts) \in Nat /\ Len(ctrl) \in Nat
      /\ pending \in {0, 1} /\ nops \in Nat /\ inits \in Nat
  BY LenProperties DEF IInv, QInv, TypeOK
<1>2. Len(ctrl) + Len(evts) <= pending + nops + inits
  BY DEF Accounted
<1>3. TypeOK'
  BY StepIInv DEF IInv, QInv
<1>4. /\ Len(evts') \in Nat /\ Len(ctrl') \in Nat /\ pending' \in {0, 1}
  BY <1>3, LenProperties DEF TypeOK
<1>5. ASSUME NEW new \in Seq(Command), NEW p \in {0, 1}, PendingSend(new, p),
             \/ p = 0 /\ Len(evts') = Len(evts) - 1
             \/ p = pending /\ evts' = evts,
             UNCHANGED <<nops, inits>>
      PROVE  Accounted'
  <2>1. Len(ctrl') - pending' = Len(ctrl) - p
    BY <1>1, <1>5, PendingSendCount
  <2> QED
    BY <1>1, <1>2, <1>4, <1>5, <2>1 DEF Accounted
<1>6. \A op \in Op : <<Cmd(op)>> \in Seq(Command)
  BY <1>1, CmdType
<1>7. CASE SendCmd
  BY <1>1, <1>5, <1>6, <1>7 DEF SendCmd, Op
<1>8. CASE Encrypt
  BY <1>1, <1>5, <1>6, <1>8 DEF Encrypt, Op
<1>9. ASSUME NEW next \in Follow, CommandComplete(next) PROVE Accounted'
  <2> DEFINE new == IF next = "none" THEN <<>> ELSE <<Cmd(next)>>
  <2>1. new \in Seq(Command)
    BY <1>6 DEF Follow, Op
  <2>2. PendingSend(new, 0) /\ UNCHANGED <<nops, inits>>
    BY <1>9 DEF CommandComplete
  <2>3. Len(evts') = Len(evts) - 1
    BY <1>1, <1>9, TailOfEvts DEF CommandComplete
  <2> HIDE DEF new
  <2> QED
    BY <1>5, <2>1, <2>2, <2>3
<1>10. CASE CommandStatus
  <2>1. Len(evts') = Len(evts) - 1
    BY <1>1, <1>10, TailOfEvts DEF CommandStatus
  <2>2. <<>> \in Seq(Command) /\ PendingSend(<<>>, 0) /\ UNCHANGED <<nops, inits>>
    BY <1>10 DEF CommandStatus
  <2> QED
    BY <1>5, <2>1, <2>2
<1>11. CASE Reinit
  <2>1. PICK k \in 0 .. Len(evts) : evts' = SubSeq(evts, k + 1, Len(evts))
    BY <1>11 DEF Reinit
  <2>2. Len(evts') <= Len(evts)
    <3>1. k + 1 \in Int /\ Len(evts) \in Int
      BY <1>1
    <3> QED
      BY <1>1, <2>1, <3>1, SubSeqProperties
  <2>3. Len(ctrl') <= Len(ctrl) + 1
    <3> DEFINE f == Append(fifo, Cmd("reset"))
    <3>1. f \in Seq(Command) /\ f # <<>>
      BY <1>1, CmdType, AppendProperties DEF TypeOK, Op
    <3>2. Head(f) \in Command
      BY <3>1, SplitHead
    <3>3. PICK kept \in {<<>>, ctrl} : ctrl' = Append(kept, Head(f))
      BY <1>11 DEF Reinit
    <3> HIDE DEF f
    <3>4. kept \in Seq(Command) /\ Len(kept) <= Len(ctrl) /\ Len(kept) \in Nat
      <4>1. CASE kept = <<>>
        <5>1. kept \in Seq(Command) /\ Len(kept) = 0
          BY <4>1, EmptySeq
        <5> QED
          BY <1>1, <5>1
      <4>2. CASE kept = ctrl
        BY <1>1, <4>2
      <4> QED
        BY <3>3, <4>1, <4>2
    <3> QED
      BY <1>1, <3>2, <3>3, <3>4, AppendProperties
  <2>4. pending' = 1 /\ inits' = inits + 1 /\ nops' = nops
    BY <1>11 DEF Reinit
  <2> QED
    BY <1>1, <1>2, <1>4, <2>2, <2>3, <2>4 DEF Accounted
<1>12. ASSUME NEW kind \in {"complete", "status"}, Answer(kind) PROVE Accounted'
  <2> DEFINE e == [kind |-> kind, id |-> Head(ctrl).id, op |-> Head(ctrl).op]
  <2>1. /\ ctrl # <<>> /\ ctrl' = Tail(ctrl) /\ evts' = Append(evts, e)
        /\ UNCHANGED <<pending, nops, inits>>
    BY <1>12 DEF Answer, hostVars, histVars
  <2>2. Len(ctrl') = Len(ctrl) - 1
    BY <1>1, <2>1, SplitHead
  <2>3. Len(evts') = Len(evts) + 1
    BY <1>1, <2>1
  <2> QED
    BY <1>1, <1>2, <2>1, <2>2, <2>3 DEF Accounted
<1>13. CASE SendNop
  <2>1. /\ evts' = Append(evts, Nop) /\ nops' = nops + 1
        /\ UNCHANGED <<ctrl, pending, inits>>
    BY <1>13 DEF SendNop, hostVars
  <2>2. Len(evts') = Len(evts) + 1
    BY <1>1, <2>1
  <2> QED
    BY <1>1, <1>2, <2>1, <2>2 DEF Accounted
<1>14. CASE UsbLost
  <2>1. /\ ctrl # <<>> /\ ctrl' = Front(ctrl) /\ UNCHANGED <<evts, pending, nops, inits>>
    BY <1>14 DEF UsbLost, hostVars
  <2>2. Len(ctrl') = Len(ctrl) - 1
    <3>1. /\ Front(ctrl) \in Seq(Command) /\ <<Last(ctrl)>> \in Seq(Command)
          /\ ctrl = Front(ctrl) \o <<Last(ctrl)>>
      BY <1>1, <2>1, SplitLast
    <3>2. Len(ctrl) = Len(Front(ctrl)) + Len(<<Last(ctrl)>>)
      BY <3>1, ConcatProperties
    <3>3. Len(<<Last(ctrl)>>) = 1 /\ Len(Front(ctrl)) \in Nat
      BY <3>1, LenProperties
    <3> QED
      BY <2>1, <3>2, <3>3
  <2> QED
    BY <1>1, <1>2, <2>1, <2>2 DEF Accounted
<1>15. CASE UNCHANGED vars
  BY <1>2, <1>15 DEF Accounted, vars, hostVars, ctrlVars, histVars
<1> QED
  BY <1>7, <1>8, <1>9, <1>10, <1>11, <1>12, <1>13, <1>14, <1>15
     DEF Next, Host, Controller

LEMMA StepStatusOther == IInv /\ StatusOther /\ [Next]_vars => StatusOther'
<1> SUFFICES ASSUME IInv, StatusOther, [Next]_vars PROVE StatusOther'
  OBVIOUS
<1>1. /\ TypeOK /\ evts \in Seq(Event) /\ Len(evts) \in Nat
      /\ DOMAIN evts = 1 .. Len(evts)
  BY LenProperties DEF IInv, QInv, TypeOK
<1>2. CASE evts' = evts
  BY <1>2 DEF StatusOther
<1>3. CASE evts # <<>> /\ evts' = Tail(evts)
  BY <1>1, <1>3, TailOfEvts
<1>4. ASSUME NEW e \in Event, e.kind = "status" => e.op # "encrypt",
             evts' = Append(evts, e)
      PROVE  StatusOther'
  <2>1. /\ DOMAIN evts' = 1 .. Len(evts) + 1
        /\ \A i \in 1 .. Len(evts) + 1 :
              evts'[i] = IF i = Len(evts) + 1 THEN e ELSE evts[i]
    BY <1>1, <1>4, AppendProperties, LenProperties
  <2>2. \A i \in 1 .. Len(evts) + 1 : i = Len(evts) + 1 \/ i \in DOMAIN evts
    BY <1>1
  <2> QED
    BY <1>4, <2>1, <2>2 DEF StatusOther
<1>5. CASE Reinit
  <2>1. PICK k \in 0 .. Len(evts) : evts' = SubSeq(evts, k + 1, Len(evts))
    BY <1>5 DEF Reinit
  <2>2. /\ DOMAIN evts' = 1 .. Len(evts) - k
        /\ \A i \in 1 .. Len(evts) - k : evts'[i] = evts[k + i]
    BY <1>1, <2>1
  <2>3. \A i \in 1 .. Len(evts) - k : k + i \in DOMAIN evts
    BY <1>1
  <2> QED
    BY <2>2, <2>3 DEF StatusOther
<1>6. ASSUME NEW kind \in {"complete", "status"}, Answer(kind) PROVE StatusOther'
  <2> DEFINE e == [kind |-> kind, id |-> Head(ctrl).id, op |-> Head(ctrl).op]
  <2>1. /\ ctrl # <<>> /\ evts' = Append(evts, e)
        /\ kind = "status" => Head(ctrl).op = "other"
    BY <1>6 DEF Answer
  <2>2. Head(ctrl) \in Command
    BY <1>1, <2>1, SplitHead DEF TypeOK
  <2>3. e \in Event /\ (e.kind = "status" => e.op # "encrypt")
    BY <2>1, <2>2 DEF Event, Command
  <2> HIDE DEF e
  <2> QED
    BY <1>4, <2>1, <2>3
<1>7. CASE SendNop
  <2>1. Nop \in Event /\ Nop.kind # "status" /\ evts' = Append(evts, Nop)
    BY <1>7 DEF SendNop, Nop, Event
  <2> QED
    BY <1>4, <2>1
<1>8. CASE SendCmd \/ Encrypt \/ UsbLost
  BY <1>2, <1>8 DEF SendCmd, Encrypt, UsbLost
<1>9. ASSUME NEW next \in Follow, CommandComplete(next) PROVE StatusOther'
  BY <1>3, <1>9 DEF CommandComplete
<1>10. CASE CommandStatus
  BY <1>3, <1>10 DEF CommandStatus
<1>11. CASE UNCHANGED vars
  BY <1>2, <1>11 DEF vars, ctrlVars
<1> QED
  BY <1>5, <1>6, <1>7, <1>8, <1>9, <1>10, <1>11 DEF Next, Host, Controller

-----------------------------------------------------------------------------
(* A request on the way stays there when something is added, and when what *)
(* leaves in front is no request.                                          *)
LEMMA AskingAdded ==
    ASSUME NEW w \in Seq(Item), NEW c \in Item
    PROVE  Asking(Append(w, c)) <=> Asking(w) \/ c.op = "encrypt"
<1>1. /\ DOMAIN w = 1 .. Len(w) /\ Len(w) \in Nat
      /\ DOMAIN Append(w, c) = 1 .. Len(w) + 1
      /\ \A i \in 1 .. Len(w) : Append(w, c)[i] = w[i]
      /\ Append(w, c)[Len(w) + 1] = c
  BY AppendProperties, LenProperties
<1>2. \A i \in 1 .. Len(w) + 1 : i = Len(w) + 1 \/ i \in 1 .. Len(w)
  BY <1>1
<1>3. Len(w) + 1 \in 1 .. Len(w) + 1 /\ \A i \in 1 .. Len(w) : i \in 1 .. Len(w) + 1
  BY <1>1
<1> QED
  BY <1>1, <1>2, <1>3 DEF Asking

LEMMA AskingTail ==
    ASSUME NEW w \in Seq(Item), w # <<>>, Asking(w), w[1].op # "encrypt"
    PROVE  Asking(Tail(w))
<1>1. /\ Len(w) \in Nat \ {0} /\ DOMAIN w = 1 .. Len(w)
      /\ DOMAIN Tail(w) = 1 .. Len(w) - 1
      /\ \A i \in 1 .. Len(w) - 1 : Tail(w)[i] = w[i + 1]
  BY EmptySeq, HeadTailProperties, LenProperties
<1>2. PICK i \in 1 .. Len(w) : w[i].op = "encrypt"
  BY <1>1 DEF Asking
<1>3. i - 1 \in 1 .. Len(w) - 1 /\ (i - 1) + 1 = i
  BY <1>1, <1>2
<1>4. Tail(w)[i - 1].op = "encrypt"
  BY <1>1, <1>2, <1>3
<1> QED
  BY <1>1, <1>3, <1>4 DEF Asking

(* The answer to a command asks for what the command did.                  *)
LEMMA AskingAnswered ==
    ASSUME NEW a \in Seq(Item), NEW x \in Item, NEW y \in Item,
           NEW c \in Seq(Item), x.op = y.op, Asking(a \o (<<x>> \o c))
    PROVE  Asking(a \o (<<y>> \o c))
<1> DEFINE w == a \o (<<x>> \o c)
           v == a \o (<<y>> \o c)
<1>1. /\ Len(a) \in Nat /\ Len(c) \in Nat
      /\ <<x>> \o c \in Seq(Item) /\ <<y>> \o c \in Seq(Item)
  BY LenProperties
<1>2. /\ DOMAIN w = 1 .. Len(a) + 1 + Len(c)
      /\ \A i \in 1 .. Len(a) + 1 + Len(c) :
            w[i] = IF i <= Len(a) THEN a[i]
                   ELSE IF i = Len(a) + 1 THEN x ELSE c[i - Len(a) - 1]
  BY <1>1
<1>3. /\ DOMAIN v = 1 .. Len(a) + 1 + Len(c)
      /\ \A i \in 1 .. Len(a) + 1 + Len(c) :
            v[i] = IF i <= Len(a) THEN a[i]
                   ELSE IF i = Len(a) + 1 THEN y ELSE c[i - Len(a) - 1]
  BY <1>1
<1>4. Asking(w)
  OBVIOUS
<1> HIDE DEF w, v
<1>5. DOMAIN v = DOMAIN w /\ \A i \in DOMAIN v : v[i].op = w[i].op
  BY <1>1, <1>2, <1>3
<1>6. Asking(v)
  BY <1>4, <1>5 DEF Asking
<1> QED
  BY <1>6 DEF v

LEMMA StepRegistered ==
    IInv /\ StatusOther /\ Registered /\ [Next]_vars => Registered'
<1> SUFFICES ASSUME IInv, StatusOther, Registered, [Next]_vars,
                    encrypt_cb' # 0, lost' = 0, inits' = 0
             PROVE  Asking(Way')
  BY DEF Registered
<1>1. /\ TypeOK /\ evts \in Seq(Event) /\ ctrl \in Seq(Command)
      /\ fifo \in Seq(Command) /\ lost \in Nat /\ inits \in Nat
      /\ Way \in Seq(Item)
  BY WayNow DEF IInv, QInv, TypeOK
<1>2. /\ TypeOK' /\ evts' \in Seq(Event)
  BY StepIInv DEF IInv, QInv, TypeOK
<1>3. \A op \in Op : /\ Cmd(op) \in Item /\ Cmd(op).op = op
                     /\ <<Cmd(op)>> \in Seq(Command)
                     /\ \A w \in Seq(Item) : w \o <<Cmd(op)>> = Append(w, Cmd(op))
  BY <1>1, CmdType
<1>4. CASE SendCmd
  <2> DEFINE c == Cmd("other")
  <2>1. /\ PendingSend(<<c>>, pending) /\ pending \in {0, 1}
        /\ UNCHANGED <<encrypt_cb, evts, lost, inits>>
    BY <1>1, <1>4 DEF SendCmd, TypeOK
  <2>2. c \in Item /\ <<c>> \in Seq(Command) /\ Way \o <<c>> = Append(Way, c)
    BY <1>1, <1>3 DEF Op
  <2> HIDE DEF c
  <2>3. Way' = Append(Way, c)
    BY <1>1, <1>2, <2>1, <2>2, HostWay DEF Way
  <2>4. Asking(Way)
    BY <2>1 DEF Registered
  <2> QED
    BY <1>1, <2>2, <2>3, <2>4, AskingAdded
<1>5. CASE Encrypt
  <2> DEFINE c == Cmd("encrypt")
  <2>1. /\ PendingSend(<<c>>, pending) /\ pending \in {0, 1} /\ evts' = evts
    BY <1>1, <1>5 DEF Encrypt, TypeOK
  <2>2. /\ c \in Item /\ <<c>> \in Seq(Command) /\ c.op = "encrypt"
        /\ Way \o <<c>> = Append(Way, c)
    BY <1>1, <1>3 DEF Op
  <2> HIDE DEF c
  <2>3. Way' = Append(Way, c)
    BY <1>1, <1>2, <2>1, <2>2, HostWay DEF Way
  <2> QED
    BY <1>1, <2>2, <2>3, AskingAdded
<1>6. ASSUME NEW next \in Follow, CommandComplete(next) PROVE Asking(Way')
  <2> DEFINE e == Head(evts)
             new == IF next = "none" THEN <<>> ELSE <<Cmd(next)>>
  <2>1. /\ evts # <<>> /\ evts' = Tail(evts) /\ PendingSend(new, 0)
        /\ UNCHANGED <<lost, inits>>
        /\ IF e.op = "encrypt" THEN EncryptedHandler(e, next)
           ELSE next # "encrypt" /\ UNCHANGED encrypt_cb
    BY <1>6 DEF CommandComplete
  <2>2. /\ Way # <<>> /\ Way[1] = e /\ Tail(Way) \in Seq(Item)
        /\ Tail(evts) \o (ctrl \o fifo) = Tail(Way)
    BY <1>1, <2>1, WayNow
  <2>3. next # "none" => next \in Op
    BY DEF Follow, Op
  <2>4. new \in Seq(Command)
    BY <1>3, <2>3
  <2>5. Way' = Tail(Way) \o new
    BY <1>1, <1>2, <2>1, <2>2, <2>4, HostWay
  <2>6. Way' = IF next = "none" THEN Tail(Way) ELSE Append(Tail(Way), Cmd(next))
    BY <1>3, <2>2, <2>3, <2>5, ConcatEmptySeq
  <2>7. CASE e.op = "encrypt"
    <3>1. encrypt_cb # 0
      BY <1>1, <2>2, <2>7, OldestLeaves DEF IInv
    <3>2. next = "encrypt"
      BY <2>1, <2>7, <3>1 DEF EncryptedHandler
    <3> QED
      BY <1>3, <2>2, <2>6, <3>2, AskingAdded DEF Op
  <2>8. CASE e.op # "encrypt"
    <3>1. Asking(Way)
      BY <2>1, <2>8 DEF Registered
    <3>2. Asking(Tail(Way))
      BY <1>1, <2>2, <2>8, <3>1, AskingTail
    <3> QED
      BY <1>3, <2>2, <2>3, <2>6, <3>2, AskingAdded
  <2> QED
    BY <2>7, <2>8
<1>7. CASE CommandStatus
  <2>1. /\ evts # <<>> /\ evts' = Tail(evts) /\ Head(evts).kind = "status"
        /\ PendingSend(<<>>, 0) /\ UNCHANGED <<encrypt_cb, lost, inits>>
    BY <1>7 DEF CommandStatus
  <2>2. /\ Way # <<>> /\ Way[1] = Head(evts) /\ Tail(Way) \in Seq(Item)
        /\ Tail(evts) \o (ctrl \o fifo) = Tail(Way)
    BY <1>1, <2>1, WayNow
  <2>3. Way' = Tail(Way) \o <<>> /\ <<>> \in Seq(Command)
    BY <1>1, <1>2, <2>1, <2>2, EmptySeq, HostWay
  <2>4. Head(evts).op # "encrypt"
    <3>1. Head(evts) = evts[1] /\ 1 \in DOMAIN evts
      BY <1>1, <2>1, EmptySeq, HeadTailProperties, LenProperties
    <3> QED
      BY <2>1, <3>1 DEF StatusOther
  <2>5. Asking(Way)
    BY <2>1 DEF Registered
  <2>6. Asking(Tail(Way))
    BY <1>1, <2>2, <2>4, <2>5, AskingTail
  <2> QED
    BY <2>2, <2>3, <2>6, ConcatEmptySeq
<1>8. CASE Reinit
  BY <1>1, <1>8 DEF Reinit
<1>9. ASSUME NEW kind \in {"complete", "status"}, Answer(kind) PROVE Asking(Way')
  <2> DEFINE x == Head(ctrl)
             y == [kind |-> kind, id |-> Head(ctrl).id, op |-> Head(ctrl).op]
             t == Tail(ctrl)
  <2>1. /\ ctrl # <<>> /\ evts' = Append(evts, y) /\ ctrl' = t
        /\ UNCHANGED <<fifo, encrypt_cb, lost, inits>>
    BY <1>9 DEF Answer, hostVars, histVars
  <2>2. /\ x \in Command /\ t \in Seq(Command) /\ <<x>> \in Seq(Command)
        /\ <<x>> \o t = ctrl
    BY <1>1, <2>1, SplitHead
  <2>3. y \in Event /\ y.op = x.op
    BY <2>2 DEF Event, Command
  <2> HIDE DEF x, y, t
  <2>4. /\ evts' = evts \o <<y>> /\ <<y>> \in Seq(Event)
    BY <1>1, <2>1, <2>3, AppendIsConcat
  <2>5. t \o fifo \in Seq(Command)
    BY <1>1, <2>2
  <2>6. /\ evts \in Seq(Item) /\ t \o fifo \in Seq(Item) /\ <<y>> \in Seq(Item)
        /\ x \in Item /\ y \in Item
    BY <1>1, <2>2, <2>3, <2>4, <2>5, AsItems DEF Item
  <2>7. ctrl \o fifo = <<x>> \o (t \o fifo)
    BY <1>1, <2>2, Regroup
  <2>8. Asking(evts \o (<<x>> \o (t \o fifo)))
    BY <2>1, <2>7 DEF Registered, Way
  <2>9. Asking(evts \o (<<y>> \o (t \o fifo)))
    BY <2>3, <2>6, <2>8, AskingAnswered
  <2>10. Way' = evts \o (<<y>> \o (t \o fifo))
    BY <2>1, <2>4, <2>6, RegroupItems DEF Way
  <2> QED
    BY <2>9, <2>10
<1>10. CASE SendNop
  <2> DEFINE q == ctrl \o fifo
  <2>1. /\ evts' = Append(evts, Nop) /\ UNCHANGED <<fifo, ctrl, encrypt_cb, lost, inits>>
    BY <1>10 DEF SendNop, hostVars
  <2>2. Asking(evts \o q)
    BY <2>1 DEF Registered, Way
  <2>3. q \in Seq(Command)
    BY <1>1
  <2>4. evts \in Seq(Item) /\ q \in Seq(Item)
    BY <1>1, <2>3, AsItems
  <2>5. Way' = Append(evts, Nop) \o q
    BY <2>1 DEF Way
  <2> HIDE DEF q
  <2>6. /\ Len(evts) \in Nat /\ Len(q) \in Nat
        /\ DOMAIN (evts \o q) = 1 .. Len(evts) + Len(q)
        /\ \A i \in 1 .. Len(evts) + Len(q) :
              (evts \o q)[i] = IF i <= Len(evts) THEN evts[i] ELSE q[i - Len(evts)]
    BY <2>4
  <2>7. Nop \in Item
    BY DEF Nop, Event, Item
  <2>8. /\ Append(evts, Nop) \in Seq(Item) /\ Len(Append(evts, Nop)) = Len(evts) + 1
        /\ \A i \in 1 .. Len(evts) : Append(evts, Nop)[i] = evts[i]
    BY <2>4, <2>7, AppendProperties
  <2>9. /\ DOMAIN Way' = 1 .. Len(evts) + 1 + Len(q)
        /\ \A i \in 1 .. Len(evts) + 1 + Len(q) :
              Way'[i] = IF i <= Len(evts) + 1 THEN Append(evts, Nop)[i]
                        ELSE q[i - (Len(evts) + 1)]
    BY <2>4, <2>5, <2>6, <2>8
  <2>10. PICK i \in 1 .. Len(evts) + Len(q) : (evts \o q)[i].op = "encrypt"
    BY <2>2, <2>6 DEF Asking
  <2>11. CASE i <= Len(evts)
    <3>1. i \in 1 .. Len(evts) + 1 + Len(q) /\ Way'[i] = (evts \o q)[i]
      BY <2>6, <2>8, <2>9, <2>11
    <3> QED
      BY <2>9, <2>10, <3>1 DEF Asking
  <2>12. CASE i > Len(evts)
    <3>1. /\ i + 1 \in 1 .. Len(evts) + 1 + Len(q)
          /\ (i + 1) - (Len(evts) + 1) = i - Len(evts)
      BY <2>6, <2>12
    <3>2. Way'[i + 1] = (evts \o q)[i]
      BY <2>6, <2>9, <2>12, <3>1
    <3> QED
      BY <2>9, <2>10, <3>1, <3>2 DEF Asking
  <2> QED
    BY <2>6, <2>11, <2>12
<1>11. CASE UsbLost
  BY <1>1, <1>11 DEF UsbLost
<1>12. CASE UNCHANGED vars
  <2>1. UNCHANGED <<fifo, ctrl, evts, encrypt_cb, lost, inits>>
    BY <1>12 DEF vars, hostVars, ctrlVars, histVars
  <2> QED
    BY <2>1 DEF Registered, Way
<1> QED
  BY <1>4, <1>5, <1>6, <1>7, <1>8, <1>9, <1>10, <1>11, <1>12
     DEF Next, Host, Controller

THEOREM InvariantCInv == Spec => []CInv
<1>1. IInv /\ CInv /\ [Next]_vars => CInv'
  BY StepAccounted, StepStatusOther, StepRegistered DEF CInv
<1> QED
  BY <1>1, InitCInv, InvariantIInv, PTL DEF Spec

(* The controller has at most one command unanswered, and one more for     *)
(* each Command Complete that answered nothing and each restart of the     *)
(* host, however many commands wait (eb_hci.c:98-115, 265-275).            *)
THEOREM OneAtATime == Spec => []OneOutstanding
<1>1. IInv /\ CInv => OneOutstanding
  <2> SUFFICES ASSUME IInv, CInv PROVE OneOutstanding
    OBVIOUS
  <2>1. /\ Len(evts) \in Nat /\ Len(ctrl) \in Nat /\ DOMAIN evts = 1 .. Len(evts)
        /\ pending \in {0, 1} /\ nops \in Nat /\ inits \in Nat
    BY LenProperties DEF IInv, QInv, TypeOK
  <2>2. Len(ctrl) + Len(evts) <= pending + nops + inits
    BY DEF CInv, Accounted
  <2> DEFINE answers == {i \in DOMAIN evts : evts[i].kind # "nop"}
  <2>3. answers \subseteq 1 .. Len(evts)
    BY <2>1
  <2>4. IsFiniteSet(1 .. Len(evts)) /\ Cardinality(1 .. Len(evts)) = Len(evts)
    <3>1. 1 \in Int /\ Len(evts) \in Int
      BY <2>1
    <3>2. /\ IsFiniteSet(1 .. Len(evts))
          /\ Cardinality(1 .. Len(evts)) = IF 1 > Len(evts) THEN 0 ELSE Len(evts) - 1 + 1
      BY <3>1, FS_Interval
    <3> QED
      BY <2>1, <3>2
  <2> HIDE DEF answers
  <2>5. Cardinality(answers) <= Len(evts) /\ Cardinality(answers) \in Nat
    BY <2>3, <2>4, FS_Subset, FS_CardinalityType
  <2> QED
    BY <2>1, <2>2, <2>5 DEF OneOutstanding, Unanswered, answers
<1> QED
  BY <1>1, InvariantIInv, InvariantCInv, PTL

(* A registered callback never blocks the encryption for good: the request *)
(* it waits for is queued, with the controller, or answered, unless the    *)
(* host restarted or a command was lost (eb_hci.c:213-235).                *)
THEOREM CallbackWaits == Spec => []CallbackHasRequest
<1>1. IInv /\ CInv => CallbackHasRequest
  <2> SUFFICES ASSUME IInv, CInv, encrypt_cb # 0, ~(lost + inits > 0)
               PROVE  \/ \E i \in DOMAIN fifo : fifo[i] = [id |-> encrypt_cb, op |-> "encrypt"]
                      \/ \E i \in DOMAIN ctrl : ctrl[i] = [id |-> encrypt_cb, op |-> "encrypt"]
                      \/ \E i \in DOMAIN evts : /\ evts[i].id = encrypt_cb
                                                /\ evts[i].op = "encrypt"
    BY DEF CallbackHasRequest
  <2>1. /\ evts \in Seq(Event) /\ ctrl \in Seq(Command) /\ fifo \in Seq(Command)
        /\ lost \in Nat /\ inits \in Nat
    BY DEF IInv, QInv, TypeOK
  <2>2. PICK i \in DOMAIN Way : Way[i].op = "encrypt"
    BY <2>1 DEF CInv, Registered, Asking
  <2>3. Way[i].id = encrypt_cb
    BY <2>2 DEF IInv, OneRequest
  <2>4. /\ Len(evts) \in Nat /\ Len(ctrl) \in Nat /\ Len(fifo) \in Nat
        /\ DOMAIN evts = 1 .. Len(evts) /\ DOMAIN ctrl = 1 .. Len(ctrl)
        /\ DOMAIN fifo = 1 .. Len(fifo)
    BY <2>1, LenProperties
  <2>5. /\ DOMAIN Way = 1 .. Len(evts) + Len(ctrl) + Len(fifo)
        /\ \A j \in 1 .. Len(evts) + Len(ctrl) + Len(fifo) :
              Way[j] = IF j <= Len(evts) THEN evts[j]
                       ELSE IF j <= Len(evts) + Len(ctrl) THEN ctrl[j - Len(evts)]
                       ELSE fifo[j - Len(evts) - Len(ctrl)]
    BY <2>1, <2>4 DEF Way
  <2>6. \A c \in Command : c.op = "encrypt" /\ c.id = encrypt_cb =>
            c = [id |-> encrypt_cb, op |-> "encrypt"]
    BY DEF Command
  <2>7. CASE i <= Len(evts)
    BY <2>2, <2>3, <2>4, <2>5, <2>7
  <2>8. CASE i > Len(evts) /\ i <= Len(evts) + Len(ctrl)
    <3>1. i - Len(evts) \in DOMAIN ctrl /\ Way[i] = ctrl[i - Len(evts)]
      BY <2>2, <2>4, <2>5, <2>8
    <3>2. ctrl[i - Len(evts)] \in Command
      BY <2>1, <2>4, <3>1, ElementOfSeq
    <3> QED
      BY <2>2, <2>3, <2>6, <3>1, <3>2
  <2>9. CASE i > Len(evts) + Len(ctrl)
    <3> DEFINE k == i - Len(evts) - Len(ctrl)
    <3>1. k \in DOMAIN fifo /\ Way[i] = fifo[k]
      BY <2>2, <2>4, <2>5, <2>9
    <3>2. fifo[k] \in Command
      BY <2>1, <2>4, <3>1, ElementOfSeq
    <3> QED
      BY <2>2, <2>3, <2>6, <3>1, <3>2
  <2> QED
    BY <2>2, <2>4, <2>5, <2>7, <2>8, <2>9
<1> QED
  BY <1>1, InvariantIInv, InvariantCInv, PTL

=============================================================================
