------------------------ MODULE ProtectiveStopProofs ------------------------
(***************************************************************************)
(* Proofs about ProtectiveStop: for every number of reconciling workers,   *)
(* every quantity and every number of generations, at most one stop is     *)
(* live and the owner row names it, ACTIVE means installed, and no cancel  *)
(* is sent twice.                                                          *)
(***************************************************************************)
EXTENDS ProtectiveStop, TLAPS

(* A stop the exchange has answered for, and one that can no longer act.   *)
Answered(g) == remote[g].st \in {"NEW", "ENDED", "FIRED"}
Over(g) == remote[g].st \in {"ENDED", "FIRED"}

(* An owner row names its latest generation or no stop at all, and knows   *)
(* the exchange's id only of that stop.                                    *)
WellFormed(o) ==
    /\ o.client \in {None, o.gen}
    /\ o.exch \in {None, o.client}
    /\ o.st \in {"RESERVED", "RELEASED"} => o.client = None
    /\ o.st \in {"PENDING_CONFIRMATION", "ACTIVE", "CANCEL_PENDING", "TERMINAL_CONFIRMED"} =>
          o.client # None
    /\ o.st \in {"ACTIVE", "CANCEL_PENDING", "TERMINAL_CONFIRMED"} => o.exch # None

(* What an owner row says of the exchange. *)
OwnerInv ==
    /\ WellFormed(owner)
    /\ \A g \in Gens : Live(g) => owner.client = g
    /\ \A g \in Gens : g > owner.gen => remote[g].st = "NONE" /\ cancels[g] = 0
    /\ owner.exch # None => Answered(owner.exch)
    /\ owner.client # None /\ remote[owner.client].st # "NONE" => remote[owner.client].qty = owner.qty
    /\ owner.st = "TERMINAL_CONFIRMED" => Over(owner.client)
    /\ owner.st \in {"PENDING_CONFIRMATION", "ACTIVE"} => cancels[owner.client] = 0
    /\ \A g \in Gens : cancels[g] <= 1

(* Steps that work on a stop whose id on the exchange was read. *)
Exact == {"exact", "finish", "clear", "replace", "keep", "begin cancel", "cancel", "check cancel",
          "end cancel", "vacate"}

(* What a call knows: its copy of the owner may be old, but an id it read  *)
(* stays answered for, a stop it saw over stays over, the generation it is *)
(* about to post is the owner's and was never sent, and a stop it is about *)
(* to cancel was never cancelled and will not be by anyone else.           *)
CopyInv(o) ==
    /\ WellFormed(o)
    /\ o.gen <= owner.gen
    /\ o.exch # None => Answered(o.exch) /\ remote[o.exch].qty = o.qty

StepInv(c) ==
    /\ c.pc \in Exact => c.mine.exch # None
    /\ c.said # "NONE" => c.pc \in {"list", "finish", "end cancel"}
    /\ c.pc = "list" /\ c.said = "NEW" => c.mine.exch # None
    /\ c.pc \in {"finish", "end cancel"} => Over(c.mine.exch)
    /\ c.pc = "keep" => c.target = c.mine.qty
    /\ c.pc = "mint" => c.mine.client = None /\ c.mine.gen < MaxGen
    /\ c.pc = "post" =>
          /\ c.mine = owner /\ owner.st = "PENDING_CONFIRMATION" /\ owner.exch = None
          /\ c.target = owner.qty
          /\ remote[owner.client].st = "NONE"
    /\ c.pc \in {"pending", "verify", "resize", "record"} =>
          /\ c.mine.client # None /\ Answered(c.mine.client)
          /\ c.target = remote[c.mine.client].qty
    /\ c.pc = "cancel" =>
          /\ cancels[c.mine.exch] = 0
          /\ owner.client = c.mine.exch => owner.st \notin {"PENDING_CONFIRMATION", "ACTIVE"}

CallInv(c) == CopyInv(c.mine) /\ StepInv(c)

(* No two calls are about to post, or to cancel, the same stop. *)
Exclusive ==
    \A v, w \in Workers : v # w =>
        /\ ~(call[v].pc = "post" /\ call[w].pc = "post")
        /\ ~(call[v].pc = "cancel" /\ call[w].pc = "cancel" /\ call[v].mine.exch = call[w].mine.exch)

CallsInv == \A w \in Workers : CallInv(call[w])

(* An order that may still fill is not filled, and the position is never   *)
(* larger than what was filled.                                            *)
EntryInv == (~entry.done => entry.filled < Qty) /\ open <= entry.filled

Inv == EntryInv /\ OwnerInv /\ CallsInv /\ Exclusive

IInv == TypeOK /\ Inv

-----------------------------------------------------------------------------

(* A generation other than None is the name of a stop. *)
LEMMA GensRange == \A n \in 0..MaxGen : n # None => n \in Gens
  BY MaxGenAssumption DEF Gens, None

(* Steps at which a call is asked nothing but that its copy is sound. *)
Plain == {"down", "idle", "upsert", "decide", "owner", "position", "reread", "renew", "release",
          "size", "next"}

(* Such a call knows enough. *)
LEMMA PlainStep ==
    ASSUME NEW c, c.pc \in Plain, c.said = "NONE"
    PROVE  StepInv(c)
<1>1. c.pc \notin Exact \cup {"list", "mint", "post", "pending", "verify", "resize", "record"}
  BY DEF Exact, Plain
<1> QED
  BY <1>1 DEF StepInv, Exact

(* The copy of a fresh owner is sound. *)
LEMMA ReservedCopy ==
    ASSUME owner.gen \in Nat
    PROVE  CopyInv(Reserved)
  BY DEF CopyInv, WellFormed, Reserved, None

(* A call that is idle, or down, knows nothing. *)
LEMMA IdleCall ==
    ASSUME owner.gen \in Nat, NEW s \in {"idle", "down"}
    PROVE  [Idle EXCEPT !.pc = s] \in Calls /\ CallInv([Idle EXCEPT !.pc = s])
<1> DEFINE i == [Idle EXCEPT !.pc = s]
<1>1. Idle \in Calls
  BY QtyAssumption, MaxGenAssumption
     DEF Idle, Calls, Steps, NewEntry, Entries, Reserved, Owners, OwnerStatuses, None, Rows
<1>2. i \in Calls /\ i.pc = s /\ i.mine = Reserved /\ i.said = "NONE"
  BY <1>1 DEF Idle, Calls, Steps
<1>3. CopyInv(i.mine)
  BY <1>2, ReservedCopy
<1>4. StepInv(i)
  <2> HIDE DEF i
  <2> QED
    BY <1>2, PlainStep DEF Plain
<1> QED
  BY <1>2, <1>3, <1>4 DEF CallInv

(* The invariant holds when the entry has just been accepted. *)
LEMMA InitInv == Init => IInv
<1> SUFFICES ASSUME Init PROVE IInv
  OBVIOUS
<1> USE QtyAssumption, MaxGenAssumption DEF Init, Gens, None, NewEntry, Reserved, Idle
<1>1. TypeOK
  <2>1. owner \in Owners
    BY DEF Owners, OwnerStatuses
  <2>2. row \in Entries /\ entry \in Entries
    BY DEF Entries
  <2>3. remote \in [Gens -> [st : StopStatuses, qty : 0..Qty]]
    BY DEF StopStatuses
  <2>4. Idle \in Calls
    BY <2>1, <2>2 DEF Calls, Steps, Rows
  <2>5. call \in [Workers -> Calls]
    BY <2>4
  <2>6. killed \in BOOLEAN
    OBVIOUS
  <2>7. local \in [Gens -> Rows] /\ open \in 0..Qty /\ cancels \in [Gens -> Nat]
    BY DEF Rows
  <2> QED
    BY <2>1, <2>2, <2>3, <2>5, <2>6, <2>7 DEF TypeOK
<1>2. EntryInv
  BY DEF EntryInv
<1>3. OwnerInv
  BY DEF OwnerInv, WellFormed, Live, Answered, Over
<1>4. CallsInv
  <2>1. Idle = [Idle EXCEPT !.pc = "idle"] /\ owner.gen \in Nat
    OBVIOUS
  <2> QED
    BY <2>1, IdleCall DEF CallsInv
<1>5. Exclusive
  BY DEF Exclusive
<1> QED
  BY <1>1, <1>2, <1>3, <1>4, <1>5 DEF IInv, Inv

(* What a call keeps when it goes on. *)
LEMMA KeptCall ==
    ASSUME NEW c \in Calls, NEW s \in Steps
    PROVE  /\ Kept(c, s) \in Calls
           /\ Kept(c, s).pc = s
           /\ Kept(c, s).mine = IF s \in {"release", "size", "next"} THEN Reserved ELSE c.mine
           /\ Kept(c, s).target = IF s = "release" THEN 0 ELSE c.target
           /\ Kept(c, s).said = IF s \in {"list", "finish", "end cancel"} THEN c.said ELSE "NONE"
<1> USE QtyAssumption, MaxGenAssumption DEF Kept, Calls
<1>1. NewEntry \in Entries /\ Reserved \in Owners /\ "NONE" \in Rows /\ 0 \in 0..Qty
  BY DEF NewEntry, Entries, Reserved, Owners, OwnerStatuses, None, Rows
<1> QED
  BY <1>1

(* The owner row, just read, is a sound copy. *)
LEMMA OwnerCopy ==
    ASSUME IInv
    PROVE  CopyInv(owner)
<1> USE DEF IInv, Inv, OwnerInv, WellFormed, None
<1>1. owner \in Owners /\ owner.gen \in Nat /\ owner.client \in 0..MaxGen
  BY DEF TypeOK, Owners
<1>2. owner.exch # None => owner.client = owner.exch /\ remote[owner.client].st # "NONE"
  BY <1>1 DEF Answered
<1> QED
  BY <1>1, <1>2 DEF CopyInv

(* A call that is about to post owns the row, and its stop was never sent. *)
LEMMA PostOwns ==
    ASSUME IInv, NEW v \in Workers, call[v].pc = "post"
    PROVE  /\ owner.st = "PENDING_CONFIRMATION" /\ owner.exch = None
           /\ owner.client \in Gens /\ remote[owner.client].st = "NONE"
<1>1. StepInv(call[v])
  BY DEF IInv, Inv, CallsInv, CallInv
<1>2. owner.client # None /\ owner.client \in 0..MaxGen
  BY <1>1 DEF StepInv, IInv, Inv, OwnerInv, WellFormed, TypeOK, Owners
<1> QED
  BY <1>1, <1>2, MaxGenAssumption DEF StepInv, Gens, None

(* What the calls in V know survives a step of somebody else that forgets  *)
(* no answer and brings no stop back to life.                              *)
LEMMA Others ==
    ASSUME IInv, NEW V \in SUBSET Workers,
           \A v \in V : call'[v] = call[v],
           owner' \in Owners, owner.gen <= owner'.gen,
           \A g \in Gens : Answered(g) => Answered(g)' /\ remote'[g].qty = remote[g].qty,
           \A g \in Gens : Over(g) => Over(g)',
           \A v \in V : call[v].pc = "post" => owner' = owner /\ remote'[owner.client].st = "NONE",
           \A v \in V : call[v].pc = "cancel" => cancels'[call[v].mine.exch] = cancels[call[v].mine.exch],
           owner'.st \in {"PENDING_CONFIRMATION", "ACTIVE"} =>
               \/ owner'.client = owner.client /\ owner.st \in {"PENDING_CONFIRMATION", "ACTIVE"}
               \/ owner'.client > owner.gen
    PROVE  \A v \in V : CallInv(call[v])'
<1> SUFFICES ASSUME NEW v \in V PROVE CallInv(call[v])'
  OBVIOUS
<1> USE MaxGenAssumption DEF None
<1> DEFINE c == call[v]
<1>0. c' = c
  OBVIOUS
<1>1. CallInv(c) /\ c \in Calls /\ owner \in Owners
  BY DEF IInv, Inv, CallsInv, TypeOK
<1>2. CopyInv(c.mine) /\ StepInv(c)
  BY <1>1 DEF CallInv
<1>3. /\ c.mine.client \in 0..MaxGen /\ c.mine.exch \in 0..MaxGen /\ c.mine.gen \in 0..MaxGen
      /\ owner.gen \in 0..MaxGen /\ owner'.gen \in 0..MaxGen
      /\ owner'.client \in 0..MaxGen
  BY <1>1 DEF Calls, Owners
<1> HIDE DEF c
<1>4. CopyInv(c.mine)'
  BY <1>0, <1>2, <1>3 DEF CopyInv, WellFormed, Gens
<1>5. c.mine.exch # None => c.mine.exch = c.mine.client /\ c.mine.client = c.mine.gen
  BY <1>2, <1>3 DEF CopyInv, WellFormed
<1>6. c.pc = "cancel" =>
          /\ cancels'[c.mine.exch] = 0
          /\ owner'.client = c.mine.exch => owner'.st \notin {"PENDING_CONFIRMATION", "ACTIVE"}
  BY <1>2, <1>3, <1>5 DEF CopyInv, StepInv, Exact, c
<1>7. c.pc = "post" =>
          /\ c.mine = owner' /\ owner'.st = "PENDING_CONFIRMATION" /\ owner'.exch = None
          /\ c.target = owner'.qty
          /\ remote'[owner'.client].st = "NONE"
  BY <1>2 DEF StepInv, c
<1>8. c.pc \in {"finish", "end cancel"} => Over(c.mine.exch)'
  <2> SUFFICES ASSUME c.pc \in {"finish", "end cancel"} PROVE Over(c.mine.exch)'
    BY <1>0
  <2>0. c.mine.exch # 0
    BY <1>2 DEF StepInv, Exact
  <2>1. c.mine.exch \in Gens
    BY <1>3, <2>0, GensRange
  <2>2. Over(c.mine.exch)
    BY <1>2 DEF StepInv
  <2> QED
    BY <1>0, <2>1, <2>2 DEF Over
<1>9. c.pc \in {"pending", "verify", "resize", "record"} =>
          Answered(c.mine.client)' /\ c.target = remote'[c.mine.client].qty
  <2> SUFFICES ASSUME c.pc \in {"pending", "verify", "resize", "record"}
               PROVE  Answered(c.mine.client)' /\ c.target = remote'[c.mine.client].qty
    BY <1>0
  <2>0. c.mine.client # 0
    BY <1>2 DEF StepInv
  <2>1. c.mine.client \in Gens
    BY <1>3, <2>0, GensRange
  <2>2. Answered(c.mine.client) /\ c.target = remote[c.mine.client].qty
    BY <1>2 DEF StepInv
  <2> QED
    BY <1>0, <2>1, <2>2 DEF Answered
<1>10. StepInv(c)'
  BY <1>0, <1>2, <1>6, <1>7, <1>8, <1>9 DEF StepInv
<1> QED
  BY <1>4, <1>10 DEF CallInv, c

(* A step of worker w, put together. *)
LEMMA Combine ==
    ASSUME IInv, NEW w \in Workers, NEW c \in Calls, call' = [call EXCEPT ![w] = c],
           owner' \in Owners, row' \in Entries, local' \in [Gens -> Rows], killed' \in BOOLEAN,
           remote' \in [Gens -> [st : StopStatuses, qty : 0..Qty]], cancels' \in [Gens -> Nat],
           UNCHANGED <<entry, open>>,
           OwnerInv', CallInv(call[w])',
           \A v \in Workers \ {w} : CallInv(call[v])',
           \A v \in Workers \ {w} : ~(call[v].pc = "post" /\ c.pc = "post"),
           \A v \in Workers \ {w} :
               ~(call[v].pc = "cancel" /\ c.pc = "cancel" /\ call[v].mine.exch = c.mine.exch)
    PROVE  IInv'
<1> USE DEF IInv, Inv
<1>1. call \in [Workers -> Calls] /\ call' \in [Workers -> Calls]
  BY DEF TypeOK
<1>2. TypeOK'
  BY <1>1 DEF TypeOK
<1>3. EntryInv'
  BY DEF EntryInv
<1>4. CallsInv'
  BY DEF CallsInv
<1>5. call'[w] = c /\ \A v \in Workers \ {w} : call'[v] = call[v]
  BY <1>1
<1>6. Exclusive'
  <2> SUFFICES ASSUME NEW u \in Workers, NEW v \in Workers, u # v
               PROVE  /\ ~(call'[u].pc = "post" /\ call'[v].pc = "post")
                      /\ ~(/\ call'[u].pc = "cancel" /\ call'[v].pc = "cancel"
                           /\ call'[u].mine.exch = call'[v].mine.exch)
    BY DEF Exclusive
  <2>1. CASE u = w
    BY <1>5, <2>1
  <2>2. CASE v = w
    BY <1>5, <2>2
  <2>3. CASE u # w /\ v # w
    BY <1>5, <2>3 DEF Exclusive
  <2> QED
    BY <2>1, <2>2, <2>3
<1> QED
  BY <1>2, <1>3, <1>4, <1>6

(* A step of worker w that changes no owner and no stop. *)
LEMMA Quiet ==
    ASSUME IInv, NEW w \in Workers, NEW c \in Calls, call' = [call EXCEPT ![w] = c],
           UNCHANGED <<owner, local, exchangeVars>>, row' \in Entries, killed' \in BOOLEAN,
           CopyInv(c.mine), StepInv(c), c.pc \notin {"post", "cancel"}
    PROVE  IInv'
<1>1. TypeOK /\ OwnerInv
  BY DEF IInv, Inv
<1>2. call' = [call EXCEPT ![w] = c] /\ call'[w] = c /\ \A v \in Workers \ {w} : call'[v] = call[v]
  BY <1>1 DEF TypeOK
<1>3. UNCHANGED <<owner, local, entry, open, remote, cancels>>
  BY DEF exchangeVars
<1>4. OwnerInv'
  BY <1>1, <1>3 DEF OwnerInv, WellFormed, Live, Answered, Over
<1>5. CallInv(call[w])'
  <2>1. CopyInv(call[w].mine)'
    BY <1>2, <1>3 DEF CopyInv, WellFormed, Answered
  <2>2. StepInv(call[w])'
    BY <1>2, <1>3 DEF StepInv, Answered, Over
  <2> QED
    BY <2>1, <2>2 DEF CallInv
<1>6. \A v \in Workers \ {w} : CallInv(call[v])'
  <2>1. \A g \in Gens : Answered(g) => Answered(g)' /\ remote'[g].qty = remote[g].qty
    BY <1>3 DEF Answered
  <2>2. \A g \in Gens : Over(g) => Over(g)'
    BY <1>3 DEF Over
  <2>3. owner \in Owners /\ owner.gen \in Nat
    BY <1>1 DEF TypeOK, Owners
  <2> DEFINE V == Workers \ {w}
  <2>4. V \in SUBSET Workers /\ \A v \in V : call'[v] = call[v]
    BY <1>2
  <2>5. \A v \in V : call[v].pc = "post" => owner' = owner /\ remote'[owner.client].st = "NONE"
    BY <1>3, PostOwns
  <2>6. \A v \in V : call[v].pc = "cancel" => cancels'[call[v].mine.exch] = cancels[call[v].mine.exch]
    BY <1>3
  <2>7. owner' \in Owners /\ owner.gen <= owner'.gen
    BY <1>3, <2>3
  <2>8. owner'.st \in {"PENDING_CONFIRMATION", "ACTIVE"} =>
            \/ owner'.client = owner.client /\ owner.st \in {"PENDING_CONFIRMATION", "ACTIVE"}
            \/ owner'.client > owner.gen
    BY <1>3
  <2> HIDE DEF V
  <2>9. \A v \in V : CallInv(call[v])'
    BY <2>1, <2>2, <2>4, <2>5, <2>6, <2>7, <2>8, Others
  <2> QED
    BY <2>9 DEF V
<1> QED
  BY <1>1, <1>2, <1>3, <1>4, <1>5, <1>6, Combine DEF TypeOK

(* What is known of a call between two steps. *)
LEMMA CallFacts ==
    ASSUME IInv, NEW w \in Workers
    PROVE  /\ call[w] \in Calls /\ CopyInv(call[w].mine) /\ StepInv(call[w])
           /\ owner \in Owners /\ CopyInv(owner) /\ CopyInv(Reserved)
           /\ call[w].mine \in Owners /\ call[w].target \in 0..Qty /\ open \in 0..Qty
           /\ row \in Entries /\ entry \in Entries /\ killed \in BOOLEAN
<1>1. TypeOK /\ CallInv(call[w])
  BY DEF IInv, Inv, CallsInv
<1>2. call[w] \in Calls /\ owner \in Owners /\ open \in 0..Qty
  BY <1>1 DEF TypeOK
<1>3. call[w].mine \in Owners /\ call[w].target \in 0..Qty
  BY <1>2 DEF Calls
<1>4. owner.gen \in Nat
  BY <1>2 DEF Owners
<1>5. row \in Entries /\ entry \in Entries /\ killed \in BOOLEAN
  BY <1>1 DEF TypeOK
<1> QED
  BY <1>1, <1>2, <1>3, <1>4, <1>5, OwnerCopy, ReservedCopy DEF CallInv

(* A quiet step that ends the call. *)
LEMMA QuietReturn ==
    ASSUME IInv, NEW w \in Workers, Return(w),
           UNCHANGED <<owner, local, exchangeVars>>, row' \in Entries, killed' \in BOOLEAN
    PROVE  IInv'
<1>1. owner.gen \in Nat /\ Idle = [Idle EXCEPT !.pc = "idle"]
  BY CallFacts DEF Owners, Idle
<1>2. Idle \in Calls /\ CopyInv(Idle.mine) /\ StepInv(Idle) /\ Idle.pc = "idle"
  BY <1>1, IdleCall DEF CallInv, Idle
<1> QED
  BY <1>2, Quiet DEF Return

(* A quiet step after which the call goes on. *)
LEMMA QuietGoto ==
    ASSUME IInv, NEW w \in Workers, NEW x \in Calls, NEW s \in Steps \ {"post", "cancel"},
           call' = [call EXCEPT ![w] = Kept(x, s)],
           UNCHANGED <<owner, local, exchangeVars>>, row' \in Entries, killed' \in BOOLEAN,
           CopyInv(x.mine), s \in Plain \/ StepInv(Kept(x, s))
    PROVE  IInv'
<1> DEFINE c == Kept(x, s)
<1>1. /\ c \in Calls /\ c.pc = s
      /\ c.mine = IF s \in {"release", "size", "next"} THEN Reserved ELSE x.mine
      /\ c.said = IF s \in {"list", "finish", "end cancel"} THEN x.said ELSE "NONE"
  BY ZenonT(60), KeptCall
<1>2. CopyInv(c.mine)
  BY <1>1, CallFacts
<1>3. StepInv(c)
  <2> HIDE DEF c
  <2>1. CASE s \in Plain
    <3>1. c.said = "NONE"
      BY <1>1, <2>1 DEF Plain
    <3> QED
      BY <1>1, <2>1, <3>1, PlainStep
  <2> QED
    BY <2>1 DEF c
<1> HIDE DEF c
<1>4. call' = [call EXCEPT ![w] = c]
  BY DEF c
<1> QED
  BY <1>1, <1>2, <1>3, <1>4, Quiet

(* What has to be known before a call goes on to a step that is not plain. *)
LEMMA KeptSaid ==
    ASSUME NEW x \in Calls, NEW s \in Steps, s \notin {"list", "finish", "end cancel", "release", "size", "next"}
    PROVE  /\ Kept(x, s).pc = s /\ Kept(x, s).mine = x.mine
           /\ Kept(x, s).target = x.target /\ Kept(x, s).said = "NONE"
  BY ZenonT(60), KeptCall

(* ... to the listing: a stop confirmed as NEW is known by its id. *)
LEMMA ToList ==
    ASSUME NEW x \in Calls, x.said = "NEW" => x.mine.exch # None
    PROVE  StepInv(Kept(x, "list"))
<1> DEFINE c == Kept(x, "list")
<1>1. "list" \in Steps
  BY DEF Steps
<1>2. c.pc = "list" /\ c.mine = x.mine /\ c.said = x.said
  BY <1>1, KeptCall
<1> HIDE DEF c
<1>3. StepInv(c)
  BY <1>2 DEF StepInv, Exact
<1> QED
  BY <1>3 DEF c

(* ... to the mint: the owner it read names no stop. *)
LEMMA ToMint ==
    ASSUME NEW x \in Calls, x.mine.client = None, x.mine.gen < MaxGen
    PROVE  StepInv(Kept(x, "mint"))
<1> DEFINE c == Kept(x, "mint")
<1>1. "mint" \in Steps
  BY DEF Steps
<1>2. c.pc = "mint" /\ c.mine = x.mine /\ c.said = "NONE"
  BY <1>1, KeptSaid
<1> HIDE DEF c
<1>3. StepInv(c)
  BY <1>2 DEF StepInv, Exact
<1> QED
  BY <1>3 DEF c

(* ... past a POST that was answered. *)
LEMMA ToInstalled ==
    ASSUME NEW x \in Calls, NEW s \in {"resize", "record"},
           x.mine.client # None, Answered(x.mine.client), x.target = remote[x.mine.client].qty
    PROVE  StepInv(Kept(x, s))
<1> DEFINE c == Kept(x, s)
<1>1. s \in Steps
  BY DEF Steps
<1>2. c.pc = s /\ c.mine = x.mine /\ c.said = "NONE" /\ c.target = x.target
  BY <1>1, KeptSaid
<1> HIDE DEF c
<1>3. StepInv(c)
  BY <1>2 DEF StepInv, Exact
<1> QED
  BY <1>3 DEF c

(* ... to a step that works on a known id. *)
LEMMA ToExact ==
    ASSUME NEW x \in Calls, NEW s \in {"exact", "clear", "begin cancel", "keep"}, x.mine.exch # None,
           s = "keep" => x.target = x.mine.qty
    PROVE  StepInv(Kept(x, s))
<1> DEFINE c == Kept(x, s)
<1>1. s \in Steps
  BY DEF Steps
<1>2. c.pc = s /\ c.mine = x.mine /\ c.said = "NONE" /\ c.target = x.target
  BY <1>1, KeptSaid
<1> HIDE DEF c
<1>3. StepInv(c)
  BY <1>2 DEF StepInv, Exact
<1> QED
  BY <1>3 DEF c

(* ... to confirm_terminal: the exchange said the stop is over. *)
LEMMA ToOver ==
    ASSUME NEW x \in Calls, NEW s \in {"finish", "end cancel"}, x.mine.exch # None, Over(x.mine.exch)
    PROVE  StepInv(Kept(x, s))
<1> DEFINE c == Kept(x, s)
<1>1. s \in Steps
  BY DEF Steps
<1>2. c.pc = s /\ c.mine = x.mine
  BY <1>1, KeptCall
<1> HIDE DEF c
<1>3. StepInv(c)
  BY <1>2 DEF StepInv, Exact
<1> QED
  BY <1>3 DEF c

(* The steps that only read and judge. *)
LEMMA QuietSteps ==
    ASSUME IInv, NEW w \in Workers,
           \/ RequestFails(w) \/ ReadEntry(w) \/ UpsertEntry(w) \/ Decide(w) \/ GetOwner(w)
           \/ RenewOwner(w) \/ SizeStop(w) \/ NextClientId(w) \/ VerifyStop(w) \/ StillFits(w)
    PROVE  IInv'
<1> DEFINE c == call[w]
<1> USE CallFacts
<1>0. c.seen \in Entries
  BY DEF Calls
<1>1. CASE RequestFails(w)
  BY <1>1, QuietReturn DEF RequestFails, Raise
<1>2. CASE ReadEntry(w)
  <2> DEFINE x == [c EXCEPT !.seen = entry]
  <2>1. x \in Calls /\ x.mine = c.mine
    BY DEF Calls
  <2> QED
    BY <1>2, <2>1, QuietGoto DEF ReadEntry, GotoWith, Plain, Steps, dbVars
<1>3. CASE UpsertEntry(w)
  BY <1>0, <1>3, QuietGoto DEF UpsertEntry, Goto, Plain, Steps
<1>4. CASE Decide(w)
  <2>1. CASE Goto(w, "owner")
    BY <1>4, <2>1, QuietGoto DEF Decide, Goto, Plain, Steps, dbVars
  <2>2. CASE Return(w)
    BY <1>4, <2>2, QuietReturn DEF Decide, dbVars
  <2> QED
    BY <1>4, <2>1, <2>2 DEF Decide
<1>5. CASE GetOwner(w)
  <2> DEFINE x == [c EXCEPT !.mine = owner]
  <2>1. x \in Calls /\ x.mine = owner
    BY DEF Calls
  <2>2. CASE GotoWith(w, "position", x)
    BY <1>5, <2>1, <2>2, QuietGoto DEF GetOwner, GotoWith, Plain, Steps, dbVars
  <2>3. CASE Return(w)
    BY <1>5, <2>3, QuietReturn DEF GetOwner, dbVars
  <2> QED
    BY <1>5, <2>2, <2>3 DEF GetOwner
<1>6. CASE RenewOwner(w)
  <2> DEFINE x == [c EXCEPT !.mine = owner]
  <2>1. x \in Calls /\ x.mine = owner /\ x.said = c.said
    BY DEF Calls
  <2>2. c.said = "NONE"
    BY <1>6 DEF RenewOwner, At, StepInv
  <2>3. StepInv(Kept(x, "list"))
    BY <2>1, <2>2, ToList
  <2> QED
    BY <1>6, <2>1, <2>3, QuietGoto DEF RenewOwner, GotoWith, Steps, dbVars
<1>7. CASE SizeStop(w)
  <2> DEFINE x == [c EXCEPT !.target = Least(c.target, open)]
  <2>1. x \in Calls /\ x.mine = c.mine
    BY QtyAssumption DEF Calls, Least
  <2>2. CASE GotoWith(w, "next", x) /\ UNCHANGED killed
    BY <1>7, <2>1, <2>2, QuietGoto DEF SizeStop, GotoWith, Plain, Steps
  <2>3. CASE Raise(w)
    BY <1>7, <2>3, QuietReturn DEF SizeStop, Raise
  <2> QED
    BY <1>7, <2>2, <2>3 DEF SizeStop
<1>8. CASE NextClientId(w)
  <2> DEFINE x == [c EXCEPT !.mine = owner]
  <2>1. x \in Calls /\ x.mine = owner
    BY DEF Calls
  <2>2. CASE owner.client = None /\ owner.gen < MaxGen /\ GotoWith(w, "mint", x) /\ UNCHANGED killed
    <3>1. StepInv(Kept(x, "mint"))
      BY <2>1, <2>2, ToMint
    <3> QED
      BY <1>8, <2>1, <2>2, <3>1, QuietGoto DEF NextClientId, GotoWith, Steps
  <2>3. CASE Raise(w)
    BY <1>8, <2>3, QuietReturn DEF NextClientId, Raise
  <2> QED
    BY <1>8, <2>2, <2>3 DEF NextClientId
<1>9. CASE VerifyStop(w)
  <2>1. CASE Goto(w, "resize") /\ UNCHANGED killed
    <3>1. c.mine.client # None /\ Answered(c.mine.client) /\ c.target = remote[c.mine.client].qty
      BY <1>9 DEF VerifyStop, At, StepInv
    <3>2. StepInv(Kept(c, "resize"))
      BY <3>1, ToInstalled
    <3> QED
      BY <1>9, <2>1, <3>2, QuietGoto DEF VerifyStop, Goto, Steps
  <2>2. CASE Raise(w)
    BY <1>9, <2>2, QuietReturn DEF VerifyStop, Raise
  <2> QED
    BY <1>9, <2>1, <2>2 DEF VerifyStop
<1>10. CASE StillFits(w)
  <2>1. CASE Goto(w, "record") /\ UNCHANGED killed
    <3>1. c.mine.client # None /\ Answered(c.mine.client) /\ c.target = remote[c.mine.client].qty
      BY <1>10 DEF StillFits, At, StepInv
    <3>2. StepInv(Kept(c, "record"))
      BY <3>1, ToInstalled
    <3> QED
      BY <1>10, <2>1, <3>2, QuietGoto DEF StillFits, Goto, Steps
  <2>2. CASE Raise(w)
    BY <1>10, <2>2, QuietReturn DEF StillFits, Raise
  <2> QED
    BY <1>10, <2>1, <2>2 DEF StillFits
<1> QED
  BY <1>1, <1>2, <1>3, <1>4, <1>5, <1>6, <1>7, <1>8, <1>9, <1>10

(* A call goes from an exact query or a listing to what it found. *)
LEMMA JudgingSteps ==
    ASSUME IInv, NEW w \in Workers,
           QueryPosition(w) \/ RereadOwner(w) \/ QueryExact(w) \/ ListStops(w) \/ CheckCancel(w)
    PROVE  IInv'
<1> DEFINE c == call[w]
<1>0. /\ c \in Calls /\ CopyInv(c.mine) /\ StepInv(c) /\ owner \in Owners /\ CopyInv(owner)
      /\ c.mine \in Owners /\ c.target \in 0..Qty /\ open \in 0..Qty
      /\ row \in Entries /\ killed \in BOOLEAN
  BY CallFacts
<1>1. CASE QueryPosition(w)
  <2> DEFINE x == [c EXCEPT !.target = TargetQty(w)]
  <2>1. TargetQty(w) \in 0..Qty
    <3>1. c.seen.filled \in 0..Qty
      BY <1>0 DEF Calls, Entries
    <3> QED
      BY <1>0, <3>1, QtyAssumption DEF TargetQty, Least
  <2>2. x \in Calls /\ x.mine = c.mine /\ x.said = c.said
    BY <1>0, <2>1 DEF Calls
  <2>3. c.said = "NONE" /\ UNCHANGED <<owner, row, local, exchangeVars>>
    BY <1>0, <1>1 DEF QueryPosition, At, StepInv
  <2> HIDE DEF x
  <2>4. CASE Raise(w)
    BY <1>0, <2>3, <2>4, QuietReturn DEF Raise
  <2>5. ASSUME NEW s \in {"list", "exact", "release", "clear"}, GotoWith(w, s, x), UNCHANGED killed,
               s \in {"exact", "clear"} => c.mine.exch # None
        PROVE  IInv'
    <3>1. s \in Plain \/ StepInv(Kept(x, s))
      <4>1. CASE s = "list"
        BY <2>2, <2>3, <4>1, ToList
      <4>2. CASE s \in {"exact", "clear"}
        BY <2>2, <2>5, <4>2, ToExact
      <4> QED
        BY <4>1, <4>2 DEF Plain
    <3>2. s \in Steps \ {"post", "cancel"}
      BY DEF Steps
    <3> QED
      BY <1>0, <2>2, <2>3, <2>5, <3>1, <3>2, QuietGoto DEF GotoWith
  <2>6. c.mine.st = "TERMINAL_CONFIRMED" => c.mine.exch # None
    BY <1>0 DEF CopyInv, WellFormed
  <2> QED
    BY <1>1, <2>4, <2>5, <2>6 DEF QueryPosition, StepFor, x
<1>2. CASE RereadOwner(w)
  <2> DEFINE x == [c EXCEPT !.mine = owner]
  <2>1. x \in Calls /\ x.mine = owner /\ x.said = c.said
    BY <1>0 DEF Calls
  <2>2. c.said = "NONE" /\ UNCHANGED <<owner, row, local, exchangeVars>>
    BY <1>0, <1>2 DEF RereadOwner, At, StepInv
  <2> HIDE DEF x
  <2>3. CASE Raise(w)
    BY <1>0, <2>2, <2>3, QuietReturn DEF Raise
  <2>4. ASSUME NEW s \in {"list", "exact"}, GotoWith(w, s, x), UNCHANGED killed,
               s = "exact" => owner.exch # None
        PROVE  IInv'
    <3>1. StepInv(Kept(x, s))
      BY <2>1, <2>2, <2>4, ToList, ToExact
    <3>2. s \in Steps \ {"post", "cancel"}
      BY DEF Steps
    <3> QED
      BY <1>0, <2>1, <2>2, <2>4, <3>1, <3>2, QuietGoto DEF GotoWith
  <2> QED
    BY <1>2, <2>3, <2>4 DEF RereadOwner, StepFor, x
<1>3. \A g \in Gens : \A a \in MayAnswer(g) :
          a \in Answers /\ (a = "NEW" => remote[g].st = "NEW") /\ (a # "NEW" /\ Answered(g) => Over(g))
  BY DEF MayAnswer, Answers, Answered, Over
<1>4. c.pc \in {"exact", "check cancel"} =>
          c.mine.exch # None /\ c.mine.exch \in Gens /\ Answered(c.mine.exch)
  <2> SUFFICES ASSUME c.pc \in {"exact", "check cancel"}
               PROVE  c.mine.exch # None /\ c.mine.exch \in Gens /\ Answered(c.mine.exch)
    OBVIOUS
  <2>1. c.mine.exch # None /\ c.mine.exch \in 0..MaxGen
    BY <1>0 DEF StepInv, Exact, Owners
  <2> QED
    BY <1>0, <2>1, GensRange DEF CopyInv
<1>5. ASSUME NEW s \in {"finish", "end cancel"}, NEW a \in Answers, c.mine.exch # None, Over(c.mine.exch),
             GotoWith(w, s, [c EXCEPT !.said = RowStatus(a)]),
             UNCHANGED <<owner, row, local, killed, exchangeVars>>
      PROVE  IInv'
  <2> DEFINE x == [c EXCEPT !.said = RowStatus(a)]
  <2>1. x \in Calls /\ x.mine = c.mine
    BY <1>0 DEF Calls, RowStatus, Rows, Answers
  <2> HIDE DEF x
  <2>2. StepInv(Kept(x, s))
    BY <1>5, <2>1, ToOver
  <2>3. s \in Steps \ {"post", "cancel"} /\ call' = [call EXCEPT ![w] = Kept(x, s)]
    BY <1>5 DEF Steps, GotoWith, x
  <2> QED
    BY <1>0, <1>5, <2>1, <2>2, <2>3, QuietGoto
<1>6. CASE QueryExact(w)
  <2>1. UNCHANGED <<owner, row, local, exchangeVars>> /\ c.pc = "exact"
    BY <1>6 DEF QueryExact, At
  <2>2. PICK a \in MayAnswer(c.mine.exch) :
            \/ a = "NEW" /\ GotoWith(w, "list", [c EXCEPT !.said = "NEW"]) /\ UNCHANGED killed
            \/ a # "NEW" /\ GotoWith(w, "finish", [c EXCEPT !.said = RowStatus(a)]) /\ UNCHANGED killed
            \/ Raise(w)
    BY <1>6 DEF QueryExact
  <2>3. CASE GotoWith(w, "list", [c EXCEPT !.said = "NEW"]) /\ UNCHANGED killed
    <3> DEFINE x == [c EXCEPT !.said = "NEW"]
    <3>1. x \in Calls /\ x.mine = c.mine
      BY <1>0 DEF Calls, Rows
    <3>2. call' = [call EXCEPT ![w] = Kept(x, "list")]
      BY <2>3 DEF GotoWith
    <3> HIDE DEF x
    <3>3. StepInv(Kept(x, "list"))
      BY <1>4, <2>1, <3>1, ToList
    <3>4. "list" \in Steps \ {"post", "cancel"}
      BY DEF Steps
    <3> QED
      BY <1>0, <2>1, <2>3, <3>1, <3>2, <3>3, <3>4, QuietGoto
  <2>4. CASE a # "NEW" /\ GotoWith(w, "finish", [c EXCEPT !.said = RowStatus(a)]) /\ UNCHANGED killed
    <3>1. a \in Answers /\ c.mine.exch # None /\ Over(c.mine.exch)
      BY <1>3, <1>4, <2>1, <2>4
    <3> QED
      BY <1>5, <2>1, <2>4, <3>1
  <2>5. CASE Raise(w)
    BY <1>0, <2>1, <2>5, QuietReturn DEF Raise
  <2> QED
    BY <2>2, <2>3, <2>4, <2>5
<1>7. CASE CheckCancel(w)
  <2>1. UNCHANGED <<owner, row, local, exchangeVars>> /\ c.pc = "check cancel"
    BY <1>7 DEF CheckCancel, At
  <2>2. PICK a \in MayAnswer(c.mine.exch) :
            \/ a # "NEW" /\ GotoWith(w, "end cancel", [c EXCEPT !.said = RowStatus(a)]) /\ UNCHANGED killed
            \/ Raise(w)
    BY <1>7 DEF CheckCancel
  <2>3. CASE a # "NEW" /\ GotoWith(w, "end cancel", [c EXCEPT !.said = RowStatus(a)]) /\ UNCHANGED killed
    <3>1. a \in Answers /\ c.mine.exch # None /\ Over(c.mine.exch)
      BY <1>3, <1>4, <2>1, <2>3
    <3> QED
      BY <1>5, <2>1, <2>3, <3>1
  <2>4. CASE Raise(w)
    BY <1>0, <2>1, <2>4, QuietReturn DEF Raise
  <2> QED
    BY <2>2, <2>3, <2>4
<1>8. CASE ListStops(w)
  <2>1. UNCHANGED <<owner, row, local, exchangeVars>> /\ c.pc = "list"
    BY <1>8 DEF ListStops, At
  <2>2. CASE Raise(w)
    BY <1>0, <2>1, <2>2, QuietReturn DEF Raise
  <2>3. ASSUME NEW s \in {"release", "size", "keep", "begin cancel"}, Goto(w, s), UNCHANGED killed,
               s \in {"keep", "begin cancel"} => c.said = "NEW",
               s = "keep" => c.target = c.mine.qty
        PROVE  IInv'
    <3>1. s \in {"keep", "begin cancel"} => c.mine.exch # None
      BY <1>0, <2>1, <2>3 DEF StepInv
    <3>2. s \in Plain \/ StepInv(Kept(c, s))
      <4>1. CASE s \in {"keep", "begin cancel"}
        BY <1>0, <2>3, <3>1, <4>1, ToExact
      <4> QED
        BY <4>1 DEF Plain
    <3>3. s \in Steps \ {"post", "cancel"}
      BY DEF Steps
    <3> QED
      BY <1>0, <2>1, <2>3, <3>2, <3>3, QuietGoto DEF Goto
  <2> QED
    BY <1>8, <2>2, <2>3 DEF ListStops, Confirmed
<1> QED
  BY <1>1, <1>2, <1>6, <1>7, <1>8

-----------------------------------------------------------------------------

(* Whoever is about to post keeps every other worker away from the owner.  *)
LEMMA NobodyPosts ==
    ASSUME IInv,
           \/ owner.st # "PENDING_CONFIRMATION" \/ owner.exch # None
           \/ owner.client \in Gens /\ remote[owner.client].st # "NONE"
    PROVE  \A v \in Workers : call[v].pc # "post"
  BY PostOwns

(* A step of worker w that changes the owner row, and nothing on the       *)
(* exchange.                                                               *)
LEMMA OwnerStep ==
    ASSUME IInv, NEW w \in Workers, NEW c \in Calls, call' = [call EXCEPT ![w] = c],
           owner' \in Owners, local' \in [Gens -> Rows], killed' \in BOOLEAN,
           UNCHANGED <<row, entry, open, remote, cancels>>,
           owner.gen <= owner'.gen,
           owner'.st \in {"PENDING_CONFIRMATION", "ACTIVE"} =>
               \/ owner'.client = owner.client /\ owner.st \in {"PENDING_CONFIRMATION", "ACTIVE"}
               \/ owner'.client > owner.gen,
           \A v \in Workers : call[v].pc # "post",
           OwnerInv', CopyInv(c.mine)', StepInv(c)',
           c.pc = "cancel" => \A v \in Workers \ {w} : call[v].pc = "cancel" => call[v].mine.exch # c.mine.exch
    PROVE  IInv'
<1>1. TypeOK
  BY DEF IInv
<1>2. call'[w] = c /\ \A v \in Workers \ {w} : call'[v] = call[v]
  BY <1>1 DEF TypeOK
<1>3. CallInv(call[w])'
  BY ZenonT(60), <1>2 DEF CallInv, CopyInv, WellFormed, Answered, StepInv, Over
<1>4. \A v \in Workers \ {w} : CallInv(call[v])'
  <2> DEFINE V == Workers \ {w}
  <2>1. \A g \in Gens : Answered(g) => Answered(g)' /\ remote'[g].qty = remote[g].qty
    BY DEF Answered
  <2>2. \A g \in Gens : Over(g) => Over(g)'
    BY DEF Over
  <2>3. V \in SUBSET Workers /\ \A v \in V : call'[v] = call[v]
    BY <1>2
  <2>4. \A v \in V : call[v].pc = "post" => owner' = owner /\ remote'[owner.client].st = "NONE"
    OBVIOUS
  <2>5. \A v \in V : call[v].pc = "cancel" => cancels'[call[v].mine.exch] = cancels[call[v].mine.exch]
    OBVIOUS
  <2> HIDE DEF V
  <2>6. \A v \in V : CallInv(call[v])'
    BY <2>1, <2>2, <2>3, <2>4, <2>5, Others
  <2> QED
    BY <2>6 DEF V
<1> QED
  BY <1>1, <1>3, <1>4, Combine DEF TypeOK

(* A call that goes on, as a value. *)
LEMMA GoesOn ==
    ASSUME IInv, NEW w \in Workers, NEW s \in Steps, Goto(w, s)
    PROVE  \E c \in Calls :
               /\ call' = [call EXCEPT ![w] = c] /\ c.pc = s
               /\ c.mine = IF s \in {"release", "size", "next"} THEN Reserved ELSE call[w].mine
               /\ c.target = IF s = "release" THEN 0 ELSE call[w].target
               /\ c.said = IF s \in {"list", "finish", "end cancel"} THEN call[w].said ELSE "NONE"
<1>1. PICK x \in Calls : x = call[w]
  BY CallFacts
<1>2. /\ Kept(x, s) \in Calls /\ Kept(x, s).pc = s
      /\ Kept(x, s).mine = IF s \in {"release", "size", "next"} THEN Reserved ELSE x.mine
      /\ Kept(x, s).target = IF s = "release" THEN 0 ELSE x.target
      /\ Kept(x, s).said = IF s \in {"list", "finish", "end cancel"} THEN x.said ELSE "NONE"
  BY ZenonT(60), KeptCall
<1>3. call' = [call EXCEPT ![w] = Kept(x, s)]
  BY <1>1 DEF Goto
<1> QED
  BY <1>1, <1>2, <1>3

(* A sound copy stays sound when the owner's generation does not fall and  *)
(* no stop changes.                                                        *)
LEMMA CopyStays ==
    ASSUME NEW o \in Owners, CopyInv(o), owner \in Owners, owner' \in Owners,
           owner.gen <= owner'.gen, remote' = remote
    PROVE  CopyInv(o)'
<1>1. o.gen \in Nat /\ owner.gen \in Nat /\ owner'.gen \in Nat
  BY DEF Owners
<1> QED
  BY <1>1 DEF CopyInv, WellFormed, Answered

(* What a call that becomes idle, or goes on to a plain step, knows after  *)
(* a step that changes the owner.                                          *)
LEMMA PlainAfter ==
    ASSUME NEW c, c.pc \in Plain, c.said = "NONE"
    PROVE  StepInv(c)'
<1>1. c.pc \notin Exact \cup {"list", "mint", "post", "pending", "verify", "resize", "record"}
  BY DEF Exact, Plain
<1> QED
  BY <1>1 DEF StepInv, Exact

(* A call that returns knows nothing, whatever became of the owner. *)
LEMMA IdleAfter ==
    ASSUME NEW w \in Workers, Return(w), owner' \in Owners
    PROVE  \E c \in Calls : /\ call' = [call EXCEPT ![w] = c] /\ c.pc = "idle"
                            /\ CopyInv(c.mine)' /\ StepInv(c)'
<1>1. Idle \in Calls /\ Idle.pc = "idle" /\ Idle.said = "NONE" /\ Idle.mine = Reserved
  BY QtyAssumption, MaxGenAssumption
     DEF Idle, Calls, Steps, NewEntry, Entries, Reserved, Owners, OwnerStatuses, None, Rows
<1>2. owner'.gen \in Nat
  BY DEF Owners
<1>3. CopyInv(Reserved)'
  BY <1>2 DEF CopyInv, WellFormed, Reserved, None
<1>4. \E c \in Calls : c = Idle
  BY <1>1
<1>5. PICK c \in Calls : c = Idle
  BY <1>4
<1>6. c.pc = "idle" /\ c.said = "NONE" /\ c.mine = Reserved
  BY <1>1, <1>5
<1>7. StepInv(c)'
  BY <1>6, PlainAfter DEF Plain
<1>8. CopyInv(c.mine)'
  BY <1>3, <1>6
<1> QED
  BY <1>5, <1>6, <1>7, <1>8 DEF Return

(* What is known of the owner row. *)
LEMMA OwnerFacts ==
    ASSUME IInv
    PROVE  /\ TypeOK /\ OwnerInv /\ owner \in Owners
           /\ owner.gen \in 0..MaxGen /\ owner.client \in 0..MaxGen /\ owner.exch \in 0..MaxGen
           /\ owner.client # None => owner.client \in Gens /\ owner.client = owner.gen
           /\ owner.exch # None => owner.exch = owner.client
<1>1. TypeOK /\ OwnerInv
  BY DEF IInv, Inv
<1>2. owner \in Owners
  BY <1>1 DEF TypeOK
<1>3. owner.gen \in 0..MaxGen /\ owner.client \in 0..MaxGen /\ owner.exch \in 0..MaxGen
  BY <1>2 DEF Owners
<1>4. owner.client # None => owner.client \in Gens
  BY <1>3, GensRange
<1> QED
  BY <1>1, <1>2, <1>3, <1>4 DEF OwnerInv, WellFormed

(* An owner whose stop is over, or that names none, may name none. *)
LEMMA NoStop ==
    ASSUME IInv, NEW st \in {"RESERVED", "RELEASED"}, UNCHANGED <<remote, cancels>>,
           owner.st = "TERMINAL_CONFIRMED" \/ owner.client = None,
           owner' = [owner EXCEPT !.st = st, !.client = None, !.exch = None, !.qty = 0]
    PROVE  /\ OwnerInv' /\ owner' \in Owners /\ owner.gen <= owner'.gen
           /\ owner'.st \notin {"PENDING_CONFIRMATION", "ACTIVE"}
           /\ \A v \in Workers : call[v].pc # "post"
<1>1. /\ TypeOK /\ OwnerInv /\ owner \in Owners /\ owner.gen \in 0..MaxGen
      /\ owner.client \in 0..MaxGen
  BY OwnerFacts
<1>2. /\ owner'.st = st /\ owner'.client = None /\ owner'.exch = None /\ owner'.qty = 0
      /\ owner'.gen = owner.gen
  BY <1>1 DEF Owners
<1>3. owner' \in Owners
  <2>1. st \in OwnerStatuses /\ None \in 0..MaxGen /\ 0 \in 0..Qty
    BY QtyAssumption, MaxGenAssumption DEF OwnerStatuses, None
  <2> QED
    BY <1>1, <2>1 DEF Owners
<1>4. \A g \in Gens : ~Live(g)
  BY <1>1 DEF OwnerInv, Live, Over, Gens, None
<1>5. owner.st = "PENDING_CONFIRMATION" => owner.client # None
  BY <1>1 DEF OwnerInv, WellFormed
<1>6. \A v \in Workers : call[v].pc # "post"
  BY <1>5, NobodyPosts
<1>7. OwnerInv'
  BY <1>1, <1>2, <1>4 DEF OwnerInv, WellFormed, Live, Answered, Over
<1>8. owner.gen <= owner'.gen
  BY <1>1, <1>2
<1> QED
  BY <1>2, <1>3, <1>6, <1>7, <1>8

(* clear_stop, wherever it is called from. *)
LEMMA ClearSteps ==
    ASSUME IInv, NEW w \in Workers, NEW s \in {"reread", "renew", "size"}, ClearStop(w, s)
    PROVE  IInv'
<1>1. UNCHANGED <<row, local, exchangeVars>> /\ row \in Entries /\ killed \in BOOLEAN
  BY CallFacts DEF ClearStop
<1>2. CASE Raise(w) /\ UNCHANGED owner
  BY <1>1, <1>2, QuietReturn DEF Raise
<1>3. CASE /\ owner.st = "TERMINAL_CONFIRMED"
           /\ owner' = [owner EXCEPT !.st = "RESERVED", !.client = None, !.exch = None, !.qty = 0]
           /\ Goto(w, s) /\ UNCHANGED killed
  <2>1. UNCHANGED <<row, local, killed, entry, open, remote, cancels>>
    BY <1>1, <1>3 DEF exchangeVars
  <2>2. /\ OwnerInv' /\ owner' \in Owners /\ owner.gen <= owner'.gen
        /\ owner'.st \notin {"PENDING_CONFIRMATION", "ACTIVE"}
        /\ \A v \in Workers : call[v].pc # "post"
    BY <1>3, <2>1, NoStop
  <2>3. s \in Steps
    BY DEF Steps
  <2>4. PICK c \in Calls : /\ call' = [call EXCEPT ![w] = c] /\ c.pc = s
                           /\ c.mine \in {Reserved, call[w].mine} /\ c.said = "NONE"
    <3>1. PICK c \in Calls :
              /\ call' = [call EXCEPT ![w] = c] /\ c.pc = s
              /\ c.mine = IF s \in {"release", "size", "next"} THEN Reserved ELSE call[w].mine
              /\ c.target = IF s = "release" THEN 0 ELSE call[w].target
              /\ c.said = IF s \in {"list", "finish", "end cancel"} THEN call[w].said ELSE "NONE"
      BY <1>3, <2>3, GoesOn
    <3> QED
      BY <3>1
  <2>5. StepInv(c)'
    BY <2>4, PlainAfter DEF Plain
  <2>6. CopyInv(c.mine) /\ c.mine \in Owners /\ owner \in Owners
    BY <2>4, CallFacts DEF Calls
  <2>7. CopyInv(c.mine)'
    BY <2>1, <2>2, <2>6, CopyStays
  <2>8. local \in [Gens -> Rows] /\ c.pc # "cancel"
    BY <2>4, OwnerFacts DEF TypeOK
  <2> QED
    BY <1>1, <2>1, <2>2, <2>4, <2>5, <2>7, <2>8, OwnerStep
<1> QED
  BY <1>2, <1>3 DEF ClearStop, UpdateOwner

(* release_flat. *)
LEMMA ReleaseSteps ==
    ASSUME IInv, NEW w \in Workers, ReleaseFlat(w)
    PROVE  IInv'
<1>1. UNCHANGED <<row, local, exchangeVars>> /\ row \in Entries /\ killed \in BOOLEAN
  BY CallFacts DEF ReleaseFlat
<1>2. CASE Raise(w) /\ UNCHANGED owner
  BY <1>1, <1>2, QuietReturn DEF Raise
<1>3. CASE Return(w) /\ UNCHANGED <<owner, killed>>
  BY <1>1, <1>3, QuietReturn
<1>4. CASE /\ owner.st = "TERMINAL_CONFIRMED" \/ owner.client = None
           /\ owner' = [owner EXCEPT !.st = "RELEASED", !.client = None, !.exch = None, !.qty = 0]
           /\ Return(w) /\ UNCHANGED killed
  <2>1. UNCHANGED <<row, local, killed, entry, open, remote, cancels>>
    BY <1>1, <1>4 DEF exchangeVars
  <2>2. /\ OwnerInv' /\ owner' \in Owners /\ owner.gen <= owner'.gen
        /\ owner'.st \notin {"PENDING_CONFIRMATION", "ACTIVE"}
        /\ \A v \in Workers : call[v].pc # "post"
    BY <1>4, <2>1, NoStop
  <2>3. PICK c \in Calls : /\ call' = [call EXCEPT ![w] = c] /\ c.pc = "idle"
                           /\ CopyInv(c.mine)' /\ StepInv(c)'
    BY <1>4, <2>2, IdleAfter
  <2>4. local \in [Gens -> Rows] /\ c.pc # "cancel"
    BY <2>3, OwnerFacts DEF TypeOK
  <2> QED
    BY <1>1, <2>1, <2>2, <2>3, <2>4, OwnerStep
<1> QED
  BY <1>2, <1>3, <1>4 DEF ReleaseFlat

(* A call that goes on with its copy of the owner. *)
LEMMA GoesOnKeeping ==
    ASSUME IInv, NEW w \in Workers, NEW s \in Steps, Goto(w, s),
           s \notin {"release", "size", "next", "list", "finish", "end cancel"}
    PROVE  \E c \in Calls :
               /\ call' = [call EXCEPT ![w] = c] /\ c.pc = s
               /\ c.mine = call[w].mine /\ c.target = call[w].target /\ c.said = "NONE"
<1>1. PICK x \in Calls : x = call[w]
  BY CallFacts
<1>2. Kept(x, s) \in Calls
  BY KeptCall
<1>3. /\ Kept(x, s).pc = s /\ Kept(x, s).mine = x.mine
      /\ Kept(x, s).target = x.target /\ Kept(x, s).said = "NONE"
  BY KeptSaid
<1>4. call' = [call EXCEPT ![w] = Kept(x, s)]
  BY <1>1 DEF Goto
<1> QED
  BY <1>1, <1>2, <1>3, <1>4

(* A call that goes on to release_flat and forgets its copy. *)
LEMMA GoesOnReleasing ==
    ASSUME IInv, NEW w \in Workers, Goto(w, "release")
    PROVE  \E c \in Calls : /\ call' = [call EXCEPT ![w] = c] /\ c.pc = "release"
                            /\ c.mine = Reserved /\ c.said = "NONE"
<1>1. PICK x \in Calls : x = call[w]
  BY CallFacts
<1>2. "release" \in Steps
  BY DEF Steps
<1>3. Kept(x, "release") \in Calls
  BY <1>2, KeptCall
<1>4. /\ Kept(x, "release").pc = "release" /\ Kept(x, "release").mine = Reserved
      /\ Kept(x, "release").said = "NONE"
  BY DEF Kept, Calls
<1>5. call' = [call EXCEPT ![w] = Kept(x, "release")]
  BY <1>1 DEF Goto
<1> QED
  BY <1>3, <1>4, <1>5

(* A call that knows the exchange's id of the stop the owner still names.  *)
LEMMA SameStop ==
    ASSUME IInv, NEW w \in Workers, call[w].mine.exch # None, owner.client = call[w].mine.client
    PROVE  /\ call[w].mine.exch = owner.client /\ owner.client \in Gens /\ owner.client # None
           /\ Answered(owner.client) /\ remote[owner.client].qty = call[w].mine.qty
           /\ \A v \in Workers : call[v].pc # "post"
<1>1. CopyInv(call[w].mine)
  BY CallFacts
<1>2. call[w].mine.exch = owner.client /\ owner.client # None
  BY <1>1 DEF CopyInv, WellFormed
<1>3. Answered(owner.client) /\ remote[owner.client].qty = call[w].mine.qty
  BY <1>1, <1>2 DEF CopyInv
<1>4. owner.client \in Gens
  BY <1>2, OwnerFacts
<1>5. \A v \in Workers : call[v].pc # "post"
  BY <1>3, <1>4, NobodyPosts DEF Answered
<1> QED
  BY <1>2, <1>3, <1>4, <1>5

(* The owner's status changes, of the stop it names and the exchange has   *)
(* answered for.                                                           *)
LEMMA NewStatus ==
    ASSUME IInv, NEW st \in {"TERMINAL_CONFIRMED", "CANCEL_PENDING", "ACTIVE", "PENDING_CONFIRMATION"},
           NEW q \in 0..Qty,
           UNCHANGED <<remote, cancels>>,
           owner.client # None, Answered(owner.client), remote[owner.client].qty = q,
           owner' = [owner EXCEPT !.st = st, !.exch = owner.client, !.qty = q],
           st = "TERMINAL_CONFIRMED" => Over(owner.client),
           st \in {"ACTIVE", "PENDING_CONFIRMATION"} => owner.st \in {"ACTIVE", "PENDING_CONFIRMATION"}
    PROVE  /\ OwnerInv' /\ owner' \in Owners /\ owner.gen <= owner'.gen
           /\ owner'.st \in {"PENDING_CONFIRMATION", "ACTIVE"} =>
                  \/ owner'.client = owner.client /\ owner.st \in {"PENDING_CONFIRMATION", "ACTIVE"}
                  \/ owner'.client > owner.gen
           /\ owner'.client = owner.client /\ owner'.st = st
<1>1. /\ TypeOK /\ OwnerInv /\ owner \in Owners /\ owner.gen \in 0..MaxGen /\ owner.client \in 0..MaxGen
      /\ owner.client \in Gens /\ owner.client = owner.gen
  BY OwnerFacts
<1>2. /\ owner'.st = st /\ owner'.client = owner.client /\ owner'.exch = owner.client /\ owner'.qty = q
      /\ owner'.gen = owner.gen
  BY <1>1 DEF Owners
<1>3. owner' \in Owners
  BY <1>1 DEF Owners, OwnerStatuses
<1>4. owner.gen <= owner'.gen
  BY <1>1, <1>2
<1>5. WellFormed(owner')
  BY <1>1, <1>2 DEF WellFormed
<1>6. \A g \in Gens : Live(g)' => owner'.client = g
  BY <1>1, <1>2 DEF OwnerInv, Live
<1>7. \A g \in Gens : g > owner'.gen => remote'[g].st = "NONE" /\ cancels'[g] = 0
  BY <1>1, <1>2 DEF OwnerInv
<1>8. \A g \in Gens : cancels'[g] <= 1
  BY <1>1 DEF OwnerInv
<1>9. owner'.st \in {"PENDING_CONFIRMATION", "ACTIVE"} => cancels'[owner'.client] = 0
  BY <1>1, <1>2 DEF OwnerInv
<1>10. owner'.st = "TERMINAL_CONFIRMED" => Over(owner.client)'
  BY <1>2 DEF Over
<1>11. Answered(owner.exch)' /\ remote'[owner'.client].qty = owner'.qty
  BY <1>2 DEF Answered
<1>12. OwnerInv'
  BY <1>5, <1>6, <1>7, <1>8, <1>9, <1>10, <1>11 DEF OwnerInv, WellFormed
<1> QED
  BY <1>2, <1>3, <1>4, <1>12

(* record_stop, of a stop that is kept and of a new one. *)
LEMMA RecordSteps ==
    ASSUME IInv, NEW w \in Workers, KeepStop(w) \/ RecordNewStop(w)
    PROVE  IInv'
<1> DEFINE g == call[w].mine.client
           q == call[w].target
<1>0. /\ call[w] \in Calls /\ StepInv(call[w]) /\ CopyInv(call[w].mine) /\ q \in 0..Qty
      /\ row \in Entries /\ killed \in BOOLEAN
  BY CallFacts
<1>1. RecordStop(w, g, q) /\ call[w].pc \in {"keep", "record"}
  BY DEF KeepStop, RecordNewStop, At
<1>2. g # None /\ Answered(g) /\ remote[g].qty = q
  <2>1. CASE call[w].pc = "keep"
    <3>1. call[w].mine.exch # None /\ q = call[w].mine.qty
      BY <1>0, <2>1 DEF StepInv, Exact
    <3>2. call[w].mine.exch = g
      BY <1>0, <3>1 DEF CopyInv, WellFormed
    <3> QED
      BY <1>0, <3>1, <3>2 DEF CopyInv
  <2>2. CASE call[w].pc = "record"
    BY <1>0, <2>2 DEF StepInv
  <2> QED
    BY <1>1, <2>1, <2>2
<1>3. UNCHANGED <<row, exchangeVars>>
  BY <1>1 DEF RecordStop
<1> HIDE DEF g, q
<1>4. CASE Raise(w) /\ UNCHANGED <<owner, local>>
  BY <1>0, <1>3, <1>4, QuietReturn DEF Raise
<1>5. CASE /\ owner.st \in {"ACTIVE", "PENDING_CONFIRMATION"} /\ owner.client = g
           /\ owner' = [owner EXCEPT !.exch = g, !.qty = q, !.st = "ACTIVE"]
           /\ local' = [local EXCEPT ![g] = "NEW"]
           /\ Return(w) /\ UNCHANGED killed
  <2>1. UNCHANGED <<row, killed, entry, open, remote, cancels>>
    BY <1>3, <1>5 DEF exchangeVars
  <2>2. owner' = [owner EXCEPT !.st = "ACTIVE", !.exch = owner.client, !.qty = q]
    <3>1. owner \in Owners
      BY OwnerFacts
    <3> QED
      BY <1>5, <3>1 DEF Owners
  <2>3. /\ OwnerInv' /\ owner' \in Owners /\ owner.gen <= owner'.gen
        /\ owner'.st \in {"PENDING_CONFIRMATION", "ACTIVE"} =>
               \/ owner'.client = owner.client /\ owner.st \in {"PENDING_CONFIRMATION", "ACTIVE"}
               \/ owner'.client > owner.gen
    BY <1>0, <1>2, <1>5, <2>1, <2>2, NewStatus
  <2>4. PICK c \in Calls : /\ call' = [call EXCEPT ![w] = c] /\ c.pc = "idle"
                           /\ CopyInv(c.mine)' /\ StepInv(c)'
    BY <1>5, <2>3, IdleAfter
  <2>5. owner.client \in Gens
    BY <1>2, <1>5, OwnerFacts
  <2>6. \A v \in Workers : call[v].pc # "post"
    BY <1>2, <1>5, <2>5, NobodyPosts DEF Answered
  <2>7. local' \in [Gens -> Rows] /\ c.pc # "cancel"
    BY <1>5, <2>4, OwnerFacts DEF TypeOK, Rows
  <2> QED
    BY <1>0, <2>1, <2>3, <2>4, <2>6, <2>7, OwnerStep
<1> QED
  BY <1>1, <1>4, <1>5 DEF RecordStop

(* confirm_terminal, after an exact query and after a cancel. *)
LEMMA ConfirmSteps ==
    ASSUME IInv, NEW w \in Workers, StopIsOver(w) \/ EndCancellation(w)
    PROVE  IInv'
<1> DEFINE o == call[w].mine
<1>0. /\ call[w] \in Calls /\ StepInv(call[w]) /\ CopyInv(o) /\ o \in Owners
      /\ row \in Entries /\ killed \in BOOLEAN /\ owner \in Owners
  BY CallFacts
<1>1. PICK s \in {"release", "replace", "raise", "vacate"} : ConfirmTerminal(w, s)
  BY DEF StopIsOver, EndCancellation
<1>2. o.exch # None /\ Over(o.exch)
  BY <1>0 DEF StepInv, Exact, StopIsOver, EndCancellation, At
<1>3. UNCHANGED <<row, exchangeVars>>
  BY <1>1 DEF ConfirmTerminal
<1>4. CASE Raise(w) /\ UNCHANGED <<owner, local>>
  BY <1>0, <1>3, <1>4, QuietReturn DEF Raise
<1>5. ASSUME owner.client = o.client, owner.exch = o.exch,
             owner' = [owner EXCEPT !.st = "TERMINAL_CONFIRMED"],
             local' \in [Gens -> Rows], killed' \in BOOLEAN,
             Return(w) \/ (s # "raise" /\ Goto(w, s))
      PROVE  IInv'
  <2>1. UNCHANGED <<row, entry, open, remote, cancels>>
    BY <1>3 DEF exchangeVars
  <2>2. /\ o.exch = owner.client /\ owner.client \in Gens /\ owner.client # None
        /\ Answered(owner.client) /\ \A v \in Workers : call[v].pc # "post"
    BY <1>2, <1>5, SameStop
  <2>3. owner.qty \in 0..Qty /\ remote[owner.client].qty = owner.qty
    <3>1. OwnerInv
      BY OwnerFacts
    <3> QED
      BY <1>0, <2>2, <3>1 DEF OwnerInv, Answered, Owners
  <2>4. owner' = [owner EXCEPT !.st = "TERMINAL_CONFIRMED", !.exch = owner.client, !.qty = owner.qty]
    BY <1>0, <1>5, <2>2 DEF Owners
  <2>5. Over(owner.client)
    BY <1>2, <2>2
  <2>6. /\ OwnerInv' /\ owner' \in Owners /\ owner.gen <= owner'.gen
        /\ owner'.st = "TERMINAL_CONFIRMED"
    BY <2>1, <2>2, <2>3, <2>4, <2>5, NewStatus
  <2>7. ASSUME NEW c \in Calls, call' = [call EXCEPT ![w] = c], CopyInv(c.mine)', StepInv(c)',
               c.pc # "cancel"
        PROVE  IInv'
    BY <1>5, <2>1, <2>2, <2>6, <2>7, OwnerStep
  <2>8. CASE Return(w)
    <3>1. PICK c \in Calls : /\ call' = [call EXCEPT ![w] = c] /\ c.pc = "idle"
                             /\ CopyInv(c.mine)' /\ StepInv(c)'
      BY <2>6, <2>8, IdleAfter
    <3> QED
      BY <2>7, <3>1
  <2>9. CASE s = "release" /\ Goto(w, s)
    <3>1. Goto(w, "release")
      BY <2>9
    <3>2. PICK c \in Calls : /\ call' = [call EXCEPT ![w] = c] /\ c.pc = "release"
                             /\ c.mine = Reserved /\ c.said = "NONE"
      BY <3>1, GoesOnReleasing
    <3>3. StepInv(c)'
      BY <3>2, PlainAfter DEF Plain
    <3>4. c.mine \in Owners /\ CopyInv(c.mine)
      BY <3>2, CallFacts DEF Calls
    <3>5. CopyInv(c.mine)'
      BY <1>0, <2>1, <2>6, <3>4, CopyStays
    <3> QED
      BY <2>7, <3>2, <3>3, <3>5
  <2>10. CASE s \in {"replace", "vacate"} /\ Goto(w, s)
    <3>1. s \in Steps /\ s \notin {"release", "size", "next", "list", "finish", "end cancel"}
      BY <2>10 DEF Steps
    <3>2. PICK c \in Calls :
              /\ call' = [call EXCEPT ![w] = c] /\ c.pc = s
              /\ c.mine = call[w].mine /\ c.target = call[w].target /\ c.said = "NONE"
      BY <2>10, <3>1, GoesOnKeeping
    <3>3. c.mine.exch # None
      BY <1>2, <3>2
    <3>4. StepInv(c)'
      BY <2>10, <3>2, <3>3 DEF StepInv
    <3>5. CopyInv(c.mine)'
      BY <1>0, <2>1, <2>6, <3>2, CopyStays
    <3> QED
      BY <2>7, <2>10, <3>2, <3>4, <3>5
  <2> QED
    BY <1>5, <2>8, <2>9, <2>10
<1>6. local \in [Gens -> Rows] /\ call[w].said \in Rows
  BY <1>0, OwnerFacts DEF TypeOK, Calls
<1>7. CASE owner.client = o.client /\ owner.exch = o.exch /\ owner' = [owner EXCEPT !.st = "TERMINAL_CONFIRMED"]
  <2>1. local' \in [Gens -> Rows]
    BY <1>1, <1>6 DEF ConfirmTerminal
  <2>2. killed' \in BOOLEAN
    BY <1>0, <1>1 DEF ConfirmTerminal, UpdateOwner, Raise
  <2>3. Return(w) \/ (s # "raise" /\ Goto(w, s))
    BY <1>1 DEF ConfirmTerminal, UpdateOwner, Raise
  <2> QED
    BY <1>5, <1>7, <2>1, <2>2, <2>3
<1> QED
  BY <1>1, <1>4, <1>7 DEF ConfirmTerminal, UpdateOwner

(* begin_cancellation: nobody else is about to cancel this stop. *)
LEMMA BeginSteps ==
    ASSUME IInv, NEW w \in Workers, BeginCancellation(w)
    PROVE  IInv'
<1> DEFINE o == call[w].mine
<1>0. /\ call[w] \in Calls /\ StepInv(call[w]) /\ CopyInv(o) /\ o \in Owners
      /\ row \in Entries /\ killed \in BOOLEAN /\ owner \in Owners
  BY CallFacts
<1>1. UNCHANGED <<row, local, exchangeVars>> /\ o.exch # None
  BY <1>0 DEF BeginCancellation, At, StepInv, Exact
<1>2. CASE Raise(w) /\ UNCHANGED owner
  BY <1>0, <1>1, <1>2, QuietReturn DEF Raise
<1>3. CASE /\ owner.st \in {"ACTIVE", "PENDING_CONFIRMATION"} /\ owner.client = o.client
           /\ owner' = [owner EXCEPT !.st = "CANCEL_PENDING", !.exch = o.exch]
           /\ Goto(w, "cancel") /\ UNCHANGED killed
  <2>1. UNCHANGED <<row, local, killed, entry, open, remote, cancels>>
    BY <1>1, <1>3 DEF exchangeVars
  <2>2. /\ o.exch = owner.client /\ owner.client \in Gens /\ owner.client # None
        /\ Answered(owner.client) /\ \A v \in Workers : call[v].pc # "post"
    BY <1>1, <1>3, SameStop
  <2>3. owner.qty \in 0..Qty /\ remote[owner.client].qty = owner.qty /\ cancels[owner.client] = 0
    <3>1. OwnerInv
      BY OwnerFacts
    <3> QED
      BY <1>0, <1>3, <2>2, <3>1 DEF OwnerInv, Answered, Owners
  <2>4. owner' = [owner EXCEPT !.st = "CANCEL_PENDING", !.exch = owner.client, !.qty = owner.qty]
    BY <1>0, <1>3, <2>2 DEF Owners
  <2>5. /\ OwnerInv' /\ owner' \in Owners /\ owner.gen <= owner'.gen
        /\ owner'.st = "CANCEL_PENDING" /\ owner'.client = owner.client
    BY <2>1, <2>2, <2>3, <2>4, NewStatus
  <2>6. "cancel" \in Steps /\ "cancel" \notin {"release", "size", "next", "list", "finish", "end cancel"}
    BY DEF Steps
  <2>7. PICK c \in Calls :
            /\ call' = [call EXCEPT ![w] = c] /\ c.pc = "cancel"
            /\ c.mine = call[w].mine /\ c.target = call[w].target /\ c.said = "NONE"
    BY <1>3, <2>6, GoesOnKeeping
  <2>8. StepInv(c)'
    <3>1. c.mine.exch # None /\ cancels'[c.mine.exch] = 0
      BY <1>1, <2>1, <2>2, <2>3, <2>7
    <3> QED
      BY <2>5, <2>7, <3>1 DEF StepInv, Exact
  <2>9. CopyInv(c.mine)'
    BY <1>0, <2>1, <2>5, <2>7, CopyStays
  <2>10. \A v \in Workers \ {w} : call[v].pc = "cancel" => call[v].mine.exch # c.mine.exch
    <3> SUFFICES ASSUME NEW v \in Workers, call[v].pc = "cancel" PROVE call[v].mine.exch # owner.client
      BY <2>2, <2>7
    <3>1. StepInv(call[v])
      BY CallFacts
    <3> QED
      BY <1>3, <3>1 DEF StepInv
  <2>11. local \in [Gens -> Rows]
    BY OwnerFacts DEF TypeOK
  <2> QED
    BY <1>0, <2>1, <2>2, <2>5, <2>7, <2>8, <2>9, <2>10, <2>11, OwnerStep
<1> QED
  BY <1>2, <1>3 DEF BeginCancellation, UpdateOwner

(* pending_exchange_id. *)
LEMMA PendingSteps ==
    ASSUME IInv, NEW w \in Workers, PendingExchangeId(w)
    PROVE  IInv'
<1> DEFINE o == call[w].mine
           g == o.client
<1>0. /\ call[w] \in Calls /\ StepInv(call[w]) /\ CopyInv(o) /\ o \in Owners
      /\ row \in Entries /\ killed \in BOOLEAN /\ owner \in Owners
  BY CallFacts
<1>1. /\ UNCHANGED <<row, local, exchangeVars>>
      /\ g # None /\ Answered(g) /\ call[w].target = remote[g].qty
  BY <1>0 DEF PendingExchangeId, At, StepInv
<1>2. CASE Raise(w) /\ UNCHANGED owner
  BY <1>0, <1>1, <1>2, QuietReturn DEF Raise
<1>3. CASE /\ owner.st = "PENDING_CONFIRMATION" /\ owner.client = g
           /\ owner' = [owner EXCEPT !.exch = g]
           /\ Goto(w, "verify") /\ UNCHANGED killed
  <2>1. UNCHANGED <<row, local, killed, entry, open, remote, cancels>>
    BY <1>1, <1>3 DEF exchangeVars
  <2>2. owner.client \in Gens /\ owner.client # None /\ Answered(owner.client)
    BY <1>1, <1>3, OwnerFacts
  <2>3. owner.qty \in 0..Qty /\ remote[owner.client].qty = owner.qty
    <3>1. OwnerInv
      BY OwnerFacts
    <3> QED
      BY <1>0, <2>2, <3>1 DEF OwnerInv, Answered, Owners
  <2>4. owner' = [owner EXCEPT !.st = "PENDING_CONFIRMATION", !.exch = owner.client, !.qty = owner.qty]
    BY <1>0, <1>3 DEF Owners
  <2>5. /\ OwnerInv' /\ owner' \in Owners /\ owner.gen <= owner'.gen
        /\ owner'.client = owner.client
    BY <1>3, <2>1, <2>2, <2>3, <2>4, NewStatus
  <2>6. "verify" \in Steps /\ "verify" \notin {"release", "size", "next", "list", "finish", "end cancel"}
    BY DEF Steps
  <2>7. PICK c \in Calls :
            /\ call' = [call EXCEPT ![w] = c] /\ c.pc = "verify"
            /\ c.mine = call[w].mine /\ c.target = call[w].target /\ c.said = "NONE"
    BY <1>3, <2>6, GoesOnKeeping
  <2>8. StepInv(c)'
    <3>1. c.mine.client # None /\ Answered(c.mine.client)' /\ c.target = remote'[c.mine.client].qty
      BY <1>1, <2>1, <2>7 DEF Answered
    <3> QED
      BY <2>7, <3>1 DEF StepInv, Exact, Answered
  <2>9. CopyInv(c.mine)'
    BY <1>0, <2>1, <2>5, <2>7, CopyStays
  <2>10. \A v \in Workers : call[v].pc # "post"
    BY <2>2, NobodyPosts DEF Answered
  <2>11. local \in [Gens -> Rows] /\ c.pc # "cancel"
    BY <2>7, OwnerFacts DEF TypeOK
  <2> QED
    BY <1>0, <1>3, <2>1, <2>5, <2>7, <2>8, <2>9, <2>10, <2>11, OwnerStep
<1> QED
  BY <1>2, <1>3 DEF PendingExchangeId, UpdateOwner

(* next_client_id takes a generation nobody has used. *)
LEMMA MintSteps ==
    ASSUME IInv, NEW w \in Workers, MintClientId(w)
    PROVE  IInv'
<1> DEFINE o == call[w].mine
           g == o.gen + 1
<1>0. /\ call[w] \in Calls /\ StepInv(call[w]) /\ CopyInv(o) /\ o \in Owners
      /\ row \in Entries /\ killed \in BOOLEAN /\ owner \in Owners /\ call[w].target \in 0..Qty
  BY CallFacts
<1>1. UNCHANGED <<row, local, exchangeVars>> /\ o.gen < MaxGen
  BY <1>0 DEF MintClientId, At, StepInv
<1>2. CASE Raise(w) /\ UNCHANGED owner
  BY <1>0, <1>1, <1>2, QuietReturn DEF Raise
<1>3. CASE /\ owner.st = "RESERVED" /\ owner.gen = o.gen /\ owner.client = None
           /\ owner' = [st |-> "PENDING_CONFIRMATION", gen |-> g, client |-> g, exch |-> None,
                        qty |-> call[w].target]
           /\ GotoWith(w, "post", [call[w] EXCEPT !.mine = owner']) /\ UNCHANGED killed
  <2>1. UNCHANGED <<row, local, killed, entry, open, remote, cancels>>
    BY <1>1, <1>3 DEF exchangeVars
  <2>2. g \in Gens /\ g \in 0..MaxGen /\ g > owner.gen /\ owner.gen \in 0..MaxGen /\ g # None
    <3>1. o.gen \in 0..MaxGen
      BY <1>0 DEF Owners
    <3> QED
      BY <1>1, <1>3, <3>1, MaxGenAssumption DEF Gens, None
  <2>3. OwnerInv /\ remote[g].st = "NONE" /\ cancels[g] = 0
    BY <2>2, OwnerFacts DEF OwnerInv
  <2> HIDE DEF g
  <2>4. /\ owner'.st = "PENDING_CONFIRMATION" /\ owner'.gen = g /\ owner'.client = g
        /\ owner'.exch = None /\ owner'.qty = call[w].target
    BY <1>3
  <2>5. owner' \in Owners
    <3>1. None \in 0..MaxGen /\ "PENDING_CONFIRMATION" \in OwnerStatuses
      BY MaxGenAssumption DEF None, OwnerStatuses
    <3> QED
      BY <1>0, <1>3, <2>2, <3>1 DEF Owners
  <2>6. OwnerInv'
    <3>1. \A h \in Gens : ~Live(h)
      BY <1>3, <2>3 DEF OwnerInv, Gens, None
    <3>2. \A h \in Gens : ~Live(h)'
      BY <2>1, <3>1 DEF Live
    <3>3. \A h \in Gens : h > owner'.gen => remote'[h].st = "NONE" /\ cancels'[h] = 0
      <4> SUFFICES ASSUME NEW h \in Gens, h > g PROVE remote[h].st = "NONE" /\ cancels[h] = 0
        BY <2>1, <2>4
      <4>1. h > owner.gen
        BY <2>2, MaxGenAssumption DEF Gens
      <4> QED
        BY <2>3, <4>1 DEF OwnerInv
    <3>4. \A h \in Gens : cancels'[h] <= 1
      BY <2>1, <2>3 DEF OwnerInv
    <3> QED
      BY <2>1, <2>2, <2>3, <2>4, <3>2, <3>3, <3>4 DEF OwnerInv, WellFormed
  <2>7. owner.gen <= owner'.gen /\ owner'.client > owner.gen
    BY <2>2, <2>4
  <2>8. PICK c \in Calls : /\ call' = [call EXCEPT ![w] = c] /\ c.pc = "post" /\ c.mine = owner'
                           /\ c.target = call[w].target /\ c.said = "NONE"
    <3>1. PICK x \in Calls : /\ x = [call[w] EXCEPT !.mine = owner']
                             /\ x.mine = owner' /\ x.target = call[w].target
      <4>1. PICK n \in Owners : n = owner'
        BY <2>5
      <4>2. PICK y \in Calls : y = call[w]
        BY <1>0
      <4>3. /\ [y EXCEPT !.mine = n] \in Calls /\ [y EXCEPT !.mine = n].mine = n
            /\ [y EXCEPT !.mine = n].target = y.target
        BY DEF Calls
      <4> QED
        BY <4>1, <4>2, <4>3
    <3>2. "post" \in Steps
      BY DEF Steps
    <3>3. Kept(x, "post") \in Calls
      BY <3>2, KeptCall
    <3>4. /\ Kept(x, "post").pc = "post" /\ Kept(x, "post").mine = x.mine
          /\ Kept(x, "post").target = x.target /\ Kept(x, "post").said = "NONE"
      BY <3>2, KeptSaid
    <3>5. call' = [call EXCEPT ![w] = Kept(x, "post")]
      BY <1>3, <3>1 DEF GotoWith
    <3> QED
      BY <3>1, <3>3, <3>4, <3>5
  <2>9. StepInv(c)'
    <3>1. remote'[owner'.client].st = "NONE"
      BY <2>1, <2>3, <2>4
    <3> QED
      BY <2>4, <2>8, <3>1 DEF StepInv, Exact
  <2>10. CopyInv(c.mine)'
    BY <2>2, <2>4, <2>6, <2>8 DEF CopyInv, OwnerInv, WellFormed
  <2>11. \A v \in Workers : call[v].pc # "post"
    BY <1>3, NobodyPosts
  <2>12. local \in [Gens -> Rows] /\ c.pc # "cancel"
    BY <2>8, OwnerFacts DEF TypeOK
  <2> QED
    BY <1>0, <2>1, <2>5, <2>6, <2>7, <2>8, <2>9, <2>10, <2>11, <2>12, OwnerStep
<1> QED
  BY <1>2, <1>3 DEF MintClientId

-----------------------------------------------------------------------------

(* The requests that change the exchange. *)
LEMMA PostSteps ==
    ASSUME IInv, NEW w \in Workers, PostStop(w)
    PROVE  IInv'
<1> DEFINE g == call[w].mine.client
           q == call[w].target
           V == Workers \ {w}
<1>0. /\ call[w] \in Calls /\ StepInv(call[w]) /\ row \in Entries /\ killed \in BOOLEAN
      /\ owner \in Owners /\ q \in 0..Qty /\ call[w].pc = "post" /\ CopyInv(owner)
  BY CallFacts DEF PostStop, At
<1>1. UNCHANGED <<owner, row, local, entry, open, cancels>>
  BY DEF PostStop
<1>2. /\ owner.st = "PENDING_CONFIRMATION" /\ owner.exch = None
      /\ g = owner.client /\ q = owner.qty /\ remote[g].st = "NONE" /\ call[w].mine = owner
  BY <1>0 DEF StepInv
<1>3. g \in Gens /\ g # None /\ g = owner.gen
  BY <1>0, <1>2, PostOwns, OwnerFacts DEF Gens, None
<1>4. PICK st \in {"NEW", "SENT"} :
          /\ remote' = [remote EXCEPT ![g] = [st |-> st, qty |-> q]]
          /\ IF st = "NEW" THEN Goto(w, "pending") /\ UNCHANGED killed ELSE Raise(w)
  BY DEF PostStop
<1> HIDE DEF g, q
<1>5. TypeOK /\ OwnerInv
  BY OwnerFacts
<1>6. /\ remote' \in [Gens -> [st : StopStatuses, qty : 0..Qty]]
      /\ remote'[g].st = st /\ remote'[g].qty = q
      /\ \A h \in Gens : h # g => remote'[h] = remote[h]
  <2>1. [st |-> st, qty |-> q] \in [st : StopStatuses, qty : 0..Qty]
    BY <1>0 DEF StopStatuses
  <2> QED
    BY <1>3, <1>4, <1>5, <2>1 DEF TypeOK
<1>7. \A h \in Gens : Answered(h) => Answered(h)' /\ remote'[h].qty = remote[h].qty
  BY <1>2, <1>6 DEF Answered
<1>8. \A h \in Gens : Over(h) => Over(h)'
  BY <1>2, <1>6 DEF Over
<1>9. OwnerInv'
  <2>1. \A h \in Gens : Live(h)' => owner'.client = h
    BY <1>1, <1>2, <1>5, <1>6 DEF OwnerInv, Live
  <2>2. \A h \in Gens : h > owner'.gen => remote'[h].st = "NONE" /\ cancels'[h] = 0
    <3> SUFFICES ASSUME NEW h \in Gens, h > owner.gen PROVE remote'[h].st = "NONE" /\ cancels[h] = 0
      BY <1>1
    <3>1. h # g
      BY <1>3 DEF Gens
    <3> QED
      BY <1>5, <1>6, <3>1 DEF OwnerInv
  <2>3. cancels[owner.client] = 0
    BY <1>2, <1>5 DEF OwnerInv
  <2> QED
    BY <1>1, <1>2, <1>3, <1>5, <1>6, <2>1, <2>2, <2>3 DEF OwnerInv, WellFormed
<1>10. \A v \in V : call[v].pc # "post"
  BY <1>0 DEF IInv, Inv, Exclusive
<1>11. ASSUME NEW c \in Calls, call' = [call EXCEPT ![w] = c], c.pc \notin {"post", "cancel"},
              CopyInv(c.mine)', StepInv(c)'
       PROVE  IInv'
  <2>1. call'[w] = c /\ \A v \in V : call'[v] = call[v]
    BY <1>5, <1>11 DEF TypeOK
  <2>2. CallInv(call[w])'
    BY ZenonT(60), <1>11, <2>1 DEF CallInv, CopyInv, WellFormed, Answered, StepInv, Over
  <2>3. /\ V \in SUBSET Workers /\ owner' \in Owners /\ owner.gen <= owner'.gen
        /\ owner'.client = owner.client /\ owner.st \in {"PENDING_CONFIRMATION", "ACTIVE"}
    BY <1>0, <1>1, <1>2 DEF Owners
  <2>4. \A v \in V : call[v].pc = "post" => owner' = owner /\ remote'[owner.client].st = "NONE"
    BY <1>10
  <2>5. \A v \in V : call[v].pc = "cancel" => cancels'[call[v].mine.exch] = cancels[call[v].mine.exch]
    BY <1>1
  <2> HIDE DEF V
  <2>6. \A v \in V : CallInv(call[v])'
    BY <1>7, <1>8, <2>1, <2>3, <2>4, <2>5, Others
  <2>7. killed' \in BOOLEAN
    BY <1>0, <1>4 DEF Raise
  <2> QED
    BY <1>1, <1>5, <1>6, <1>9, <1>11, <2>2, <2>6, <2>7, Combine DEF TypeOK, V
<1>12. CASE st = "SENT"
  <2>1. PICK c \in Calls : /\ call' = [call EXCEPT ![w] = c] /\ c.pc = "idle"
                           /\ CopyInv(c.mine)' /\ StepInv(c)'
    BY <1>0, <1>1, <1>4, <1>12, IdleAfter DEF Raise
  <2> QED
    BY <1>11, <2>1
<1>13. CASE st = "NEW"
  <2>1. "pending" \in Steps /\ "pending" \notin {"release", "size", "next", "list", "finish", "end cancel"}
    BY DEF Steps
  <2>2. PICK c \in Calls :
            /\ call' = [call EXCEPT ![w] = c] /\ c.pc = "pending"
            /\ c.mine = call[w].mine /\ c.target = call[w].target /\ c.said = "NONE"
    BY <1>4, <1>13, <2>1, GoesOnKeeping
  <2>3. StepInv(c)'
    <3>1. c.mine.client = g /\ c.target = q
      BY <2>2 DEF g, q
    <3>2. c.mine.client # None /\ Answered(c.mine.client)' /\ c.target = remote'[c.mine.client].qty
      BY <1>3, <1>6, <1>13, <3>1 DEF Answered
    <3> QED
      BY <2>2, <3>2 DEF StepInv, Exact, Answered
  <2>4. CopyInv(c.mine)'
    BY <1>0, <1>1, <1>2, <2>2 DEF CopyInv, WellFormed
  <2> QED
    BY <1>11, <2>2, <2>3, <2>4
<1> QED
  BY <1>12, <1>13

(* The cancel request: the only one of this stop. *)
LEMMA CancelSteps ==
    ASSUME IInv, NEW w \in Workers, SendCancel(w)
    PROVE  IInv'
<1> DEFINE g == call[w].mine.exch
           V == Workers \ {w}
<1>0. /\ call[w] \in Calls /\ StepInv(call[w]) /\ CopyInv(call[w].mine) /\ call[w].mine \in Owners
      /\ row \in Entries /\ killed \in BOOLEAN /\ owner \in Owners /\ call[w].pc = "cancel"
  BY CallFacts DEF SendCancel, At
<1>1. /\ UNCHANGED <<owner, row, local, entry, open>>
      /\ cancels' = [cancels EXCEPT ![g] = @ + 1]
  BY DEF SendCancel
<1>2. /\ remote' = remote \/ (remote[g].st = "NEW" /\ remote' = [remote EXCEPT ![g].st = "ENDED"])
      /\ (Goto(w, "check cancel") /\ UNCHANGED killed) \/ Raise(w)
  BY DEF SendCancel
<1>3. /\ g # None /\ cancels[g] = 0 /\ Answered(g)
      /\ owner.client = g => owner.st \notin {"PENDING_CONFIRMATION", "ACTIVE"}
  BY <1>0 DEF StepInv, Exact, CopyInv
<1>4. g \in Gens /\ ~(g > owner.gen)
  <2>1. g \in 0..MaxGen /\ call[w].mine.gen \in 0..MaxGen /\ owner.gen \in 0..MaxGen
    BY <1>0 DEF Owners
  <2>2. g = call[w].mine.gen /\ call[w].mine.gen <= owner.gen
    BY <1>0, <1>3 DEF CopyInv, WellFormed
  <2> QED
    BY <1>3, <2>1, <2>2, GensRange
<1>5. TypeOK /\ OwnerInv
  BY OwnerFacts
<1> HIDE DEF g
<1>6. /\ cancels' \in [Gens -> Nat] /\ cancels'[g] = 1
      /\ \A h \in Gens : h # g => cancels'[h] = cancels[h]
  BY <1>1, <1>3, <1>4, <1>5 DEF TypeOK
<1>7. /\ remote' \in [Gens -> [st : StopStatuses, qty : 0..Qty]]
      /\ \A h \in Gens : remote'[h].qty = remote[h].qty
      /\ \A h \in Gens : remote'[h].st = remote[h].st \/ (remote[h].st = "NEW" /\ remote'[h].st = "ENDED")
  <2>1. remote \in [Gens -> [st : StopStatuses, qty : 0..Qty]]
    BY <1>5 DEF TypeOK
  <2>2. CASE remote' = remote
    BY <2>1, <2>2
  <2>3. CASE remote[g].st = "NEW" /\ remote' = [remote EXCEPT ![g].st = "ENDED"]
    BY <1>4, <2>1, <2>3 DEF StopStatuses
  <2> QED
    BY <1>2, <2>2, <2>3
<1>8. \A h \in Gens : Answered(h) => Answered(h)' /\ remote'[h].qty = remote[h].qty
  BY <1>7 DEF Answered
<1>9. \A h \in Gens : Over(h) => Over(h)'
  BY <1>7 DEF Over
<1>10. OwnerInv'
  <2>1. \A h \in Gens : Live(h)' => owner'.client = h
    BY <1>1, <1>5, <1>7 DEF OwnerInv, Live
  <2>2. \A h \in Gens : h > owner'.gen => remote'[h].st = "NONE" /\ cancels'[h] = 0
    BY <1>1, <1>4, <1>5, <1>6, <1>7 DEF OwnerInv
  <2>3. owner.client # None => owner.client \in Gens /\ remote'[owner.client].qty = remote[owner.client].qty
    BY <1>7, OwnerFacts
  <2>4. owner.exch # None => Answered(owner.exch)'
    <3> SUFFICES ASSUME owner.exch # None PROVE Answered(owner.exch)'
      OBVIOUS
    <3>1. owner.exch \in Gens /\ Answered(owner.exch)
      BY <1>5, OwnerFacts, GensRange DEF OwnerInv
    <3> QED
      BY <1>1, <1>8, <3>1 DEF Answered
  <2>5. owner.client # None /\ remote'[owner.client].st # "NONE" => remote'[owner.client].qty = owner.qty
    BY <1>5, <1>7, <2>3 DEF OwnerInv
  <2>6. owner.st = "TERMINAL_CONFIRMED" => Over(owner.client)'
    <3> SUFFICES ASSUME owner.st = "TERMINAL_CONFIRMED" PROVE Over(owner.client)'
      OBVIOUS
    <3>1. owner.client # None /\ Over(owner.client)
      BY <1>5 DEF OwnerInv, WellFormed
    <3> QED
      BY <1>1, <1>9, <2>3, <3>1 DEF Over
  <2>7. owner.st \in {"PENDING_CONFIRMATION", "ACTIVE"} => cancels'[owner.client] = 0
    <3> SUFFICES ASSUME owner.st \in {"PENDING_CONFIRMATION", "ACTIVE"} PROVE cancels'[owner.client] = 0
      OBVIOUS
    <3>1. owner.client # None /\ owner.client # g /\ cancels[owner.client] = 0
      BY <1>3, <1>5 DEF OwnerInv, WellFormed
    <3> QED
      BY <1>6, <2>3, <3>1
  <2>8. \A h \in Gens : cancels'[h] <= 1
    BY <1>5, <1>6 DEF OwnerInv
  <2> QED
    BY <1>1, <1>5, <2>1, <2>2, <2>4, <2>5, <2>6, <2>7, <2>8 DEF OwnerInv, WellFormed
<1>11. \A v \in V : call[v].pc = "post" => owner' = owner /\ remote'[owner.client].st = "NONE"
  <2> SUFFICES ASSUME NEW v \in V, call[v].pc = "post" PROVE remote'[owner.client].st = "NONE"
    BY <1>1
  <2>1. owner.client \in Gens /\ remote[owner.client].st = "NONE"
    BY PostOwns
  <2> QED
    BY <1>7, <2>1
<1>12. \A v \in V : call[v].pc = "cancel" => cancels'[call[v].mine.exch] = cancels[call[v].mine.exch]
  <2> SUFFICES ASSUME NEW v \in V, call[v].pc = "cancel"
               PROVE  cancels'[call[v].mine.exch] = cancels[call[v].mine.exch]
    OBVIOUS
  <2>1. call[v].mine.exch # g
    BY <1>0 DEF IInv, Inv, Exclusive, g
  <2>2. StepInv(call[v]) /\ call[v].mine \in Owners
    BY CallFacts
  <2>3. call[v].mine.exch # None /\ call[v].mine.exch \in 0..MaxGen
    BY <2>2 DEF StepInv, Exact, Owners
  <2>4. call[v].mine.exch \in Gens
    BY <2>3, GensRange
  <2> QED
    BY <1>6, <2>1, <2>4
<1>13. ASSUME NEW c \in Calls, call' = [call EXCEPT ![w] = c], c.pc \notin {"post", "cancel"},
              CopyInv(c.mine)', StepInv(c)'
       PROVE  IInv'
  <2>1. call'[w] = c /\ \A v \in V : call'[v] = call[v]
    BY <1>5, <1>13 DEF TypeOK
  <2>2. CallInv(call[w])'
    BY ZenonT(60), <1>13, <2>1 DEF CallInv, CopyInv, WellFormed, Answered, StepInv, Over
  <2>3. V \in SUBSET Workers /\ owner' \in Owners /\ owner.gen <= owner'.gen
    BY <1>0, <1>1 DEF Owners
  <2>4. owner'.st \in {"PENDING_CONFIRMATION", "ACTIVE"} =>
            owner'.client = owner.client /\ owner.st \in {"PENDING_CONFIRMATION", "ACTIVE"}
    BY <1>1
  <2> HIDE DEF V
  <2>5. \A v \in V : CallInv(call[v])'
    BY <1>8, <1>9, <1>11, <1>12, <2>1, <2>3, <2>4, Others
  <2>6. killed' \in BOOLEAN
    BY <1>0, <1>2 DEF Raise
  <2> QED
    BY ZenonT(60), <1>1, <1>5, <1>6, <1>7, <1>10, <1>13, <2>2, <2>5, <2>6, Combine DEF TypeOK, V
<1>14. CASE Raise(w)
  <2>1. PICK c \in Calls : /\ call' = [call EXCEPT ![w] = c] /\ c.pc = "idle"
                           /\ CopyInv(c.mine)' /\ StepInv(c)'
    BY <1>0, <1>1, <1>14, IdleAfter DEF Raise
  <2> QED
    BY <1>13, <2>1
<1>15. CASE Goto(w, "check cancel")
  <2>1. /\ "check cancel" \in Steps
        /\ "check cancel" \notin {"release", "size", "next", "list", "finish", "end cancel"}
    BY DEF Steps
  <2>2. PICK c \in Calls :
            /\ call' = [call EXCEPT ![w] = c] /\ c.pc = "check cancel"
            /\ c.mine = call[w].mine /\ c.target = call[w].target /\ c.said = "NONE"
    BY <1>15, <2>1, GoesOnKeeping
  <2>3. c.mine.exch = g
    BY <2>2 DEF g
  <2>4. StepInv(c)'
    BY <1>3, <2>2, <2>3 DEF StepInv, Exact
  <2>5. CopyInv(c.mine)'
    BY <1>0, <1>1, <1>4, <1>8, <2>2, <2>3 DEF CopyInv, WellFormed
  <2> QED
    BY <1>13, <2>2, <2>4, <2>5
<1> QED
  BY <1>2, <1>14, <1>15

-----------------------------------------------------------------------------

(* The exchange moves by itself: a stop arrives, or is over. *)
LEMMA RemoteStep ==
    ASSUME IInv, NEW g \in Gens, NEW st \in {"NONE", "NEW", "ENDED", "FIRED"},
           remote' = [remote EXCEPT ![g].st = st],
           \/ remote[g].st = "SENT" /\ st \in {"NONE", "NEW"}
           \/ remote[g].st = "NEW" /\ st \in {"ENDED", "FIRED"},
           UNCHANGED <<owner, row, local, killed, cancels, call>>,
           entry' \in Entries, open' \in 0..Qty, EntryInv'
    PROVE  IInv'
<1>1. TypeOK /\ OwnerInv /\ CallsInv /\ Exclusive
  BY DEF IInv, Inv
<1>2. /\ remote' \in [Gens -> [st : StopStatuses, qty : 0..Qty]]
      /\ remote'[g].st = st /\ \A h \in Gens : remote'[h].qty = remote[h].qty
      /\ \A h \in Gens : h # g => remote'[h].st = remote[h].st
  BY <1>1 DEF TypeOK, StopStatuses
<1>3. TypeOK'
  BY <1>1, <1>2 DEF TypeOK
<1>4. owner.client = g
  BY <1>1 DEF OwnerInv, Live
<1>5. \A h \in Gens : Answered(h) => Answered(h)' /\ remote'[h].qty = remote[h].qty
  BY <1>2 DEF Answered
<1>6. \A h \in Gens : Over(h) => Over(h)'
  BY <1>2 DEF Over
<1>7. OwnerInv'
  <2>0. /\ owner.client # None => owner.client \in Gens /\ owner.client = owner.gen
        /\ owner.exch # None => owner.exch = owner.client
        /\ owner.gen \in 0..MaxGen
    BY OwnerFacts
  <2>1. \A h \in Gens : Live(h)' => owner'.client = h
    BY <1>1, <1>2, <1>4 DEF OwnerInv, Live
  <2>2. \A h \in Gens : h > owner'.gen => remote'[h].st = "NONE" /\ cancels'[h] = 0
    <3> SUFFICES ASSUME NEW h \in Gens, h > owner.gen PROVE remote'[h].st = "NONE" /\ cancels[h] = 0
      OBVIOUS
    <3>1. h # g
      <4>1. g # None
        BY DEF Gens, None
      <4>2. g = owner.gen
        BY <1>4, <2>0, <4>1
      <4> QED
        BY <2>0, <4>2
    <3> QED
      BY <1>1, <1>2, <3>1 DEF OwnerInv
  <2>3. owner.exch # None => Answered(owner.exch)'
    <3> SUFFICES ASSUME owner.exch # None PROVE Answered(owner.exch)'
      OBVIOUS
    <3>1. owner.exch \in Gens /\ Answered(owner.exch)
      BY <1>1, <1>4, <2>0 DEF OwnerInv
    <3> QED
      BY <1>5, <3>1 DEF Answered
  <2>4. owner.client # None /\ remote'[owner.client].st # "NONE" => remote'[owner.client].qty = owner.qty
    BY <1>1, <1>2, <1>4, <2>0 DEF OwnerInv
  <2>5. owner.st = "TERMINAL_CONFIRMED" => Over(owner.client)'
    BY <1>1, <1>4 DEF OwnerInv, Over
  <2> QED
    BY <1>1, <2>1, <2>2, <2>3, <2>4, <2>5 DEF OwnerInv, WellFormed
<1>8. CallsInv'
  <2>1. /\ owner' \in Owners /\ owner.gen <= owner'.gen
        /\ \A v \in Workers : call'[v] = call[v]
        /\ Workers \in SUBSET Workers
    BY <1>1 DEF TypeOK, Owners
  <2>2. owner'.st \in {"PENDING_CONFIRMATION", "ACTIVE"} =>
            owner'.client = owner.client /\ owner.st \in {"PENDING_CONFIRMATION", "ACTIVE"}
    OBVIOUS
  <2>3. \A v \in Workers : call[v].pc # "post"
    BY <1>4, NobodyPosts
  <2>4. \A v \in Workers : call[v].pc = "post" => owner' = owner /\ remote'[owner.client].st = "NONE"
    BY <2>3
  <2>5. \A v \in Workers : call[v].pc = "cancel" => cancels'[call[v].mine.exch] = cancels[call[v].mine.exch]
    OBVIOUS
  <2>6. \A v \in Workers : CallInv(call[v])'
    BY <1>5, <1>6, <2>1, <2>2, <2>4, <2>5, Others
  <2> QED
    BY <2>6 DEF CallsInv
<1>9. Exclusive'
  BY <1>1 DEF Exclusive
<1> QED
  BY <1>3, <1>7, <1>8, <1>9 DEF IInv, Inv

(* A step that changes neither the owner, nor a stop, nor what was         *)
(* cancelled, and after which every call is as before, or idle, or down.   *)
LEMMA CallsStep ==
    ASSUME IInv, UNCHANGED <<owner, row, local, killed, remote, cancels>>,
           entry' \in Entries, open' \in 0..Qty, EntryInv',
           \/ call' = call
           \/ \E s \in {"idle", "down"} : call' = [v \in Workers |-> [Idle EXCEPT !.pc = s]]
    PROVE  IInv'
<1>1. TypeOK /\ OwnerInv /\ CallsInv /\ Exclusive /\ owner.gen \in Nat
  BY OwnerFacts DEF IInv, Inv
<1>2. OwnerInv'
  BY <1>1 DEF OwnerInv, WellFormed, Live, Answered, Over
<1>3. CASE call' = call
  <2>1. TypeOK'
    BY <1>1, <1>3 DEF TypeOK
  <2>2. CallsInv'
    BY ZenonT(60), <1>1, <1>3 DEF CallsInv, CallInv, CopyInv, WellFormed, StepInv, Answered, Over
  <2>3. Exclusive'
    BY <1>1, <1>3 DEF Exclusive
  <2> QED
    BY <1>2, <2>1, <2>2, <2>3 DEF IInv, Inv
<1>4. CASE \E s \in {"idle", "down"} : call' = [v \in Workers |-> [Idle EXCEPT !.pc = s]]
  <2>1. PICK s \in {"idle", "down"} : call' = [v \in Workers |-> [Idle EXCEPT !.pc = s]]
    BY <1>4
  <2>2. PICK i \in Calls : i = [Idle EXCEPT !.pc = s] /\ CallInv(i) /\ i.pc = s
    <3>1. [Idle EXCEPT !.pc = s].pc = s
      BY DEF Idle
    <3> QED
      BY <1>1, <3>1, IdleCall
  <2>3. call' \in [Workers -> Calls] /\ \A v \in Workers : call'[v] = i
    BY <2>1, <2>2
  <2>4. TypeOK'
    BY <1>1, <2>3 DEF TypeOK
  <2>5. CallInv(i)'
    BY <2>2 DEF CallInv, CopyInv, WellFormed, StepInv, Answered, Over
  <2>6. CallsInv'
    BY ZenonT(60), <2>3, <2>5 DEF CallsInv, CallInv, CopyInv, WellFormed, StepInv, Answered, Over
  <2>7. Exclusive'
    BY <2>2, <2>3 DEF Exclusive
  <2> QED
    BY <1>2, <2>4, <2>6, <2>7 DEF IInv, Inv
<1> QED
  BY <1>3, <1>4

(* What the exchange does by itself. *)
LEMMA ExchangeSteps ==
    ASSUME IInv, Exchange
    PROVE  IInv'
<1>0. /\ entry \in Entries /\ open \in 0..Qty /\ EntryInv /\ entry.filled \in 0..Qty
      /\ entry.done \in BOOLEAN
  BY DEF IInv, Inv, TypeOK, Entries
<1>1. CASE EntryFills
  <2>1. entry.filled < Qty /\ open <= entry.filled
    BY <1>0, <1>1 DEF EntryFills, EntryInv
  <2>2. entry' = [filled |-> entry.filled + 1, done |-> entry.filled + 1 = Qty] /\ open' = open + 1
    BY <1>1 DEF EntryFills
  <2>3. entry.filled + 1 \in 0..Qty /\ open' \in 0..Qty /\ open' <= entry.filled + 1
    BY <1>0, <2>1, <2>2, QtyAssumption
  <2>4. entry' \in Entries
    BY <2>2, <2>3 DEF Entries
  <2>5. EntryInv'
    <3>1. entry'.filled = entry.filled + 1 /\ (entry'.done <=> entry.filled + 1 = Qty)
      BY <2>2
    <3>2. entry.filled + 1 # Qty => entry.filled + 1 < Qty
      BY <1>0, <2>1, QtyAssumption
    <3> QED
      BY <2>3, <3>1, <3>2 DEF EntryInv
  <2> QED
    BY <1>1, <2>3, <2>4, <2>5, CallsStep DEF EntryFills, dbVars
<1>2. CASE EntryEnds
  <2>1. entry' = [entry EXCEPT !.done = TRUE] /\ open' = open
    BY <1>2 DEF EntryEnds
  <2>2. entry' \in Entries /\ entry'.done /\ entry'.filled = entry.filled
    BY <1>0, <2>1 DEF Entries
  <2>3. EntryInv'
    BY <1>0, <2>1, <2>2 DEF EntryInv
  <2> QED
    BY <1>0, <1>2, <2>1, <2>2, <2>3, CallsStep DEF EntryEnds, dbVars
<1>3. CASE PositionCloses
  <2>1. open' = 0 /\ entry' = entry
    BY <1>3 DEF PositionCloses
  <2>2. open' \in 0..Qty /\ entry' \in Entries /\ EntryInv'
    BY <1>0, <2>1, QtyAssumption DEF EntryInv
  <2> QED
    BY <1>3, <2>2, CallsStep DEF PositionCloses, dbVars
<1>4. ASSUME NEW g \in Gens, StopArrives(g) PROVE IInv'
  <2>1. PICK st \in {"NEW", "NONE"} : remote' = [remote EXCEPT ![g].st = st]
    BY <1>4 DEF StopArrives
  <2>2. entry' \in Entries /\ open' \in 0..Qty /\ EntryInv'
    BY <1>0, <1>4 DEF StopArrives, EntryInv
  <2> QED
    BY <1>4, <2>1, <2>2, RemoteStep DEF StopArrives, dbVars
<1>5. ASSUME NEW g \in Gens, StopEnds(g) PROVE IInv'
  <2>1. entry' \in Entries /\ open' \in 0..Qty /\ EntryInv'
    BY <1>0, <1>5 DEF StopEnds, EntryInv
  <2> QED
    BY <1>5, <2>1, RemoteStep DEF StopEnds, dbVars
<1>6. ASSUME NEW g \in Gens, StopFires(g) PROVE IInv'
  <2>1. remote[g].qty \in 0..Qty
    BY DEF IInv, TypeOK
  <2>2. open' = open - Least(open, remote[g].qty) /\ entry' = entry
    BY <1>6 DEF StopFires
  <2>3. open' \in 0..Qty /\ open' <= open
    BY <1>0, <2>1, <2>2, QtyAssumption DEF Least
  <2>4. EntryInv'
    <3>1. open' <= entry.filled
      BY <1>0, <2>3, QtyAssumption DEF EntryInv
    <3> QED
      BY <1>0, <2>2, <3>1 DEF EntryInv
  <2>5. entry' \in Entries
    BY <1>0, <2>2
  <2> QED
    BY <1>6, <2>3, <2>4, <2>5, RemoteStep DEF StopFires, dbVars
<1> QED
  BY <1>1, <1>2, <1>3, <1>4, <1>5, <1>6 DEF Exchange

(* Every step of every worker and of the exchange keeps the invariant. *)
LEMMA NextInv == IInv /\ [Next]_vars => IInv'
<1> SUFFICES ASSUME IInv, [Next]_vars PROVE IInv'
  OBVIOUS
<1>0. entry \in Entries /\ open \in 0..Qty /\ EntryInv
  BY DEF IInv, Inv, TypeOK
<1>1. ASSUME NEW w \in Workers, Reconcile(w) PROVE IInv'
  BY <1>1, QuietSteps, JudgingSteps, ClearSteps, ReleaseSteps, ConfirmSteps, RecordSteps
     DEF Reconcile, ClearConfirmed, ClearCanceled
<1>2. ASSUME NEW w \in Workers, Cancel(w) PROVE IInv'
  BY <1>2, BeginSteps, CancelSteps, JudgingSteps, ConfirmSteps, ClearSteps DEF Cancel, VacateStop
<1>3. ASSUME NEW w \in Workers, Place(w) PROVE IInv'
  BY <1>3, QuietSteps, MintSteps, PostSteps, PendingSteps, RecordSteps DEF Place
<1>4. ASSUME NEW w \in Workers, RequestFails(w) PROVE IInv'
  BY <1>4, QuietSteps
<1>5. CASE Crash
  <2>1. EntryInv'
    BY <1>0, <1>5 DEF Crash, exchangeVars, EntryInv
  <2> QED
    BY <1>0, <1>5, <2>1, CallsStep DEF Crash, dbVars, exchangeVars
<1>6. CASE Restart
  <2>1. EntryInv'
    BY <1>0, <1>6 DEF Restart, exchangeVars, EntryInv
  <2>2. Idle = [Idle EXCEPT !.pc = "idle"]
    BY DEF Idle
  <2> QED
    BY <1>0, <1>6, <2>1, <2>2, CallsStep DEF Restart, dbVars, exchangeVars
<1>7. CASE UNCHANGED vars
  <2>1. EntryInv'
    BY <1>0, <1>7 DEF vars, EntryInv
  <2> QED
    BY <1>0, <1>7, <2>1, CallsStep DEF vars
<1> QED
  BY <1>1, <1>2, <1>3, <1>4, <1>5, <1>6, <1>7, ExchangeSteps DEF Next

(* The inductive invariant holds in every behaviour. *)
THEOREM Invariance == Spec => []IInv
<1>1. Init => IInv
  BY InitInv
<1>2. IInv /\ [Next]_vars => IInv'
  BY NextInv
<1> QED
  BY <1>1, <1>2, PTL DEF Spec

(* Every variable of the reconciliation keeps its type, whatever the       *)
(* number of workers, the quantity and the number of stops tried.          *)
THEOREM TypeCorrect == Spec => []TypeOK
<1>1. IInv => TypeOK
  BY DEF IInv
<1> QED
  BY <1>1, Invariance, PTL

(* The exchange never holds, and is never about to receive, a protective   *)
(* order that the owner row does not name: _place_protective_stop,         *)
(* _cancel_protective_stop and release_flat never lose one, however        *)
(* reconciliations, lost answers and crashes interleave.                   *)
THEOREM StopOwnership == Spec => []LiveStopIsOwned
<1>1. IInv => LiveStopIsOwned
  BY DEF IInv, Inv, OwnerInv, LiveStopIsOwned
<1> QED
  BY <1>1, Invariance, PTL

(* An owner that says ACTIVE names a stop the exchange accepted with the   *)
(* quantity the row says: record_stop runs only after an exact query.      *)
THEOREM ActiveMeansInstalled == Spec => []ActiveWasInstalled
<1>1. IInv => ActiveWasInstalled
  <2> SUFFICES ASSUME IInv, owner.st = "ACTIVE"
               PROVE  /\ owner.exch = owner.client
                      /\ remote[owner.client].st \notin {"NONE", "SENT"}
                      /\ remote[owner.client].qty = owner.qty
    BY DEF ActiveWasInstalled
  <2>1. OwnerInv
    BY DEF IInv, Inv
  <2>2. owner.exch # None /\ owner.client # None /\ owner.exch = owner.client
    BY <2>1 DEF OwnerInv, WellFormed
  <2> QED
    BY <2>1, <2>2 DEF OwnerInv, Answered
<1> QED
  BY <1>1, Invariance, PTL

(* No protective order is cancelled twice: begin_cancellation is durable   *)
(* before the request, and a restart never repeats it.                     *)
THEOREM AtMostOneCancel == Spec => []CanceledOnce
<1>1. IInv => CanceledOnce
  BY DEF IInv, Inv, OwnerInv, CanceledOnce
<1> QED
  BY <1>1, Invariance, PTL

=============================================================================
