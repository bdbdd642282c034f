------------------------- MODULE NatsMailboxProofs -------------------------
(***************************************************************************)
(* Proofs about NatsMailbox, for any dispatches, any number of concurrent  *)
(* calls, and any bounds.                                                  *)
(*                                                                         *)
(* The inductive invariant says of every call what it may rely on: as long *)
(* as its compare-and-set would succeed, the record is what the call has   *)
(* read; a token it wants to write, or has given up, is nobody else's; a   *)
(* key it is about to delete protects nothing any more; and what an        *)
(* interrupt has not met yet, it still has to look at.                     *)
(***************************************************************************)
EXTENDS NatsMailbox, TLAPS

\* The steps a call has left after its write.
Todos == {<<>>, <<"release", "unlock", "unindex">>, <<"unlock", "unindex">>,
          <<"unindex">>, <<"release">>, <<"unlock">>, <<"unindex", "unlock">>}

Releasing == {<<"release", "unlock", "unindex">>, <<"release">>}
Unlocking == {<<"release", "unlock", "unindex">>, <<"unlock", "unindex">>, <<"unlock">>,
              <<"unindex", "unlock">>}
Unindexing == {<<"release", "unlock", "unindex">>, <<"unlock", "unindex">>, <<"unindex">>,
               <<"unindex", "unlock">>}

Steps == {"idle", "lock", "holder", "purge", "index", "put", "guard", "claim", "stale",
          "settle", "extend", "renew", "reclaim", "cancel", "after",
          "list", "scan", "look", "each", "supersede"}

CallRecord ==
    [pc : Steps, d : Dispatch \cup {None},
     kind : Kind \cup {"none", "enqueue", "claim", "stale", "renew", "reclaim", "cancel",
                       "after", "interrupt"},
     fresh : BOOLEAN, token : Nat, epoch : Nat, todo : Todos,
     other : Dispatch \cup {None}, ids : SUBSET Dispatch, queued : SUBSET Dispatch,
     claimed : SUBSET Dispatch, met : SUBSET Dispatch, active : Dispatch \cup {None}]

NatsTypes ==
    /\ records \in [Dispatch -> DispatchRecord]
    /\ epoch \in Nat /\ fence \in Nat /\ tokens \in Nat /\ crashes \in Nat
    /\ guard \in [holder : Dispatch \cup {None}, token : Nat,
                  lease : {"live", "lapsed", "released"}]
    /\ lock \in Keyed \cup {None} /\ index \subseteq Dispatch
    /\ known \subseteq Dispatch /\ overtaken \subseteq Dispatch
    /\ call \in [Call -> CallRecord]

\* What a record may be, for itself.
RecordInv ==
    \A d \in Dispatch :
        /\ ValidForPersist(records[d])
        /\ StatusOf(d) \in Stored \cup {"Absent"}
        /\ StatusOf(d) = "Absent" =>
              records[d].token = NoToken /\ records[d].lease = "none" /\ records[d].epoch = 0
        /\ records[d].token <= tokens
        /\ records[d].attempts < MaxAttempts \/ StatusOf(d) \in Terminal

\* Where call p is when it stands as c, and what it works on.
StepOK(p, c) ==
    /\ c.pc \in {"lock", "holder", "purge", "index", "put"} => c.kind = "enqueue"
    /\ c.kind = "enqueue" =>
          /\ c.d \in Dispatch /\ StatusOf(c.d) = "Absent"
          /\ c.pc \in {"lock", "holder", "purge", "index", "put", "after"}
          /\ c.pc = "after" => c.todo = <<"unlock">>
          /\ \A q \in Call \ {p} : ~(call[q].kind = "enqueue" /\ call[q].d = c.d)
    /\ c.pc \in {"lock", "holder", "purge"} => c.d \in Keyed
    /\ c.pc \in {"holder", "purge"} => c.other \in Keyed
    /\ c.pc \in {"guard", "claim"} => c.kind = "claim"
    /\ c.pc \in {"guard", "claim", "stale", "settle", "extend", "renew", "reclaim",
                 "cancel", "supersede", "after"} => c.d \in Dispatch
    /\ c.pc = "settle" => c.kind \in Kind
    /\ c.pc = "after" => c.todo # <<>>
    /\ c.pc \in {"list", "scan", "look", "each", "supersede"} => c.kind = "interrupt"
    /\ c.kind = "interrupt" =>
          /\ c.pc \in {"list", "scan", "look", "each", "supersede", "after"}
          /\ c.todo \notin Releasing
    /\ c.pc = "look" => c.other \in Dispatch

\* As long as nobody else has written the record, it is what the call has read.
FreshOK(c) ==
    c.fresh =>
        /\ c.pc \in {"guard", "claim", "cancel", "supersede"} => StatusOf(c.d) = "Queued"
        /\ c.pc \in {"settle", "extend", "renew", "reclaim"} =>
              StatusOf(c.d) = "Claimed" /\ records[c.d].token = c.token
        /\ c.pc = "stale" => StatusOf(c.d) \in Active /\ records[c.d].token = c.token

\* Tokens: no two records have the same, one that is to be written is nobody's,
\* and one that was given back is not used again.
Claiming(p, t) == At(p, "claim") /\ call[p].token = t

Unused(c) == c.pc = "claim" \/ (c.pc = "after" /\ c.todo \in Releasing)

TokenOK(p, c) ==
    /\ Unused(c) =>
          /\ c.token # NoToken /\ c.token <= tokens
          /\ \A d \in Dispatch : records[d].token # c.token
          /\ \A q \in Call \ {p} : ~Claiming(q, c.token)
    /\ c.pc \in {"claim", "extend", "renew"} =>
          /\ c.token <= tokens
          /\ guard.token = c.token => guard.holder = c.d

GuardInv == guard.lease = "live" => guard.holder \in Dispatch

TokenInv ==
    /\ guard.token <= tokens
    /\ \A d, e \in Dispatch :
          records[d].token = records[e].token /\ records[d].token # NoToken => d = e
    /\ \A d \in Dispatch :
          records[d].token # NoToken /\ guard.token = records[d].token => guard.holder = d

\* The dedupe lock protects a dispatch that is current and unfinished, and an
\* enqueue that goes on, unless it was overtaken.
Protects(d) ==
    /\ d \notin overtaken
    /\ \/ StatusOf(d) \in Active /\ ~IsStale(d)
       \/ UnderWay(d)

LockOK(c) ==
    /\ c.pc \in {"holder", "purge"} /\ c.fresh => lock = c.other
    /\ c.pc = "purge" /\ c.fresh => ~Protects(c.other)
    /\ c.pc = "after" /\ c.todo \in Unlocking =>
          \/ StatusOf(c.d) \in Terminal \/ c.kind = "enqueue"
          \/ StatusOf(c.d) # "Absent" /\ c.d \in overtaken

LockInv == \A d \in Keyed : Protects(d) => lock = d

IndexOK(c) ==
    /\ c.pc = "put" => c.d \in index
    /\ c.pc = "after" /\ c.todo \in Unindexing => StatusOf(c.d) \in Terminal

\* A claim that is under way, and whose write would succeed.
ClaimUnderWay(d) ==
    \E p \in Call : call[p].pc \in {"guard", "claim"} /\ call[p].fresh /\ Of(p) = d

\* The present claim of d can be alive.
MayLive(d) == StatusOf(d) = "Claimed" /\ guard.token = records[d].token

\* What an interrupt that stands as c still has to look at.
Ahead(c, d) ==
    \/ d \in c.ids \cup c.queued
    \/ c.pc = "supersede" /\ c.d = d

Past(c) == c.pc \in {"scan", "look", "each", "supersede", "after"}

\* Dispatches that an interrupt of that epoch has to fence.
Older(d, now) == records[d].epoch < now /\ StatusOf(d) \notin Terminal

InterruptOK(c) ==
    c.kind = "interrupt" =>
        /\ c.epoch <= epoch /\ c.claimed \subseteq c.met
        /\ c.pc \in {"scan", "look"} => c.claimed = c.met
        /\ c.ids \cap c.queued = {}
        /\ c.pc = "list" => c.queued = {} /\ c.met = {}
        /\ c.pc \in {"list", "scan"} => c.other = None
        /\ c.pc \in {"look", "each", "supersede", "after"} => c.ids = {}
        /\ Past(c) => \A d \in Dispatch : Older(d, c.epoch) =>
              /\ ClaimUnderWay(d) => Ahead(c, d)
              /\ StatusOf(d) = "Claimed" => Ahead(c, d) \/ d \in c.met
              /\ ~(Ahead(c, d) /\ d \in c.met)
              /\ d \in c.met \ c.claimed /\ MayLive(d) => c.active \in c.met
              /\ c.pc # "scan" /\ d \in c.claimed /\ c.other \notin {None, d} => ~MayLive(d)

FenceInv ==
    /\ fence <= epoch
    /\ \A d \in Dispatch : Older(d, fence) =>
          ~ClaimUnderWay(d) /\ (MayLive(d) => d \in known)

CallOK(p, c) ==
    /\ StepOK(p, c) /\ FreshOK(c) /\ TokenOK(p, c) /\ LockOK(c) /\ IndexOK(c)
    /\ InterruptOK(c)

CallInv == \A p \in Call : CallOK(p, call[p])

NatsIInv ==
    /\ NatsTypes /\ RecordInv /\ CallInv /\ GuardInv /\ TokenInv
    /\ OneLiveClaim /\ LockInv /\ IndexCoversActive /\ FenceInv

USE NatsAssumption, MaxAttemptsAssumption

-----------------------------------------------------------------------------
(* Steps that leave the records as they are.                               *)

Unmoved(q) ==
    \/ call'[q] = call[q]
    \/ call'[q] = [call[q] EXCEPT !.fresh = FALSE]

\* Another call is what it was, except that it may not be fresh any more.
LEMMA OthersKeep ==
    ASSUME NatsTypes, NEW q \in Call, Unmoved(q)
    PROVE  /\ call'[q] \in CallRecord
           /\ call'[q].pc = call[q].pc /\ call'[q].d = call[q].d
           /\ call'[q].kind = call[q].kind /\ call'[q].token = call[q].token
           /\ call'[q].epoch = call[q].epoch /\ call'[q].todo = call[q].todo
           /\ call'[q].other = call[q].other /\ call'[q].ids = call[q].ids
           /\ call'[q].queued = call[q].queued /\ call'[q].claimed = call[q].claimed
           /\ call'[q].met = call[q].met /\ call'[q].active = call[q].active
           /\ call'[q].fresh => call[q].fresh
<1>1. call[q] \in CallRecord BY DEF NatsTypes
<1>2. CASE call'[q] = call[q]
  BY <1>1, <1>2
<1>3. CASE call'[q] = [call[q] EXCEPT !.fresh = FALSE]
  <2>1. call'[q] \in CallRecord
    BY <1>1, <1>3, Zenon DEF CallRecord
  <2> QED BY <1>1, <1>3, <2>1 DEF CallRecord
<1> QED BY <1>2, <1>3 DEF Unmoved

\* A call that goes on as c.  It may also have changed the lease of the guard,
\* the lock, the index, or what is known of interrupts.
LEMMA ThreadStep ==
    ASSUME NatsIInv, NEW p \in Call, NEW c \in CallRecord,
           call' = [q \in Call |-> call'[q]], call'[p] = c,
           \A q \in Call \ {p} : Unmoved(q),
           UNCHANGED <<records, epoch, tokens>>, crashes' \in Nat,
           \/ UNCHANGED <<fence, known>>
           \/ fence' \in Nat /\ known' \subseteq Dispatch /\ FenceInv',
           \/ UNCHANGED guard
           \/ /\ \E lease \in {"live", "lapsed", "released"} :
                    guard' = [guard EXCEPT !.lease = lease]
              /\ OneLiveClaim' /\ GuardInv',
           overtaken' \subseteq Dispatch,
           \A e \in overtaken : e \in overtaken' \/ (c.pc = "index" /\ c.d = e),
           lock' \in Keyed \cup {None},
           \/ /\ UNCHANGED lock
              /\ c.pc \in {"index", "put"} =>
                    Protects(c.d) \/ c.d \notin Keyed \/ c.d \in overtaken'
           \/ /\ c.pc \notin {"holder", "purge"}
              /\ \A q \in Call \ {p} : call[q].pc \in {"holder", "purge"} => ~call'[q].fresh,
           \A e \in Keyed \ overtaken' :
              Protects(e) \/ (c.pc \in {"index", "put"} /\ c.d = e) => lock' = e,
           index' \subseteq Dispatch,
           \A e \in index : StatusOf(e) \notin Terminal => e \in index',
           StepOK(p, c), FreshOK(c), TokenOK(p, c), LockOK(c) \/ LockOK(c)', IndexOK(c)',
           InterruptOK(c), c.pc # "claim",
           c.pc = "guard" /\ c.fresh => records[c.d].epoch >= epoch
    PROVE  NatsIInv'
<1>1. /\ call' \in [Call -> CallRecord]
      /\ \A q \in Call \ {p} :
            /\ call'[q] \in CallRecord
            /\ call'[q].pc = call[q].pc /\ call'[q].d = call[q].d
            /\ call'[q].kind = call[q].kind /\ call'[q].token = call[q].token
            /\ call'[q].epoch = call[q].epoch /\ call'[q].todo = call[q].todo
            /\ call'[q].other = call[q].other /\ call'[q].ids = call[q].ids
            /\ call'[q].queued = call[q].queued /\ call'[q].claimed = call[q].claimed
            /\ call'[q].met = call[q].met /\ call'[q].active = call[q].active
            /\ call'[q].fresh => call[q].fresh
  BY OthersKeep DEF NatsIInv
<1>2. /\ guard'.holder = guard.holder /\ guard'.token = guard.token
      /\ guard' \in [holder : Dispatch \cup {None}, token : Nat,
                     lease : {"live", "lapsed", "released"}]
      /\ OneLiveClaim' /\ GuardInv'
  <2>1. guard \in [holder : Dispatch \cup {None}, token : Nat,
                   lease : {"live", "lapsed", "released"}]
    BY DEF NatsIInv, NatsTypes
  <2>2. CASE UNCHANGED guard
    BY <2>1, <2>2 DEF NatsIInv, OneLiveClaim, LiveClaim, StatusOf, GuardInv
  <2>3. CASE /\ \E lease \in {"live", "lapsed", "released"} :
                    guard' = [guard EXCEPT !.lease = lease]
             /\ OneLiveClaim' /\ GuardInv'
    BY <2>1, <2>3, Zenon
  <2> QED BY <2>2, <2>3
<1>3. /\ NatsTypes' /\ RecordInv' /\ TokenInv'
  BY <1>1, <1>2 DEF NatsIInv, NatsTypes, RecordInv, TokenInv, StatusOf, FenceInv
<1>4. IndexCoversActive'
  BY DEF NatsIInv, IndexCoversActive, StatusOf, Active, Terminal
<1>5. ASSUME NEW d \in Keyed, Protects(d)'
      PROVE  /\ d \notin overtaken'
             /\ Protects(d) \/ (c.pc \in {"index", "put"} /\ c.d = d)
  BY <1>1, <1>5, SMT DEF Protects, UnderWay, StatusOf, IsStale, Of
<1>6. LockInv'
  BY <1>5 DEF LockInv
<1>7. ASSUME NEW d \in Dispatch, ClaimUnderWay(d)'
      PROVE  ClaimUnderWay(d) \/ records[d].epoch >= epoch
  BY <1>1, <1>7, SMT DEF ClaimUnderWay, Of
<1>8. FenceInv'
  BY <1>2, <1>7, SMT
     DEF NatsIInv, NatsTypes, FenceInv, MayLive, Older, StatusOf, DispatchRecord
<1>9. /\ StepOK(p, c)' /\ FreshOK(c)' /\ TokenOK(p, c)'
  BY <1>1, <1>2, SMT DEF StepOK, FreshOK, TokenOK, Claiming, At, StatusOf
<1>10. LockOK(c)'
  <2> SUFFICES ASSUME LockOK(c) PROVE LockOK(c)'
    OBVIOUS
  <2>1. StatusOf(c.d) # "Absent" /\ c.d \in overtaken /\ c.pc = "after" => c.d \in overtaken'
    OBVIOUS
  <2>2. CASE UNCHANGED lock
    BY <1>1, <1>5, <2>1, <2>2, SMT DEF LockOK, StepOK, StatusOf
  <2>3. CASE c.pc \notin {"holder", "purge"}
    BY <2>1, <2>3 DEF LockOK, StatusOf
  <2> QED BY <2>2, <2>3
<1>11. ASSUME NEW x, InterruptOK(x), NEW y \in CallRecord,
              y.epoch = x.epoch, y.claimed = x.claimed, y.met = x.met, y.pc = x.pc,
              y.kind = x.kind, y.ids = x.ids, y.queued = x.queued, y.d = x.d,
              y.other = x.other, y.active = x.active
       PROVE  InterruptOK(y)'
  <2>1. \A d \in Dispatch : Ahead(y, d)' <=> Ahead(x, d)
    BY <1>11 DEF Ahead
  <2>2. Past(y)' <=> Past(x)
    BY <1>11 DEF Past
  <2>3. ASSUME NEW d \in Dispatch, Older(d, y.epoch)', y.epoch <= epoch, ClaimUnderWay(d)'
        PROVE  ClaimUnderWay(d)
    BY <1>7, <2>3, SMT DEF NatsIInv, NatsTypes, Older, DispatchRecord, CallRecord
  <2> QED BY <1>2, <1>11, <2>1, <2>2, <2>3, SMT DEF InterruptOK, StatusOf, Older, MayLive
<1>12. CallOK(p, c)'
  BY <1>9, <1>10, <1>11 DEF CallOK
<1>13. ASSUME NEW q \in Call \ {p}
       PROVE  CallOK(q, call[q])'
  <2>1. CallOK(q, call[q])
    BY DEF NatsIInv, CallInv
  <2>2. StepOK(q, call[q])'
    BY <1>1, <2>1, SMT DEF CallOK, StepOK, StatusOf
  <2>3. FreshOK(call[q])'
    BY <1>1, <2>1 DEF CallOK, FreshOK, StatusOf
  <2>4. TokenOK(q, call[q])'
    BY <1>1, <1>2, <2>1, SMT DEF CallOK, TokenOK, Unused, Claiming, At
  <2>5. LockOK(call[q])'
    <3>0. StatusOf(call[q].d) # "Absent" /\ call[q].d \in overtaken => call[q].d \in overtaken'
      BY DEF StepOK
    <3>1. CASE /\ UNCHANGED lock
               /\ c.pc \in {"index", "put"} =>
                     Protects(c.d) \/ c.d \notin Keyed \/ c.d \in overtaken'
      <4>1. call[q].pc = "purge" /\ call'[q].fresh => ~Protects(call[q].other)'
        BY <1>1, <1>5, <2>1, <3>1, SMT DEF CallOK, LockOK, StepOK
      <4> QED BY <1>1, <2>1, <3>0, <3>1, <4>1 DEF CallOK, LockOK, StatusOf
    <3>2. CASE call[q].pc \in {"holder", "purge"} => ~call'[q].fresh
      BY <1>1, <2>1, <3>0, <3>2 DEF CallOK, LockOK, StatusOf
    <3> QED BY <3>1, <3>2
  <2>6. IndexOK(call[q])'
    <3>1. call[q].pc = "put" => call[q].d \in index'
      <4>1. call[q].pc = "put" => call[q].d \in index /\ StatusOf(call[q].d) = "Absent"
        BY <2>1 DEF CallOK, StepOK, IndexOK
      <4> QED BY <4>1 DEF Terminal
    <3> QED BY <1>1, <2>1, <3>1 DEF CallOK, IndexOK, StatusOf
  <2>7. InterruptOK(call[q])'
    BY <1>1, <1>11, <2>1 DEF CallOK
  <2> QED BY <2>2, <2>3, <2>4, <2>5, <2>6, <2>7 DEF CallOK
<1> QED BY <1>1, <1>2, <1>3, <1>4, <1>6, <1>8, <1>12, <1>13 DEF NatsIInv, CallInv

\* A call that goes on, and changes nothing but what it, or an interrupt, knows.
LEMMA CallStep ==
    ASSUME NatsIInv, NEW p \in Call, NEW c \in CallRecord, Becomes(p, c),
           UNCHANGED <<records, epoch, guard, lock, index, tokens, overtaken>>,
           crashes' \in Nat,
           \/ UNCHANGED <<fence, known>>
           \/ fence' \in Nat /\ known' \subseteq Dispatch /\ FenceInv',
           CallOK(p, c),
           c.pc # "claim",
           c.pc = "guard" /\ c.fresh => records[c.d].epoch >= epoch,
           c.pc \in {"index", "put"} => Protects(c.d) \/ c.d \notin Keyed
    PROVE  NatsIInv'
<1>1. /\ call'[p] = c
      /\ \A q \in Call \ {p} : Unmoved(q)
      /\ call' = [q \in Call |-> call'[q]]
  BY DEF NatsIInv, NatsTypes, Becomes, Unmoved
<1>2. lock' \in Keyed \cup {None} /\ index' \subseteq Dispatch /\ overtaken' \subseteq Dispatch
  BY DEF NatsIInv, NatsTypes
<1>3. \A e \in Keyed : Protects(e) \/ (c.pc \in {"index", "put"} /\ c.d = e) => lock' = e
  BY DEF NatsIInv, LockInv
<1>4. IndexOK(c)'
  BY DEF CallOK, IndexOK, StatusOf
<1> QED BY <1>1, <1>2, <1>3, <1>4, ThreadStep DEF CallOK

LEMMA IdleOK ==
    ASSUME NatsIInv, NEW p \in Call
    PROVE  Idle \in CallRecord /\ CallOK(p, Idle) /\ CallOK(p, Idle)'
<1>1. Idle \in CallRecord
  BY Zenon DEF Idle, CallRecord, Steps, Todos, NoToken
<1>2. Idle.pc = "idle" /\ Idle.kind = "none" /\ ~Idle.fresh
  BY DEF Idle
<1>3. StepOK(p, Idle) /\ StepOK(p, Idle)'
  BY <1>2 DEF StepOK
<1>4. FreshOK(Idle) /\ FreshOK(Idle)' /\ InterruptOK(Idle) /\ InterruptOK(Idle)'
  BY <1>2 DEF FreshOK, InterruptOK
<1>5. TokenOK(p, Idle) /\ TokenOK(p, Idle)'
  BY <1>2 DEF TokenOK, Unused
<1>6. LockOK(Idle) /\ LockOK(Idle)' /\ IndexOK(Idle) /\ IndexOK(Idle)'
  BY <1>2 DEF LockOK, IndexOK
<1> QED BY <1>1, <1>3, <1>4, <1>5, <1>6 DEF CallOK

\* A call that returns, gives up or dies, with nothing written.
LEMMA ReturnsKeeps ==
    ASSUME NatsIInv, NEW p \in Call, Returns(p), crashes' \in Nat,
           UNCHANGED <<records, epoch, guard, lock, index, tokens, fence, known, overtaken>>
    PROVE  NatsIInv'
<1>1. Idle.pc = "idle" BY DEF Idle
<1> QED BY <1>1, IdleOK, CallStep DEF Returns

\* A call that has read the record of a dispatch.
LEMMA LoadsOK ==
    ASSUME NatsIInv, NEW p \in Call, NEW c \in CallRecord, c.d \in Dispatch,
           c.token = records[c.d].token,
           c.pc \in {"guard", "stale", "settle", "extend", "reclaim", "cancel"},
           c.kind \notin {"enqueue", "interrupt"},
           c.pc = "guard" => c.kind = "claim",
           c.pc = "settle" => c.kind \in Kind,
           c.pc \in {"guard", "cancel"} => StatusOf(c.d) = "Queued",
           c.pc \in {"settle", "extend", "reclaim"} => StatusOf(c.d) = "Claimed",
           StatusOf(c.d) \in Active
    PROVE  CallOK(p, c)
<1>1. StepOK(p, c) /\ FreshOK(c) /\ LockOK(c) /\ IndexOK(c) /\ InterruptOK(c)
  BY SMT DEF StepOK, FreshOK, LockOK, IndexOK, InterruptOK
<1>2. StatusOf(c.d) = "Claimed" => c.token # NoToken
  BY DEF NatsIInv, RecordInv, ValidForPersist, StatusOf
<1>3. TokenOK(p, c)
  BY <1>2, SMT DEF TokenOK, Unused, NatsIInv, RecordInv, TokenInv
<1> QED BY <1>1, <1>3 DEF CallOK

\* What a call knows when it has read the record of d.
LEMMA ReadsType ==
    ASSUME NatsIInv, NEW p \in Call, NEW d \in Dispatch
    PROVE  /\ FindsStale(p, d) \in CallRecord
           /\ \A kind \in Kind \cup {"claim", "renew", "reclaim", "cancel"},
                 pc \in {"guard", "extend", "reclaim", "settle", "cancel"}, e \in {0, epoch} :
                    /\ Reads(p, d, kind, pc) \in CallRecord
                    /\ [Reads(p, d, kind, pc) EXCEPT !.epoch = e] \in CallRecord
<1>1. records[d].token \in Nat /\ epoch \in Nat /\ 0 \in Nat
  BY DEF NatsIInv, NatsTypes, DispatchRecord
<1>2. FindsStale(p, d) \in CallRecord
  BY <1>1, Zenon DEF FindsStale, Reads, Idle, CallRecord, Steps, Todos
<1>3. ASSUME NEW kind \in Kind \cup {"claim", "renew", "reclaim", "cancel"},
             NEW pc \in {"guard", "extend", "reclaim", "settle", "cancel"}, NEW e \in {0, epoch}
      PROVE  /\ Reads(p, d, kind, pc) \in CallRecord
             /\ [Reads(p, d, kind, pc) EXCEPT !.epoch = e] \in CallRecord
  BY <1>1, ZenonT(60) DEF Reads, Idle, CallRecord, Steps, Todos
<1> QED BY <1>2, <1>3

\* The loads that precede the writes.
LEMMA LoadKeeps ==
    ASSUME NatsIInv, NEW p \in Call, NEW d \in Dispatch,
           \/ ClaimLoads(p, d) \/ RenewLoads(p, d) \/ ReclaimLoads(p, d)
           \/ CancelLoads(p, d) \/ \E kind \in Kind : SettleLoads(p, d, kind)
    PROVE  NatsIInv'
<1>1. PICK c \in CallRecord :
        /\ Becomes(p, c) /\ c.d = d /\ c.token = records[d].token
        /\ c.pc \in {"guard", "stale", "settle", "extend", "reclaim", "cancel"}
        /\ c.kind \notin {"enqueue", "interrupt"}
        /\ c.pc = "guard" => c.kind = "claim" /\ StatusOf(d) = "Queued" /\ ~IsStale(d)
        /\ c.pc = "cancel" => StatusOf(d) = "Queued"
        /\ c.pc = "settle" => c.kind \in Kind
        /\ c.pc \in {"settle", "extend", "reclaim"} => StatusOf(d) = "Claimed"
        /\ StatusOf(d) \in Active
  <2>1. FindsStale(p, d).pc = "stale" /\ FindsStale(p, d).kind = "stale"
        /\ FindsStale(p, d).d = d /\ FindsStale(p, d).token = records[d].token
    BY DEF FindsStale, Reads, Idle
  <2>2. ASSUME NEW kind, NEW pc, NEW e
        PROVE  LET r == Reads(p, d, kind, pc)
                   s == [r EXCEPT !.epoch = e]
               IN /\ r.pc = pc /\ r.kind = kind /\ r.d = d /\ r.token = records[d].token
                  /\ s.pc = pc /\ s.kind = kind /\ s.d = d /\ s.token = records[d].token
    BY DEF Reads, Idle
  <2>3. CASE ClaimLoads(p, d)
    <3> DEFINE c == IF IsStale(d) THEN FindsStale(p, d) ELSE Reads(p, d, "claim", "guard")
    <3>1. c \in CallRecord BY ReadsType DEF Kind
    <3>2. Becomes(p, c) BY <2>3 DEF ClaimLoads, Starts
    <3>3. StatusOf(d) = "Queued" BY <2>3 DEF ClaimLoads
    <3> QED BY <2>1, <2>2, <3>1, <3>2, <3>3 DEF Active
  <2>4. CASE RenewLoads(p, d)
    <3> DEFINE c == IF IsStale(d) THEN FindsStale(p, d) ELSE Reads(p, d, "renew", "extend")
    <3>1. c \in CallRecord BY ReadsType DEF Kind
    <3>2. Becomes(p, c) BY <2>4 DEF RenewLoads, Starts
    <3>3. StatusOf(d) = "Claimed" BY <2>4 DEF RenewLoads
    <3> QED BY <2>1, <2>2, <3>1, <3>2, <3>3 DEF Active
  <2>5. CASE ReclaimLoads(p, d)
    <3> DEFINE c == IF IsStale(d) THEN FindsStale(p, d) ELSE Reads(p, d, "reclaim", "reclaim")
    <3>1. c \in CallRecord BY ReadsType DEF Kind
    <3>2. Becomes(p, c) BY <2>5 DEF ReclaimLoads, Starts
    <3>3. StatusOf(d) = "Claimed" BY <2>5 DEF ReclaimLoads
    <3> QED BY <2>1, <2>2, <3>1, <3>2, <3>3 DEF Active
  <2>6. CASE CancelLoads(p, d)
    <3> DEFINE c == Reads(p, d, "cancel", "cancel")
    <3>1. c \in CallRecord BY ReadsType DEF Kind
    <3>2. Becomes(p, c) BY <2>6 DEF CancelLoads, Starts
    <3>3. StatusOf(d) = "Queued" BY <2>6 DEF CancelLoads
    <3> QED BY <2>1, <2>2, <3>1, <3>2, <3>3 DEF Active
  <2>7. CASE \E kind \in Kind : SettleLoads(p, d, kind)
    <3>1. PICK kind \in Kind : SettleLoads(p, d, kind)
      BY <2>7
    <3> DEFINE r == [Reads(p, d, kind, "settle") EXCEPT
                      !.epoch = IF kind = "supersede" THEN epoch ELSE 0]
               c == IF IsStale(d) /\ kind # "supersede" THEN FindsStale(p, d) ELSE r
    <3>2. c \in CallRecord BY ReadsType
    <3>3. Becomes(p, c) /\ StatusOf(d) = "Claimed" BY <3>1 DEF SettleLoads, Starts
    <3>4. kind \notin {"enqueue", "interrupt"} BY DEF Kind
    <3>5. /\ r.pc = "settle" /\ r.kind = kind /\ r.d = d
          /\ r.token = records[d].token
      BY <2>2
    <3>6. c = r \/ c = FindsStale(p, d)
      OBVIOUS
    <3> HIDE DEF c, r
    <3> QED BY <2>1, <3>2, <3>3, <3>4, <3>5, <3>6 DEF Active
  <2> QED BY <2>3, <2>4, <2>5, <2>6, <2>7
<1>2. CallOK(p, c)
  BY <1>1, LoadsOK
<1>3. ~IsStale(d) => records[d].epoch >= epoch
  BY SMT DEF IsStale, NatsIInv, NatsTypes, DispatchRecord
<1>4. UNCHANGED <<records, epoch, guard, lock, index, tokens, fence, known, overtaken, crashes>>
  BY DEF ClaimLoads, RenewLoads, ReclaimLoads, CancelLoads, SettleLoads
<1>5. crashes' \in Nat
  BY <1>4 DEF NatsIInv, NatsTypes
<1> QED BY <1>1, <1>2, <1>3, <1>4, <1>5, CallStep, SMT

\* The lists of steps, and what is left of each.
LEMMA ThenTyped ==
    ASSUME NEW p, call[p] \in CallRecord, NEW todo \in Todos
    PROVE  Then(p, todo) \in CallRecord
<1>1. "after" \in Steps
  BY DEF Steps
<1> QED BY <1>1 DEF Then, CallRecord

LEMMA TodoFacts ==
    /\ Todos \ {<<>>} = {<<"release", "unlock", "unindex">>, <<"release">>,
                         <<"unlock", "unindex">>, <<"unlock">>,
                         <<"unindex", "unlock">>, <<"unindex">>}
    /\ <<"unlock">> \notin Releasing /\ <<"unlock">> \notin Unindexing
    /\ <<"unlock", "unindex">> \notin Releasing
    /\ <<"unindex", "unlock">> \notin Releasing
    /\ <<"unindex">> \notin Releasing /\ <<"unindex">> \notin Unlocking
    /\ <<"release">> \notin Unlocking /\ <<"release">> \notin Unindexing
    /\ <<>> \notin Releasing \cup Unlocking \cup Unindexing
<1>1. /\ Todos \ {<<>>} = {<<"release", "unlock", "unindex">>, <<"release">>,
                           <<"unlock", "unindex">>, <<"unlock">>,
                           <<"unindex", "unlock">>, <<"unindex">>}
  BY DEF Todos
<1>2. <<"unlock">> \notin Releasing /\ <<"unlock">> \notin Unindexing
  BY DEF Releasing, Unindexing
<1>3. <<"unlock", "unindex">> \notin Releasing /\ <<"unindex", "unlock">> \notin Releasing
  BY DEF Releasing
<1>4. <<"unindex">> \notin Releasing /\ <<"unindex">> \notin Unlocking
  BY DEF Releasing, Unlocking
<1>5. <<"release">> \notin Unlocking /\ <<"release">> \notin Unindexing
  BY DEF Unlocking, Unindexing
<1>6. <<>> \notin Releasing \cup Unlocking \cup Unindexing
  BY DEF Releasing, Unlocking, Unindexing
<1> QED BY <1>1, <1>2, <1>3, <1>4, <1>5, <1>6

LEMMA TailFacts ==
    ASSUME NEW t \in Todos \ {<<>>}
    PROVE  /\ Tail(t) \in Todos
           /\ t \in {<<"release">>, <<"unlock">>, <<"unindex">>} => Tail(t) = <<>>
           /\ t = <<"release", "unlock", "unindex">> => Tail(t) = <<"unlock", "unindex">>
           /\ t = <<"unlock", "unindex">> => Tail(t) = <<"unindex">>
           /\ t = <<"unindex", "unlock">> => Tail(t) = <<"unlock">>
           /\ Head(t) = "release" <=> t \in Releasing
           /\ Head(t) = "unlock" => t \in {<<"unlock", "unindex">>, <<"unlock">>}
           /\ Head(t) = "unindex" => t \in {<<"unindex", "unlock">>, <<"unindex">>}
<1>1. CASE t = <<"release", "unlock", "unindex">>
  <2>1. Tail(t) = <<"unlock", "unindex">> /\ Head(t) = "release" BY <1>1
  <2>2. t \notin {<<"release">>, <<"unlock", "unindex">>, <<"unlock">>,
                  <<"unindex", "unlock">>, <<"unindex">>}
    BY <1>1
  <2> QED BY <1>1, <2>1, <2>2 DEF Todos, Releasing
<1>2. CASE t = <<"release">>
  <2>1. Tail(t) = <<>> /\ Head(t) = "release" BY <1>2
  <2>2. t \notin {<<"release", "unlock", "unindex">>, <<"unlock", "unindex">>, <<"unlock">>,
                  <<"unindex", "unlock">>, <<"unindex">>}
    BY <1>2
  <2> QED BY <1>2, <2>1, <2>2 DEF Todos, Releasing
<1>3. CASE t = <<"unlock", "unindex">>
  <2>1. Tail(t) = <<"unindex">> /\ Head(t) = "unlock" BY <1>3
  <2>2. t \notin {<<"release", "unlock", "unindex">>, <<"release">>, <<"unlock">>,
                  <<"unindex", "unlock">>, <<"unindex">>}
    BY <1>3
  <2> QED BY <1>3, <2>1, <2>2 DEF Todos, Releasing
<1>4. CASE t = <<"unlock">>
  <2>1. Tail(t) = <<>> /\ Head(t) = "unlock" BY <1>4
  <2>2. t \notin {<<"release", "unlock", "unindex">>, <<"release">>, <<"unlock", "unindex">>,
                  <<"unindex", "unlock">>, <<"unindex">>}
    BY <1>4
  <2> QED BY <1>4, <2>1, <2>2 DEF Todos, Releasing
<1>5. CASE t = <<"unindex", "unlock">>
  <2>1. Tail(t) = <<"unlock">> /\ Head(t) = "unindex" BY <1>5
  <2>2. t \notin {<<"release", "unlock", "unindex">>, <<"release">>, <<"unlock", "unindex">>,
                  <<"unlock">>, <<"unindex">>}
    BY <1>5
  <2> QED BY <1>5, <2>1, <2>2 DEF Todos, Releasing
<1>6. CASE t = <<"unindex">>
  <2>1. Tail(t) = <<>> /\ Head(t) = "unindex" BY <1>6
  <2>2. t \notin {<<"release", "unlock", "unindex">>, <<"release">>, <<"unlock", "unindex">>,
                  <<"unlock">>, <<"unindex", "unlock">>}
    BY <1>6
  <2> QED BY <1>6, <2>1, <2>2 DEF Todos, Releasing
<1> QED BY <1>1, <1>2, <1>3, <1>4, <1>5, <1>6, TodoFacts

-----------------------------------------------------------------------------
(* enqueue: the steps that write nothing.                                  *)

LEMMA EnqueueReadsEpochKeeps ==
    ASSUME NatsIInv, NEW p \in Call, NEW d \in Dispatch, EnqueueReadsEpoch(p, d)
    PROVE  NatsIInv'
<1> DEFINE c == [Idle EXCEPT !.pc = IF d \in Keyed THEN "lock" ELSE "index",
                             !.d = d, !.kind = "enqueue", !.epoch = epoch]
<1>1. c \in CallRecord
  <2>1. epoch \in Nat BY DEF NatsIInv, NatsTypes
  <2> QED BY <2>1, Zenon DEF Idle, CallRecord, Steps, Todos, NoToken
<1>2. /\ c.pc \in {"lock", "index"}
      /\ c.pc = "index" => d \notin Keyed
      /\ c.d = d /\ c.kind = "enqueue" /\ ~c.fresh
  BY DEF Idle
<1>3. /\ StatusOf(d) = "Absent" /\ Becomes(p, c)
      /\ \A q \in Call \ {p} : ~(call[q].kind = "enqueue" /\ call[q].d = d)
      /\ UNCHANGED <<records, epoch, guard, lock, index, tokens, fence, known, overtaken, crashes>>
  BY DEF EnqueueReadsEpoch, Starts, Enqueuing, Of
<1>4. CallOK(p, c)
  <2>1. c.pc = "lock" => d \in Keyed BY DEF Idle
  <2> HIDE DEF c
  <2> QED BY <1>1, <1>2, <1>3, <2>1, SMT
          DEF CallOK, StepOK, FreshOK, TokenOK, Unused, LockOK, IndexOK, InterruptOK
<1>5. crashes' \in Nat
  BY <1>3 DEF NatsIInv, NatsTypes
<1> HIDE DEF c
<1> QED BY <1>1, <1>2, <1>3, <1>4, <1>5, CallStep

\* The holder of the lock does not keep the key, or it is overtaken.
LEMMA GoneIsUnprotected ==
    ASSUME NatsIInv, NEW h \in Dispatch, HolderIsGone(h), ~UnderWay(h)
    PROVE  ~Protects(h)
BY SMT DEF HolderIsGone, Protects, IsStale, Terminal, Active

LEMMA ReadsHolderKeeps ==
    ASSUME NatsIInv, NEW p \in Call, ReadsHolder(p) \/ OvertakesHolder(p)
    PROVE  NatsIInv'
<1>t. /\ call[p] \in CallRecord /\ crashes' \in Nat /\ CallOK(p, call[p])
      /\ call[p].pc = "holder" /\ call[p].other \in Dispatch
  BY DEF NatsIInv, NatsTypes, CallInv, CallOK, StepOK, ReadsHolder, OvertakesHolder, At
<1>0. UNCHANGED <<records, epoch, guard, lock, index, tokens, fence, known>>
  BY DEF ReadsHolder, OvertakesHolder
<1>1. CASE /\ HolderIsGone(call[p].other) /\ Goto(p, "purge")
           /\ overtaken' = overtaken \cup {d \in {call[p].other} : UnderWay(d)}
  <2>0. PICK c : c = [call[p] EXCEPT !.pc = "purge"]
    OBVIOUS
  <2>1. c \in CallRecord
    BY <1>t, <2>0, Zenon DEF CallRecord, Steps
  <2>2. /\ c.pc = "purge" /\ c.d = call[p].d /\ c.kind = call[p].kind
        /\ c.other = call[p].other /\ c.fresh = call[p].fresh
    BY <1>t, <2>0 DEF CallRecord
  <2>3. /\ call'[p] = c /\ call' = [q \in Call |-> call'[q]]
        /\ \A q \in Call \ {p} : call'[q] = call[q]
    BY <1>1, <2>0 DEF Goto, Becomes, NatsIInv, NatsTypes
  <2>4. overtaken \subseteq overtaken' /\ overtaken' \subseteq Dispatch
    BY <1>t, <1>1 DEF NatsIInv, NatsTypes
  <2>5. ~Protects(c.other)'
    <3>1. UnderWay(c.other)' => UnderWay(c.other)
      BY <2>2, <2>3 DEF UnderWay, Of
    <3>2. CASE UnderWay(c.other)
      BY <1>1, <2>2, <3>2 DEF Protects
    <3>3. CASE ~UnderWay(c.other)
      BY <1>0, <1>t, <1>1, <2>2, <2>4, <3>1, <3>3, GoneIsUnprotected
         DEF Protects, StatusOf, IsStale
    <3> QED BY <3>2, <3>3
  <2>6. LockOK(c)'
    BY <1>0, <1>t, <2>2, <2>5 DEF CallOK, LockOK
  <2>7. StepOK(p, c) /\ FreshOK(c) /\ TokenOK(p, c) /\ IndexOK(c)' /\ InterruptOK(c)
    BY <1>t, <2>2, SMT DEF CallOK, StepOK, FreshOK, TokenOK, Unused, IndexOK, InterruptOK
  <2> QED BY <1>t, <1>0, <2>1, <2>2, <2>3, <2>4, <2>6, <2>7, ThreadStep
          DEF NatsIInv, NatsTypes, LockInv, Unmoved
<1>2. CASE Returns(p) /\ UNCHANGED overtaken
  BY <1>t, <1>0, <1>2, ReturnsKeeps
<1>3. ASSUME OvertakesHolder(p)
      PROVE  /\ HolderIsGone(call[p].other) /\ Goto(p, "purge")
             /\ overtaken' = overtaken \cup {d \in {call[p].other} : UnderWay(d)}
  BY <1>3 DEF OvertakesHolder
<1>4. ASSUME ReadsHolder(p)
      PROVE  \/ /\ HolderIsGone(call[p].other) /\ Goto(p, "purge")
                /\ overtaken' = overtaken \cup {d \in {call[p].other} : UnderWay(d)}
             \/ Returns(p) /\ UNCHANGED overtaken
  BY <1>4 DEF ReadsHolder
<1> QED BY <1>1, <1>2, <1>3, <1>4

\* An enqueue that stored nothing gives its lock back.
LEMMA GivesUpKeeps ==
    ASSUME NatsIInv, NEW p \in Call, At(p, "index") \/ At(p, "put"),
           Becomes(p, [call[p] EXCEPT !.pc = "after", !.todo = <<"unlock">>]),
           index' \in {index, index \cup {Of(p)}}, crashes' \in Nat,
           UNCHANGED <<records, epoch, guard, lock, tokens, fence, known, overtaken>>
    PROVE  NatsIInv'
<1>1. /\ call[p] \in CallRecord /\ CallOK(p, call[p]) /\ call[p].pc \in {"index", "put"}
      /\ Of(p) \in Dispatch
  BY DEF NatsIInv, NatsTypes, CallInv, CallOK, StepOK, At, Of
<1>0. PICK c : c = [call[p] EXCEPT !.pc = "after", !.todo = <<"unlock">>]
  OBVIOUS
<1>2. c \in CallRecord
  BY <1>0, <1>1, Zenon DEF CallRecord, Steps, Todos
<1>3. /\ c.pc = "after" /\ c.d = call[p].d /\ c.kind = call[p].kind
      /\ c.fresh = call[p].fresh /\ c.todo = <<"unlock">>
  BY <1>0, <1>1 DEF CallRecord
<1>4. /\ call'[p] = c /\ call' = [q \in Call |-> call'[q]]
      /\ \A q \in Call \ {p} : Unmoved(q)
  BY <1>0 DEF Becomes, Unmoved, NatsIInv, NatsTypes
<1>5. StepOK(p, c) /\ FreshOK(c) /\ TokenOK(p, c) /\ LockOK(c) /\ IndexOK(c)' /\ InterruptOK(c)
  BY <1>1, <1>3, TodoFacts, SMT
     DEF CallOK, StepOK, FreshOK, TokenOK, Unused, LockOK, IndexOK, InterruptOK
<1> QED BY <1>1, <1>2, <1>3, <1>4, <1>5, ThreadStep DEF NatsIInv, NatsTypes, LockInv

-----------------------------------------------------------------------------
(* interrupt: the steps that write nothing.                                *)

\* What such a step has to show.
LEMMA InterruptStepKeeps ==
    ASSUME NatsIInv, NEW p \in Call, NEW c \in CallRecord, Becomes(p, c),
           UNCHANGED <<records, epoch, guard, lock, index, tokens, fence, known, overtaken, crashes>>,
           c.kind = "interrupt", c.pc \in {"scan", "look", "each", "supersede"},
           c.todo \notin Releasing,
           c.pc = "look" => c.other \in Dispatch,
           c.pc = "supersede" => c.d \in Dispatch /\ StatusOf(c.d) = "Queued",
           InterruptOK(c)
    PROVE  NatsIInv'
<1>1. CallOK(p, c)
  BY SMT DEF CallOK, StepOK, FreshOK, TokenOK, Unused, LockOK, IndexOK
<1>2. crashes' \in Nat
  BY DEF NatsIInv, NatsTypes
<1> QED BY <1>1, <1>2, CallStep

\* What is known of an interrupt that is under way.
LEMMA InterruptFacts ==
    ASSUME NatsIInv, NEW p \in Call,
           call[p].pc \in {"list", "scan", "look", "each", "supersede"}
    PROVE  /\ call[p] \in CallRecord /\ call[p].kind = "interrupt"
           /\ call[p].todo \notin Releasing /\ InterruptOK(call[p])
           /\ At(p, "look") => call[p].other \in Dispatch
           /\ At(p, "supersede") => Of(p) \in Dispatch
BY DEF NatsIInv, NatsTypes, CallInv, CallOK, StepOK, At, Of

\* A claim can only be under way for a dispatch that is queued.
LEMMA ClaimUnderWayQueued ==
    ASSUME NatsIInv, NEW d \in Dispatch, ClaimUnderWay(d)
    PROVE  StatusOf(d) = "Queued"
BY DEF NatsIInv, CallInv, CallOK, FreshOK, ClaimUnderWay, Of

LEMMA ListsIndexKeeps ==
    ASSUME NatsIInv, NEW p \in Call, ListsIndex(p)
    PROVE  NatsIInv'
<1> DEFINE c == [call[p] EXCEPT !.pc = "scan", !.ids = index]
<1>1. /\ call[p] \in CallRecord /\ call[p].kind = "interrupt"
      /\ call[p].todo \notin Releasing /\ InterruptOK(call[p])
  BY InterruptFacts DEF ListsIndex, At
<1>2. /\ Becomes(p, c) /\ call[p].pc = "list"
      /\ UNCHANGED <<records, epoch, guard, lock, index, tokens, fence, known, overtaken, crashes>>
  BY DEF ListsIndex, At
<1>3. c \in CallRecord
  <2>1. index \subseteq Dispatch BY DEF NatsIInv, NatsTypes
  <2> QED BY <1>1, <2>1, Zenon DEF CallRecord, Steps
<1>4. /\ c.pc = "scan" /\ c.kind = "interrupt" /\ c.todo = call[p].todo
      /\ c.epoch = call[p].epoch /\ c.other = call[p].other /\ c.ids = index
      /\ c.queued = {} /\ c.claimed = {} /\ c.met = {}
  BY <1>1, <1>2 DEF CallRecord, InterruptOK
<1> HIDE DEF c
<1>5. InterruptOK(c)
  <2>1. ASSUME NEW e \in Dispatch
        PROVE  ClaimUnderWay(e) \/ StatusOf(e) = "Claimed" => Ahead(c, e)
    BY <1>4, ClaimUnderWayQueued DEF Ahead, NatsIInv, IndexCoversActive, Active
  <2>2. c.epoch <= epoch /\ c.other = None
    BY <1>1, <1>2, <1>4 DEF InterruptOK
  <2> QED BY <1>4, <2>1, <2>2, Zenon DEF InterruptOK
<1> QED BY <1>1, <1>2, <1>3, <1>4, <1>5, InterruptStepKeeps

LEMMA ScansRecordKeeps ==
    ASSUME NatsIInv, NEW p \in Call, NEW d \in Dispatch, ScansRecord(p, d)
    PROVE  NatsIInv'
<1> DEFINE new == IF StatusOf(d) = "Claimed" THEN {d} ELSE {}
           c == [call[p] EXCEPT
                   !.ids = @ \ {d},
                   !.queued = IF StatusOf(d) = "Queued" THEN @ \cup {d} ELSE @,
                   !.claimed = IF StatusOf(d) = "Claimed" THEN @ \cup {d} ELSE @,
                   !.met = IF StatusOf(d) = "Claimed" THEN @ \cup {d} ELSE @]
<1>1. /\ call[p] \in CallRecord /\ call[p].kind = "interrupt"
      /\ call[p].todo \notin Releasing /\ InterruptOK(call[p])
  BY InterruptFacts DEF ScansRecord, At
<1>2. /\ Becomes(p, c) /\ call[p].pc = "scan" /\ d \in call[p].ids
      /\ UNCHANGED <<records, epoch, guard, lock, index, tokens, fence, known, overtaken, crashes>>
  BY DEF ScansRecord, At
<1>3. c \in CallRecord
  BY <1>1, ZenonT(60) DEF CallRecord
<1>4. /\ c.pc = "scan" /\ c.kind = "interrupt" /\ c.todo = call[p].todo
      /\ c.epoch = call[p].epoch /\ c.active = call[p].active /\ c.other = call[p].other
      /\ c.ids = call[p].ids \ {d}
      /\ c.queued = IF StatusOf(d) = "Queued" THEN call[p].queued \cup {d} ELSE call[p].queued
      /\ c.claimed = IF StatusOf(d) = "Claimed" THEN call[p].claimed \cup {d} ELSE call[p].claimed
      /\ c.met = IF StatusOf(d) = "Claimed" THEN call[p].met \cup {d} ELSE call[p].met
  BY <1>1, <1>2 DEF CallRecord
<1> HIDE DEF c
<1>5. InterruptOK(c)
  <2>1. /\ c.claimed = c.met /\ c.epoch <= epoch /\ c.ids \cap c.queued = {}
        /\ c.other = None
    BY <1>1, <1>2, <1>4 DEF InterruptOK
  <2>2. ASSUME NEW e \in Dispatch, Older(e, c.epoch)
        PROVE  /\ ClaimUnderWay(e) => Ahead(c, e)
               /\ StatusOf(e) = "Claimed" => Ahead(c, e) \/ e \in c.met
               /\ ~(Ahead(c, e) /\ e \in c.met)
    <3>1. /\ ClaimUnderWay(e) => Ahead(call[p], e)
          /\ StatusOf(e) = "Claimed" => Ahead(call[p], e) \/ e \in call[p].met
          /\ ~(Ahead(call[p], e) /\ e \in call[p].met)
      BY <1>1, <1>2, <1>4, <2>2 DEF InterruptOK, Past
    <3>2. ClaimUnderWay(e) => StatusOf(e) = "Queued"
      BY ClaimUnderWayQueued
    <3>3. Ahead(c, e) <=> e \in c.ids \cup c.queued
      BY <1>4 DEF Ahead
    <3>4. Ahead(call[p], e) <=> e \in call[p].ids \cup call[p].queued
      BY <1>2 DEF Ahead
    <3>5. d \notin call[p].queued
      BY <1>1, <1>2 DEF InterruptOK
    <3>6. CASE e = d
      BY <1>2, <1>4, <3>1, <3>2, <3>3, <3>4, <3>5, <3>6
    <3>7. CASE e # d
      BY <1>2, <1>4, <3>1, <3>2, <3>3, <3>4, <3>7
    <3> QED BY <3>6, <3>7
  <2> QED BY <1>4, <2>1, <2>2, Zenon DEF InterruptOK
<1> QED BY <1>1, <1>2, <1>3, <1>4, <1>5, InterruptStepKeeps

LEMMA ReadsGuardKeeps ==
    ASSUME NatsIInv, NEW p \in Call, ReadsGuard(p)
    PROVE  NatsIInv'
<1>1. /\ call[p] \in CallRecord /\ call[p].kind = "interrupt"
      /\ call[p].todo \notin Releasing /\ InterruptOK(call[p])
  BY InterruptFacts DEF ReadsGuard, At
<1>2. /\ call[p].pc = "scan" /\ call[p].ids = {}
      /\ UNCHANGED <<records, epoch, guard, lock, index, tokens, fence, known, overtaken, crashes>>
  BY DEF ReadsGuard, At
<1>3. ASSUME NEW c \in CallRecord, c.pc \in {"look", "each"}, c.kind = "interrupt",
             c.epoch = call[p].epoch, c.ids = {}, c.queued = call[p].queued,
             c.claimed = call[p].claimed, c.met = call[p].met,
             c.other = None \/ c.other = guard.holder
      PROVE  InterruptOK(c)
  <2>1. /\ c.claimed = c.met /\ c.epoch <= epoch
    BY <1>1, <1>2, <1>3 DEF InterruptOK
  <2>2. ASSUME NEW e \in Dispatch, Older(e, c.epoch)
        PROVE  /\ ClaimUnderWay(e) => Ahead(c, e)
               /\ StatusOf(e) = "Claimed" => Ahead(c, e) \/ e \in c.met
               /\ ~(Ahead(c, e) /\ e \in c.met)
               /\ c.other \notin {None, e} => ~MayLive(e)
    <3>1. Ahead(c, e) <=> Ahead(call[p], e)
      BY <1>2, <1>3 DEF Ahead
    <3>2. c.other \notin {None, e} => ~MayLive(e)
      BY <1>3 DEF MayLive, NatsIInv, RecordInv, ValidForPersist, StatusOf, TokenInv
    <3> QED BY <1>1, <1>2, <1>3, <2>2, <3>1, <3>2 DEF InterruptOK, Past
  <2> QED BY <1>3, <2>1, <2>2, Zenon DEF InterruptOK
<1>4. CASE guard.lease = "live"
  <2> DEFINE c == [call[p] EXCEPT !.pc = "look", !.other = guard.holder]
  <2>1. guard.holder \in Dispatch \cup {None}
    BY DEF NatsIInv, NatsTypes
  <2>2. c \in CallRecord
    BY <1>1, <2>1, Zenon DEF CallRecord, Steps
  <2>3. /\ c.pc = "look" /\ c.kind = "interrupt" /\ c.todo = call[p].todo
        /\ c.epoch = call[p].epoch /\ c.other = guard.holder /\ c.ids = {}
        /\ c.queued = call[p].queued /\ c.claimed = call[p].claimed /\ c.met = call[p].met
    BY <1>1, <1>2 DEF CallRecord
  <2>4. Becomes(p, c)
    BY <1>4 DEF ReadsGuard
  <2> HIDE DEF c
  <2>5. InterruptOK(c) BY <1>3, <2>2, <2>3
  <2>6. guard.holder \in Dispatch BY <1>4 DEF NatsIInv, GuardInv
  <2> QED BY <1>1, <1>2, <2>2, <2>3, <2>4, <2>5, <2>6, InterruptStepKeeps
<1>5. CASE guard.lease # "live"
  <2> DEFINE c == [call[p] EXCEPT !.pc = "each"]
  <2>2. c \in CallRecord
    BY <1>1, Zenon DEF CallRecord, Steps
  <2>3. /\ c.pc = "each" /\ c.kind = "interrupt" /\ c.todo = call[p].todo
        /\ c.epoch = call[p].epoch /\ c.other = None /\ c.ids = {}
        /\ c.queued = call[p].queued /\ c.claimed = call[p].claimed /\ c.met = call[p].met
    BY <1>1, <1>2 DEF CallRecord, InterruptOK
  <2>4. Becomes(p, c)
    BY <1>5 DEF ReadsGuard, Goto
  <2> HIDE DEF c
  <2>5. InterruptOK(c) BY <1>3, <2>2, <2>3
  <2> QED BY <1>1, <1>2, <2>2, <2>3, <2>4, <2>5, InterruptStepKeeps
<1> QED BY <1>4, <1>5

LEMMA LooksAtHolderKeeps ==
    ASSUME NatsIInv, NEW p \in Call, LooksAtHolder(p)
    PROVE  NatsIInv'
<1> DEFINE c == [call[p] EXCEPT !.pc = "each",
                    !.active = IF StatusOf(call[p].other) = "Claimed"
                               THEN call[p].other ELSE @]
<1>1. /\ call[p] \in CallRecord /\ call[p].kind = "interrupt"
      /\ call[p].todo \notin Releasing /\ InterruptOK(call[p])
  BY InterruptFacts DEF LooksAtHolder, At
<1>2. /\ Becomes(p, c) /\ call[p].pc = "look"
      /\ UNCHANGED <<records, epoch, guard, lock, index, tokens, fence, known, overtaken, crashes>>
  BY DEF LooksAtHolder, At
<1>3. c \in CallRecord
  BY <1>1, ZenonT(60) DEF CallRecord, Steps
<1>4. /\ c.pc = "each" /\ c.kind = "interrupt" /\ c.todo = call[p].todo
      /\ c.epoch = call[p].epoch /\ c.other = call[p].other /\ c.ids = call[p].ids
      /\ c.queued = call[p].queued /\ c.claimed = call[p].claimed /\ c.met = call[p].met
  BY <1>1 DEF CallRecord
<1> HIDE DEF c
<1>5. InterruptOK(c)
  <2>1. /\ c.claimed = c.met /\ c.epoch <= epoch /\ c.ids = {}
    BY <1>1, <1>2, <1>4 DEF InterruptOK
  <2>2. ASSUME NEW e \in Dispatch
        PROVE  Ahead(c, e) <=> Ahead(call[p], e)
    BY <1>2, <1>4 DEF Ahead
  <2>3. ASSUME NEW e \in Dispatch, Older(e, c.epoch)
        PROVE  /\ ClaimUnderWay(e) => Ahead(c, e)
               /\ StatusOf(e) = "Claimed" => Ahead(c, e) \/ e \in c.met
               /\ ~(Ahead(c, e) /\ e \in c.met)
               /\ e \in c.claimed /\ c.other \notin {None, e} => ~MayLive(e)
    BY <1>1, <1>2, <1>4, <2>2, <2>3 DEF InterruptOK, Past
  <2> QED BY <1>4, <2>1, <2>3, Zenon DEF InterruptOK
<1> QED BY <1>1, <1>2, <1>3, <1>4, <1>5, InterruptStepKeeps

LEMMA TakesClaimedKeeps ==
    ASSUME NatsIInv, NEW p \in Call, NEW d \in Dispatch, TakesClaimed(p, d)
    PROVE  NatsIInv'
<1> DEFINE c == [call[p] EXCEPT !.claimed = @ \ {d},
                    !.active = IF call[p].other \in {None, d} THEN d ELSE @]
<1>1. /\ call[p] \in CallRecord /\ call[p].kind = "interrupt"
      /\ call[p].todo \notin Releasing /\ InterruptOK(call[p])
  BY InterruptFacts DEF TakesClaimed, At
<1>2. /\ Becomes(p, c) /\ call[p].pc = "each" /\ d \in call[p].claimed
      /\ UNCHANGED <<records, epoch, guard, lock, index, tokens, fence, known, overtaken, crashes>>
  BY DEF TakesClaimed, At
<1>3. c \in CallRecord
  BY <1>1, Zenon DEF CallRecord
<1>4. /\ c.pc = "each" /\ c.kind = "interrupt" /\ c.todo = call[p].todo
      /\ c.epoch = call[p].epoch /\ c.other = call[p].other /\ c.ids = call[p].ids
      /\ c.queued = call[p].queued /\ c.claimed = call[p].claimed \ {d}
      /\ c.met = call[p].met
      /\ c.active = IF call[p].other \in {None, d} THEN d ELSE call[p].active
  BY <1>1, <1>2 DEF CallRecord
<1> HIDE DEF c
<1>5. InterruptOK(c)
  <2>1. /\ c.claimed \subseteq c.met /\ c.epoch <= epoch /\ c.ids = {} /\ d \in c.met
    BY <1>1, <1>2, <1>4 DEF InterruptOK
  <2>2. ASSUME NEW e \in Dispatch, Older(e, c.epoch)
        PROVE  /\ ClaimUnderWay(e) => Ahead(c, e)
               /\ StatusOf(e) = "Claimed" => Ahead(c, e) \/ e \in c.met
               /\ ~(Ahead(c, e) /\ e \in c.met)
               /\ e \in c.met \ c.claimed /\ MayLive(e) => c.active \in c.met
               /\ e \in c.claimed /\ c.other \notin {None, e} => ~MayLive(e)
    <3>1. Ahead(c, e) <=> Ahead(call[p], e)
      BY <1>2, <1>4 DEF Ahead
    <3>2. /\ ClaimUnderWay(e) => Ahead(c, e)
          /\ StatusOf(e) = "Claimed" => Ahead(c, e) \/ e \in c.met
          /\ ~(Ahead(c, e) /\ e \in c.met)
          /\ e \in c.met \ call[p].claimed /\ MayLive(e) => call[p].active \in c.met
          /\ e \in call[p].claimed /\ c.other \notin {None, e} => ~MayLive(e)
      BY <1>1, <1>2, <1>4, <2>2, <3>1 DEF InterruptOK, Past
    <3> QED BY <1>4, <2>1, <3>2
  <2> QED BY <1>4, <2>1, <2>2, Zenon DEF InterruptOK
<1> QED BY <1>1, <1>2, <1>3, <1>4, <1>5, InterruptStepKeeps

LEMMA TriesQueuedKeeps ==
    ASSUME NatsIInv, NEW p \in Call, NEW d \in Dispatch, TriesQueued(p, d)
    PROVE  NatsIInv'
<1> DEFINE c0 == [call[p] EXCEPT !.queued = @ \ {d}]
<1>1. /\ call[p] \in CallRecord /\ call[p].kind = "interrupt"
      /\ call[p].todo \notin Releasing /\ InterruptOK(call[p])
  BY InterruptFacts DEF TriesQueued, At
<1>2. /\ call[p].pc = "each" /\ d \in call[p].queued /\ call[p].ids = {}
      /\ UNCHANGED <<records, epoch, guard, lock, index, tokens, fence, known, overtaken, crashes>>
  BY <1>1 DEF TriesQueued, At, InterruptOK
<1>3. c0 \in CallRecord
  BY <1>1, Zenon DEF CallRecord
<1>4. /\ c0.pc = "each" /\ c0.kind = "interrupt" /\ c0.todo = call[p].todo
      /\ c0.epoch = call[p].epoch /\ c0.other = call[p].other /\ c0.ids = {}
      /\ c0.queued = call[p].queued \ {d} /\ c0.claimed = call[p].claimed
      /\ c0.met = call[p].met /\ c0.active = call[p].active
  BY <1>1, <1>2 DEF CallRecord
<1>5. /\ c0.claimed \subseteq c0.met /\ c0.epoch <= epoch
  BY <1>1, <1>4 DEF InterruptOK
<1>6. ASSUME NEW e \in Dispatch, Older(e, c0.epoch)
      PROVE  /\ ClaimUnderWay(e) => e \in call[p].queued
             /\ StatusOf(e) = "Claimed" => e \in call[p].queued \cup c0.met
             /\ ~(e \in call[p].queued \cap c0.met)
             /\ e \in c0.met \ c0.claimed /\ MayLive(e) => c0.active \in c0.met
             /\ e \in c0.claimed /\ c0.other \notin {None, e} => ~MayLive(e)
  BY <1>1, <1>2, <1>4, <1>6, SMT DEF InterruptOK, Past, Ahead
<1>7. CASE StatusOf(d) = "Claimed"
  <2> DEFINE c == [c0 EXCEPT !.active = d, !.met = @ \cup {d}]
  <2>1. Becomes(p, c)
    BY <1>7 DEF TriesQueued
  <2>2. c \in CallRecord
    BY <1>3, Zenon DEF CallRecord
  <2>3. /\ c.pc = "each" /\ c.kind = "interrupt" /\ c.todo = call[p].todo
        /\ c.epoch = c0.epoch /\ c.other = c0.other /\ c.ids = {}
        /\ c.queued = c0.queued /\ c.claimed = c0.claimed
        /\ c.met = c0.met \cup {d} /\ c.active = d
    BY <1>3, <1>4 DEF CallRecord
  <2> HIDE DEF c, c0
  <2>4. InterruptOK(c)
    <3>1. ASSUME NEW e \in Dispatch, Older(e, c.epoch)
          PROVE  /\ ClaimUnderWay(e) => Ahead(c, e)
                 /\ StatusOf(e) = "Claimed" => Ahead(c, e) \/ e \in c.met
                 /\ ~(Ahead(c, e) /\ e \in c.met)
                 /\ e \in c.claimed /\ c.other \notin {None, e} => ~MayLive(e)
      <4>1. Ahead(c, e) <=> e \in call[p].queued \ {d}
        BY <1>4, <2>3 DEF Ahead
      <4> QED BY <1>4, <1>6, <1>7, <2>3, <3>1, <4>1, ClaimUnderWayQueued
    <3> QED BY <1>5, <2>3, <3>1, SMT DEF InterruptOK
  <2> QED BY <1>1, <1>2, <2>1, <2>2, <2>3, <2>4, InterruptStepKeeps
<1>8. CASE StatusOf(d) = "Queued" /\ records[d].epoch < call[p].epoch
  <2> DEFINE c == [c0 EXCEPT !.pc = "supersede", !.d = d, !.fresh = TRUE]
  <2>1. Becomes(p, c)
    BY <1>8 DEF TriesQueued
  <2>2. c \in CallRecord
    BY <1>3, Zenon DEF CallRecord, Steps
  <2>3. /\ c.pc = "supersede" /\ c.kind = "interrupt" /\ c.todo = call[p].todo
        /\ c.epoch = c0.epoch /\ c.other = c0.other /\ c.ids = {} /\ c.d = d
        /\ c.queued = c0.queued /\ c.claimed = c0.claimed
        /\ c.met = c0.met /\ c.active = c0.active
    BY <1>3, <1>4 DEF CallRecord
  <2> HIDE DEF c, c0
  <2>4. InterruptOK(c)
    <3>1. ASSUME NEW e \in Dispatch, Older(e, c.epoch)
          PROVE  /\ ClaimUnderWay(e) => Ahead(c, e)
                 /\ StatusOf(e) = "Claimed" => Ahead(c, e) \/ e \in c.met
                 /\ ~(Ahead(c, e) /\ e \in c.met)
                 /\ e \in c.met \ c.claimed /\ MayLive(e) => c.active \in c.met
                 /\ e \in c.claimed /\ c.other \notin {None, e} => ~MayLive(e)
      <4>1. Ahead(c, e) <=> e \in call[p].queued
        BY <1>2, <1>4, <2>3 DEF Ahead
      <4> QED BY <1>6, <2>3, <3>1, <4>1
    <3> QED BY <1>4, <1>5, <2>3, <3>1, SMT DEF InterruptOK
  <2> QED BY <1>1, <1>2, <1>8, <2>1, <2>2, <2>3, <2>4, InterruptStepKeeps
<1>9. CASE ~(StatusOf(d) = "Claimed") /\ ~(StatusOf(d) = "Queued" /\ records[d].epoch < call[p].epoch)
  <2>1. Becomes(p, c0)
    BY <1>9 DEF TriesQueued
  <2> HIDE DEF c0
  <2>2. InterruptOK(c0)
    <3>1. ASSUME NEW e \in Dispatch, Older(e, c0.epoch)
          PROVE  /\ ClaimUnderWay(e) => Ahead(c0, e)
                 /\ StatusOf(e) = "Claimed" => Ahead(c0, e) \/ e \in c0.met
                 /\ ~(Ahead(c0, e) /\ e \in c0.met)
                 /\ e \in c0.met \ c0.claimed /\ MayLive(e) => c0.active \in c0.met
                 /\ e \in c0.claimed /\ c0.other \notin {None, e} => ~MayLive(e)
      <4>1. Ahead(c0, e) <=> e \in call[p].queued \ {d}
        BY <1>4 DEF Ahead
      <4> QED BY <1>4, <1>6, <1>9, <3>1, <4>1, ClaimUnderWayQueued DEF Older
    <3> QED BY <1>4, <1>5, <3>1, SMT DEF InterruptOK
  <2> QED BY <1>1, <1>2, <1>3, <1>4, <2>1, <2>2, InterruptStepKeeps
<1> QED BY <1>7, <1>8, <1>9

\* The interrupt that returns has looked at everything, and made known what
\* it found claimed.
LEMMA InterruptReturnsKeeps ==
    ASSUME NatsIInv, NEW p \in Call, InterruptReturns(p)
    PROVE  NatsIInv'
<1> DEFINE c == call[p]
           news == IF \E d \in Dispatch : c.met = {d} THEN {c.active} \ {None} ELSE c.met
<1>1. c \in CallRecord /\ c.kind = "interrupt" /\ InterruptOK(c) /\ c.pc = "each"
  BY InterruptFacts DEF InterruptReturns, At
<1>2. /\ c.queued \cup c.claimed = {} /\ c.ids = {}
      /\ fence' = IF c.epoch > fence THEN c.epoch ELSE fence
      /\ known' = known \cup news
      /\ Becomes(p, Idle)
      /\ UNCHANGED <<records, epoch, guard, lock, index, tokens, overtaken, crashes>>
  BY <1>1 DEF InterruptReturns, InterruptOK, Returns
<1>3. /\ c.epoch \in Nat /\ fence \in Nat /\ epoch \in Nat /\ fence <= epoch
      /\ c.epoch <= epoch /\ known \subseteq Dispatch /\ news \subseteq Dispatch
  BY <1>1 DEF NatsIInv, NatsTypes, FenceInv, CallRecord, InterruptOK
<1>4. fence' \in Nat /\ known' \subseteq Dispatch /\ fence' <= epoch'
  BY <1>2, <1>3
<1>5. ASSUME NEW d \in Dispatch, Older(d, fence)
      PROVE  ~ClaimUnderWay(d) /\ (MayLive(d) => d \in known)
  BY <1>5 DEF NatsIInv, FenceInv
<1>6. ASSUME NEW d \in Dispatch, Older(d, c.epoch)
      PROVE  ~ClaimUnderWay(d) /\ (MayLive(d) => d \in news)
  <2>1. ~Ahead(c, d)
    BY <1>1, <1>2 DEF Ahead
  <2>2. ~ClaimUnderWay(d) /\ (StatusOf(d) = "Claimed" => d \in c.met)
        /\ (d \in c.met /\ MayLive(d) => c.active \in c.met)
    BY <1>1, <1>2, <1>6, <2>1 DEF InterruptOK, Past
  <2>3. MayLive(d) => d \in c.met /\ c.active \in c.met
    BY <2>2 DEF MayLive
  <2>4. None \notin c.met
    BY <1>1 DEF CallRecord
  <2> QED BY <2>2, <2>3, <2>4
<1>7. FenceInv'
  <2>1. ASSUME NEW d \in Dispatch, Older(d, fence)'
        PROVE  ~ClaimUnderWay(d)' /\ (MayLive(d)' => d \in known')
    <3>1. MayLive(d)' => MayLive(d)
      BY <1>2 DEF MayLive, StatusOf
    <3>2. ClaimUnderWay(d)' => ClaimUnderWay(d)
      BY <1>2, SMT DEF ClaimUnderWay, Becomes, Idle, Of, NatsIInv, NatsTypes
    <3>3. Older(d, fence) \/ Older(d, c.epoch)
      BY <1>2, <2>1 DEF Older, StatusOf
    <3> QED BY <1>2, <1>5, <1>6, <3>1, <3>2, <3>3
  <2> QED BY <1>4, <2>1 DEF FenceInv
<1>8. Idle.pc = "idle" BY DEF Idle
<1>9. crashes' \in Nat BY <1>2 DEF NatsIInv, NatsTypes
<1> QED BY <1>2, <1>4, <1>7, <1>8, <1>9, IdleOK, CallStep

-----------------------------------------------------------------------------
(* Writes that find another revision.                                      *)

LEMMA ConflictKeeps ==
    ASSUME NatsIInv, NEW p \in Call, Conflicts(p, Idle),
           UNCHANGED <<epoch, guard, lock, index, tokens, fence, known, overtaken, crashes>>
    PROVE  NatsIInv'
<1>1. crashes' \in Nat BY DEF NatsIInv, NatsTypes
<1> QED BY <1>1, ReturnsKeeps DEF Conflicts, Returns

\* A claim whose record was written by another gives its guard back.
LEMMA ClaimConflictKeeps ==
    ASSUME NatsIInv, NEW p \in Call, At(p, "claim"), Conflicts(p, Then(p, <<"release">>)),
           UNCHANGED <<epoch, guard, lock, index, tokens, fence, known, overtaken, crashes>>
    PROVE  NatsIInv'
<1> DEFINE c == Then(p, <<"release">>)
<1>1. call[p] \in CallRecord /\ crashes' \in Nat /\ CallOK(p, call[p]) /\ call[p].pc = "claim"
  BY DEF NatsIInv, NatsTypes, CallInv, At
<1>2. c \in CallRecord
  BY <1>1, ThenTyped DEF Todos
<1>3. /\ c.pc = "after" /\ c.d = call[p].d /\ c.token = call[p].token /\ ~c.fresh
      /\ c.todo = <<"release">> /\ c.kind \notin {"enqueue", "interrupt"}
  <2>1. call[p].kind = "claim" BY <1>1 DEF CallOK, StepOK
  <2> QED BY <1>1, <2>1 DEF Then, CallRecord
<1> HIDE DEF c
<1>4. c.todo # <<>> BY <1>3
<1>5. CallOK(p, c)
  BY <1>1, <1>2, <1>3, <1>4, TodoFacts, SMT
     DEF CallOK, StepOK, FreshOK, TokenOK, Unused, LockOK, IndexOK, InterruptOK
<1> QED BY <1>1, <1>2, <1>3, <1>5, CallStep DEF Conflicts, c

\* The interrupt looks at the dispatch again.
LEMMA SupersedeConflictKeeps ==
    ASSUME NatsIInv, NEW p \in Call, At(p, "supersede"),
           Conflicts(p, [call[p] EXCEPT !.pc = "each", !.d = None,
                                        !.queued = @ \cup {Of(p)}]),
           UNCHANGED <<epoch, guard, lock, index, tokens, fence, known, overtaken, crashes>>
    PROVE  NatsIInv'
<1> DEFINE c == [call[p] EXCEPT !.pc = "each", !.d = None, !.queued = @ \cup {Of(p)}]
<1>1. /\ call[p] \in CallRecord /\ call[p].kind = "interrupt" /\ Of(p) \in Dispatch
      /\ call[p].todo \notin Releasing /\ InterruptOK(call[p]) /\ call[p].pc = "supersede"
  BY InterruptFacts DEF At
<1>2. Becomes(p, c) /\ UNCHANGED records
  BY DEF Conflicts
<1>3. c \in CallRecord
  BY <1>1, Zenon DEF CallRecord, Steps
<1>4. /\ c.pc = "each" /\ c.kind = "interrupt" /\ c.todo = call[p].todo
      /\ c.epoch = call[p].epoch /\ c.other = call[p].other /\ c.ids = call[p].ids
      /\ c.queued = call[p].queued \cup {Of(p)} /\ c.claimed = call[p].claimed
      /\ c.met = call[p].met /\ c.active = call[p].active
  BY <1>1 DEF CallRecord
<1> HIDE DEF c
<1>5. InterruptOK(c)
  <2>1. c.claimed \subseteq c.met /\ c.epoch <= epoch /\ c.ids = {}
    BY <1>1, <1>4 DEF InterruptOK
  <2>2. ASSUME NEW e \in Dispatch, Older(e, c.epoch)
        PROVE  /\ ClaimUnderWay(e) => Ahead(c, e)
               /\ StatusOf(e) = "Claimed" => Ahead(c, e) \/ e \in c.met
               /\ ~(Ahead(c, e) /\ e \in c.met)
               /\ e \in c.met \ c.claimed /\ MayLive(e) => c.active \in c.met
               /\ e \in c.claimed /\ c.other \notin {None, e} => ~MayLive(e)
    <3>1. Ahead(c, e) <=> Ahead(call[p], e)
      BY <1>1, <1>4 DEF Ahead, Of
    <3> QED BY <1>1, <1>4, <2>2, <3>1 DEF InterruptOK, Past
  <2> QED BY <1>4, <2>1, <2>2, Zenon DEF InterruptOK
<1> QED BY <1>1, <1>2, <1>3, <1>4, <1>5, InterruptStepKeeps

-----------------------------------------------------------------------------
(* The transitions of a record.                                            *)

\* What a transition that ends a claim, or a dispatch, makes of record r.
Ended(r, new) ==
    /\ new \in DispatchRecord /\ ValidForPersist(new)
    /\ new.status \in {"Queued"} \cup Terminal /\ new.token = NoToken /\ new.lease = "none"
    /\ new.status = "Queued" => new.epoch = r.epoch /\ new.attempts < MaxAttempts

LEMMA EndedOK ==
    ASSUME NEW r \in DispatchRecord, r.attempts < MaxAttempts, NEW n \in Nat
    PROVE  /\ Ended(r, MarkAcked(r)) /\ Ended(r, MarkCancelled(r)) /\ Ended(r, MarkDeadLetter(r))
           /\ Ended(r, MarkSupersededAtEpoch(r, n))
           /\ Ended(r, MarkNackResult(r, TRUE)) /\ Ended(r, MarkExpiredLease(r))
<1>1. 0 \in Nat /\ r.attempts + 1 \in 0..MaxAttempts /\ r.attempts \in Nat
  BY SMT DEF DispatchRecord
<1> USE DEF Terminal, Status, Stored, Active, NoToken, NoRun, RunStatus
<1>2. /\ MarkAcked(r) \in DispatchRecord
      /\ MarkCancelled(r) \in DispatchRecord
      /\ MarkDeadLetter(r) \in DispatchRecord
      /\ MarkSupersededAtEpoch(r, n) \in DispatchRecord
  BY <1>1, Zenon DEF DispatchRecord, MarkAcked, MarkCancelled, MarkDeadLetter,
     MarkSupersededAtEpoch, MarkSuperseded, ClearClaimFields, ClearRuntimeProjection
<1>3. MarkNackResult(r, TRUE) \in DispatchRecord /\ MarkExpiredLease(r) \in DispatchRecord
  BY <1>1, Zenon DEF DispatchRecord, MarkNackResult, MarkExpiredLease,
     ClearClaimFields, ClearRuntimeProjection
<1>4. Ended(r, MarkAcked(r)) /\ Ended(r, MarkCancelled(r)) /\ Ended(r, MarkDeadLetter(r))
  BY <1>2, SMT DEF Ended, DispatchRecord, ValidForPersist, MarkAcked, MarkCancelled,
     MarkDeadLetter, ClearClaimFields
<1>5. Ended(r, MarkSupersededAtEpoch(r, n))
  BY <1>2, SMT DEF Ended, DispatchRecord, ValidForPersist,
     MarkSupersededAtEpoch, MarkSuperseded, ClearClaimFields, ClearRuntimeProjection
<1>6. Ended(r, MarkNackResult(r, TRUE))
  BY <1>1, <1>3, SMT DEF Ended, DispatchRecord, ValidForPersist, MarkNackResult,
     ClearClaimFields, ClearRuntimeProjection
<1>7. Ended(r, MarkExpiredLease(r))
  BY <1>1, <1>3, SMT DEF Ended, DispatchRecord, ValidForPersist, MarkExpiredLease,
     ClearClaimFields, ClearRuntimeProjection
<1> QED BY <1>4, <1>5, <1>6, <1>7

\* A supersede, an ack, a cancel and a dead letter are final.
LEMMA FinalOK ==
    ASSUME NEW r \in DispatchRecord, NEW n \in Nat
    PROVE  /\ MarkAcked(r).status \in Terminal /\ MarkCancelled(r).status \in Terminal
           /\ MarkDeadLetter(r).status \in Terminal
           /\ MarkSupersededAtEpoch(r, n).status \in Terminal
BY SMT DEF DispatchRecord, Terminal, MarkAcked, MarkCancelled, MarkDeadLetter,
   MarkSupersededAtEpoch, MarkSuperseded, ClearClaimFields, ClearRuntimeProjection

-----------------------------------------------------------------------------
(* Writes of a record.                                                     *)

\* A write that ends the claim of d, keeps it, or is the claim of p.
Ends(d, r) == r.token = NoToken /\ r.status # "Claimed" /\ r.lease = "none"
Keeps(d, r) ==
    /\ r.token = records[d].token /\ r.status = "Claimed" /\ StatusOf(d) = "Claimed"
    /\ r.lease = "live" => \/ records[d].lease = "live"
                           \/ guard.token = r.token /\ guard.lease = "live"
Claims(p, d, r) ==
    /\ At(p, "claim") /\ r.status = "Claimed" /\ r.token = call[p].token
    /\ r.lease = "live" => guard.token = r.token /\ guard.lease = "live"

LEMMA RecordStep ==
    ASSUME NatsIInv, NEW p \in Call, NEW d \in Dispatch, Of(p) = d,
           StatusOf(d) \in Active,
           NEW r \in DispatchRecord, NEW c \in CallRecord, Writes(p, r, c),
           UNCHANGED <<epoch, guard, lock, index, tokens, fence, known, overtaken, crashes>>,
           ValidForPersist(r), r.status \in Stored,
           r.status \in Active => r.epoch = records[d].epoch /\ r.attempts < MaxAttempts,
           Ends(d, r) \/ Keeps(d, r) \/ Claims(p, d, r),
           ~c.fresh, c.pc \notin {"index", "put", "claim"}, c.kind # "enqueue",
           CallOK(p, c)'
    PROVE  NatsIInv'
<1>1. /\ records' = [records EXCEPT ![d] = r]
      /\ records'[d] = r
      /\ \A e \in Dispatch \ {d} : records'[e] = records[e]
      /\ records' \in [Dispatch -> DispatchRecord]
      /\ guard' = guard /\ epoch' = epoch /\ overtaken' = overtaken
  BY DEF Writes, NatsIInv, NatsTypes
<1>2. /\ call'[p] = c /\ call[p].fresh
      /\ \A q \in Call \ {p} : Unmoved(q) /\ (call[q].d = d => ~call'[q].fresh)
      /\ DOMAIN call' = Call
  <2>1. ASSUME NEW q \in Call \ {p}, call[q].d = d
        PROVE  ~call'[q].fresh /\ call'[q] = [call[q] EXCEPT !.fresh = FALSE]
    <3>1. call'[q] = [call[q] EXCEPT !.fresh = FALSE]
      BY <2>1 DEF Writes, Of
    <3>2. call[q] \in CallRecord BY DEF NatsIInv, NatsTypes
    <3> QED BY <3>1, <3>2, Zenon DEF CallRecord
  <2>2. ASSUME NEW q \in Call \ {p}, call[q].d # d
        PROVE  call'[q] = call[q]
    BY <2>2 DEF Writes, Of
  <2>3. call'[p] = c /\ call[p].fresh /\ DOMAIN call' = Call
    BY DEF Writes
  <2> QED BY <2>1, <2>2, <2>3 DEF Unmoved
<1>3. /\ call' \in [Call -> CallRecord]
      /\ \A q \in Call \ {p} :
            /\ call'[q] \in CallRecord
            /\ call'[q].pc = call[q].pc /\ call'[q].d = call[q].d
            /\ call'[q].kind = call[q].kind /\ call'[q].token = call[q].token
            /\ call'[q].epoch = call[q].epoch /\ call'[q].todo = call[q].todo
            /\ call'[q].other = call[q].other /\ call'[q].ids = call[q].ids
            /\ call'[q].queued = call[q].queued /\ call'[q].claimed = call[q].claimed
            /\ call'[q].met = call[q].met /\ call'[q].active = call[q].active
            /\ call'[q].fresh => call[q].fresh
  <2>1. \A q \in Call : call'[q] \in CallRecord
    BY <1>2, OthersKeep DEF NatsIInv
  <2>2. call' = [q \in Call |-> call'[q]]
    BY DEF Writes
  <2> QED BY <1>2, <2>1, <2>2, OthersKeep DEF NatsIInv
<1>4. NatsTypes'
  BY <1>1, <1>3 DEF NatsIInv, NatsTypes
<1>5. /\ CallOK(p, call[p]) /\ call[p] \in CallRecord /\ call[p].d = d
      /\ records[d].token \in Nat /\ tokens \in Nat /\ records[d].token <= tokens
  BY DEF NatsIInv, CallInv, Of, NatsTypes, DispatchRecord, RecordInv
<1>6. /\ r.token <= tokens
      /\ r.token # NoToken => \A e \in Dispatch \ {d} : records[e].token # r.token
      /\ r.token # NoToken /\ guard.token = r.token => guard.holder = d
      /\ \A q \in Call \ {p} : Unused(call[q]) => call[q].token # r.token
  <2>1. CASE Ends(d, r)
    BY <1>5, <2>1, SMT DEF Ends, NoToken, NatsIInv, CallInv, CallOK, TokenOK
  <2>2. CASE Keeps(d, r)
    BY <1>5, <2>2, SMT DEF Keeps, NatsIInv, TokenInv, CallInv, CallOK, TokenOK
  <2>3. CASE Claims(p, d, r)
    BY <1>5, <2>3, SMT DEF Claims, NatsIInv, CallInv, CallOK, TokenOK, Unused, Claiming, At
  <2> QED BY <2>1, <2>2, <2>3
<1>7. RecordInv'
  <2>1. r.status # "Absent" BY DEF Stored, Active, Terminal
  <2>2. r.attempts < MaxAttempts \/ r.status \in Terminal
    BY DEF Stored
  <2> QED BY <1>1, <1>6, <2>1, <2>2 DEF NatsIInv, RecordInv, StatusOf
<1>8. TokenInv' /\ GuardInv'
  BY <1>1, <1>6, SMT DEF NatsIInv, TokenInv, GuardInv
<1>9. OneLiveClaim'
  <2>1. ASSUME r.status = "Claimed", r.lease = "live"
        PROVE  guard = [holder |-> d, token |-> r.token, lease |-> "live"]
    <3>1. r.token # NoToken BY <2>1 DEF ValidForPersist
    <3>2. CASE guard.token = r.token /\ guard.lease = "live"
      BY <1>6, <3>1, <3>2, Zenon DEF NatsIInv, NatsTypes
    <3>3. CASE Keeps(d, r) /\ records[d].lease = "live"
      BY <3>3 DEF Keeps, NatsIInv, OneLiveClaim, LiveClaim
    <3> QED BY <2>1, <3>2, <3>3 DEF Ends, Keeps, Claims
  <2> QED BY <1>1, <2>1 DEF NatsIInv, OneLiveClaim, LiveClaim, StatusOf
<1>10. ASSUME NEW e \in Keyed, Protects(e)'
       PROVE  Protects(e)
  <2>1. CASE \E q \in Call : call'[q].pc \in {"index", "put"} /\ call'[q].d = e
    BY <1>1, <1>2, <1>3, <1>10, <2>1 DEF Protects, UnderWay, Of
  <2>2. CASE StatusOf(e)' \in Active /\ ~IsStale(e)'
    BY <1>1, <1>10, <2>2 DEF Protects, UnderWay, StatusOf, IsStale
  <2> QED BY <1>10, <2>1, <2>2 DEF Protects, UnderWay, Of
<1>11. LockInv'
  BY <1>10 DEF NatsIInv, LockInv
<1>12. IndexCoversActive'
  BY <1>1 DEF NatsIInv, IndexCoversActive, StatusOf
<1>13. ASSUME NEW e \in Dispatch, ClaimUnderWay(e)'
       PROVE  ClaimUnderWay(e) /\ e # d
  <2>1. PICK q \in Call : call'[q].pc \in {"guard", "claim"} /\ call'[q].fresh /\ call'[q].d = e
    BY <1>13 DEF ClaimUnderWay, Of
  <2>2. q # p BY <1>2, <2>1
  <2> QED BY <1>2, <1>3, <2>1, <2>2 DEF ClaimUnderWay, Of
<1>14. ASSUME NEW e \in Dispatch, NEW now, records'[e].epoch < now,
              records'[e].status \notin Terminal
       PROVE  Older(e, now)
  BY <1>1, <1>14 DEF Older, StatusOf, Stored, Active, Terminal
<1>15. ASSUME NEW e \in Dispatch
       PROVE  /\ MayLive(e)' => MayLive(e) \/ (e = d /\ ClaimUnderWay(d))
              /\ StatusOf(e)' = "Claimed" => StatusOf(e) = "Claimed" \/ (e = d /\ ClaimUnderWay(d))
  <2>1. CASE e # d
    BY <1>1, <2>1 DEF MayLive, StatusOf
  <2>2. CASE e = d
    <3>1. Claims(p, d, r) => ClaimUnderWay(d)
      BY <1>2 DEF Claims, ClaimUnderWay, At
    <3> QED BY <1>1, <2>2, <3>1 DEF MayLive, StatusOf, Ends, Keeps
  <2> QED BY <2>1, <2>2
<1>16. FenceInv'
  <2>1. ASSUME NEW e \in Dispatch, Older(e, fence)'
        PROVE  Older(e, fence)
    BY <1>14, <2>1 DEF Older, StatusOf
  <2> QED BY <1>13, <1>15, <2>1 DEF NatsIInv, FenceInv
<1>17. ASSUME NEW q \in Call \ {p}
       PROVE  CallOK(q, call[q])'
  <2>1. CallOK(q, call[q])
    BY DEF NatsIInv, CallInv
  <2>2. StepOK(q, call[q])'
    BY <1>1, <1>2, <1>3, <2>1, SMT DEF CallOK, StepOK, StatusOf, Active
  <2>3. FreshOK(call[q])'
    BY <1>1, <1>2, <1>3, <2>1, SMT DEF CallOK, FreshOK, StatusOf, StepOK
  <2>4. TokenOK(q, call[q])'
    BY <1>1, <1>2, <1>3, <1>6, <2>1, SMT DEF CallOK, TokenOK, Unused, Claiming, At
  <2>5. LockOK(call[q])' /\ IndexOK(call[q])'
    BY <1>1, <1>3, <1>10, <2>1, SMT DEF CallOK, LockOK, IndexOK, StepOK, StatusOf,
       Stored, Active, Terminal
  <2>6. InterruptOK(call[q])'
    <3> DEFINE x == call[q]
    <3>1. CASE call[q].kind # "interrupt"
      BY <1>3, <3>1 DEF InterruptOK
    <3>2. CASE call[q].kind = "interrupt"
      <4>1. \A e \in Dispatch : Ahead(x, e)' <=> Ahead(x, e)
        BY <1>3 DEF Ahead
      <4>2. Past(x)' <=> Past(x)
        BY <1>3 DEF Past
      <4>3. ASSUME NEW e \in Dispatch, Older(e, x.epoch)', Past(x)'
            PROVE  /\ ClaimUnderWay(e)' => Ahead(x, e)'
                   /\ StatusOf(e)' = "Claimed" => Ahead(x, e)' \/ e \in x.met
                   /\ ~(Ahead(x, e)' /\ e \in x.met)
                   /\ e \in x.met \ x.claimed /\ MayLive(e)' => x.active \in x.met
                   /\ x.pc # "scan" /\ e \in x.claimed /\ x.other \notin {None, e} => ~MayLive(e)'
        <5>1. Older(e, x.epoch)
          BY <1>3, <1>14, <4>3 DEF Older, StatusOf
        <5>2. /\ ClaimUnderWay(e) => Ahead(x, e)
              /\ StatusOf(e) = "Claimed" => Ahead(x, e) \/ e \in x.met
              /\ ~(Ahead(x, e) /\ e \in x.met)
              /\ e \in x.met \ x.claimed /\ MayLive(e) => x.active \in x.met
              /\ x.pc # "scan" /\ e \in x.claimed /\ x.other \notin {None, e} => ~MayLive(e)
          BY <1>3, <2>1, <3>2, <4>1, <4>2, <4>3, <5>1 DEF CallOK, InterruptOK
        <5>3. x.claimed \subseteq x.met
          BY <1>3, <2>1, <3>2 DEF CallOK, InterruptOK
        <5> QED BY <1>13, <1>15, <4>1, <5>2, <5>3
      <4> QED BY <1>1, <1>3, <2>1, <3>2, <4>3, Zenon DEF CallOK, InterruptOK
    <3> QED BY <3>1, <3>2
  <2> QED BY <2>2, <2>3, <2>4, <2>5, <2>6 DEF CallOK
<1> QED BY <1>2, <1>4, <1>7, <1>8, <1>9, <1>11, <1>12, <1>16, <1>17 DEF NatsIInv, CallInv

\* A call that ends the claim of its dispatch, or the dispatch, and goes on
\* with what follows.
LEMMA EndStep ==
    ASSUME NatsIInv, NEW p \in Call, NEW d \in Dispatch, Of(p) = d,
           StatusOf(d) \in Active, NEW r, Ended(records[d], r),
           NEW todo \in Todos \ {<<>>}, Writes(p, r, Then(p, todo)),
           UNCHANGED <<epoch, guard, lock, index, tokens, fence, known, overtaken, crashes>>,
           call[p].kind \notin {"enqueue", "interrupt"},
           todo \in Releasing => call[p].token = records[d].token /\ call[p].token # NoToken,
           todo \in Unlocking \cup Unindexing => r.status \in Terminal
    PROVE  NatsIInv'
<1>1. call[p] \in CallRecord
  BY DEF NatsIInv, NatsTypes
<1>t. Then(p, todo) \in CallRecord
  BY <1>1, ThenTyped
<1>2. PICK c \in CallRecord : c = Then(p, todo)
  BY <1>t
<1>3. /\ c.pc = "after" /\ c.d = d /\ c.token = call[p].token /\ ~c.fresh
      /\ c.todo = todo /\ c.kind = "after"
  BY <1>1, <1>2 DEF Then, CallRecord, Of
<1>4. /\ r \in DispatchRecord /\ ValidForPersist(r) /\ r.status \in Stored
      /\ r.status \in Active => r.epoch = records[d].epoch /\ r.attempts < MaxAttempts
      /\ Ends(d, r)
  BY DEF Ended, Ends, Stored, Active, Terminal
<1>5. /\ records'[d] = r
      /\ \A e \in Dispatch \ {d} : records'[e] = records[e]
  BY DEF Writes, NatsIInv, NatsTypes
<1>6. \A q \in Call \ {p} : call'[q].pc = call[q].pc /\ call'[q].token = call[q].token
  <2>1. ASSUME NEW q \in Call \ {p}
        PROVE  Unmoved(q)
    BY DEF Unmoved, Writes
  <2> QED BY <2>1, OthersKeep DEF NatsIInv
<1>7. TokenOK(p, c)'
  <2>1. CASE todo \in Releasing
    <3>1. /\ c.token # NoToken /\ c.token <= tokens
          /\ \A e \in Dispatch \ {d} : records[e].token # c.token
      BY <1>3, <2>1 DEF NatsIInv, RecordInv, TokenInv
    <3>2. \A q \in Call \ {p} : ~Claiming(q, c.token)
      BY <1>3, <2>1, SMT DEF NatsIInv, CallInv, CallOK, TokenOK, Unused, Claiming, At
    <3>3. records'[d].token # c.token
      BY <1>4, <1>5, <3>1 DEF Ends
    <3> QED BY <1>3, <1>5, <1>6, <3>1, <3>2, <3>3 DEF TokenOK, Claiming, At
  <2>2. CASE todo \notin Releasing
    BY <1>3, <2>2 DEF TokenOK, Unused
  <2> QED BY <2>1, <2>2
<1>8. StepOK(p, c)' /\ FreshOK(c)' /\ InterruptOK(c)'
  BY <1>3 DEF StepOK, FreshOK, InterruptOK
<1>9. LockOK(c)' /\ IndexOK(c)'
  BY <1>3, <1>5 DEF LockOK, IndexOK, StatusOf
<1>10. CallOK(p, c)'
  BY <1>7, <1>8, <1>9 DEF CallOK
<1>11. Writes(p, r, c) BY <1>2
<1> QED BY <1>2, <1>3, <1>4, <1>10, <1>11, RecordStep

LEMMA AfterEndOK ==
    /\ AfterEnd(TRUE) \in Todos \ {<<>>}
    /\ \A s : LET todo == AfterEnd(s \in Terminal)
              IN /\ todo \in Todos \ {<<>>}
                 /\ todo \in Unlocking \cup Unindexing => s \in Terminal
<1>1. AfterEnd(TRUE) \in Todos \ {<<>>}
  BY TodoFacts DEF AfterEnd
<1>2. ASSUME NEW s
      PROVE  /\ AfterEnd(s \in Terminal) \in Todos \ {<<>>}
             /\ s \notin Terminal => AfterEnd(s \in Terminal) \notin Unlocking \cup Unindexing
  <2>1. CASE s \in Terminal
    BY <2>1, TodoFacts DEF AfterEnd
  <2>2. CASE s \notin Terminal
    BY <2>2, TodoFacts DEF AfterEnd
  <2> QED BY <2>1, <2>2
<1> QED BY <1>1, <1>2, Zenon

\* What the lemmas about writes know of the call that writes.
LEMMA WriterFacts ==
    ASSUME NatsIInv, NEW p \in Call,
           call[p].pc \in {"claim", "stale", "settle", "renew", "reclaim", "cancel", "supersede"},
           call[p].fresh
    PROVE  /\ Of(p) \in Dispatch /\ StatusOf(Of(p)) \in Active
           /\ records[Of(p)] \in DispatchRecord /\ records[Of(p)].attempts < MaxAttempts
           /\ call[p] \in CallRecord /\ call[p].epoch \in Nat
           /\ call[p].kind \notin {"enqueue", "interrupt"} \/ At(p, "supersede")
           /\ call[p].pc \in {"stale", "settle", "renew", "reclaim"} =>
                 call[p].token = records[Of(p)].token
           /\ call[p].pc \in {"settle", "renew", "reclaim"} =>
                 StatusOf(Of(p)) = "Claimed" /\ call[p].token # NoToken
           /\ call[p].pc = "settle" => call[p].kind \in Kind
           /\ call[p].pc \in {"claim", "cancel", "supersede"} => StatusOf(Of(p)) = "Queued"
<1>1. CallOK(p, call[p]) /\ call[p] \in CallRecord
  BY DEF NatsIInv, NatsTypes, CallInv
<1>2. /\ Of(p) \in Dispatch
      /\ call[p].kind \notin {"enqueue", "interrupt"} \/ At(p, "supersede")
      /\ call[p].pc = "settle" => call[p].kind \in Kind
  BY <1>1 DEF CallOK, StepOK, Of, At
<1>3. /\ call[p].pc \in {"claim", "cancel", "supersede"} => StatusOf(Of(p)) = "Queued"
      /\ call[p].pc \in {"settle", "renew", "reclaim"} => StatusOf(Of(p)) = "Claimed"
      /\ call[p].pc \in {"stale", "settle", "renew", "reclaim"} =>
                 call[p].token = records[Of(p)].token
      /\ StatusOf(Of(p)) \in Active
  BY <1>1 DEF CallOK, FreshOK, Of, Active
<1>4. /\ records[Of(p)] \in DispatchRecord
      /\ ValidForPersist(records[Of(p)])
      /\ records[Of(p)].attempts < MaxAttempts
  BY <1>2, <1>3 DEF NatsIInv, NatsTypes, RecordInv, Active, Terminal, StatusOf
<1>5. call[p].pc \in {"settle", "renew", "reclaim"} => call[p].token # NoToken
  BY <1>3, <1>4 DEF ValidForPersist, StatusOf
<1>6. call[p].epoch \in Nat
  BY <1>1 DEF CallRecord
<1> QED BY <1>1, <1>2, <1>3, <1>4, <1>5, <1>6

LEMMA SupersedesStaleKeeps ==
    ASSUME NatsIInv, NEW p \in Call, SupersedesStale(p)
    PROVE  NatsIInv'
<1> DEFINE r == MarkSupersededAtEpoch(records[Of(p)], call[p].epoch)
           todo == IF call[p].token = NoToken THEN <<"unlock", "unindex">> ELSE AfterEnd(TRUE)
<1>1. CASE Writes(p, r, Then(p, todo))
  <2>1. /\ call[p].pc = "stale" /\ call[p].fresh
    BY <1>1 DEF SupersedesStale, At, Writes
  <2>2. Ended(records[Of(p)], r) /\ r.status \in Terminal
    BY <2>1, WriterFacts, EndedOK, FinalOK
  <2>3. todo \in Todos \ {<<>>} /\ (todo \in Releasing => call[p].token # NoToken)
    BY TodoFacts, AfterEndOK
  <2> HIDE DEF r, todo
  <2> QED BY <1>1, <2>1, <2>2, <2>3, WriterFacts, EndStep DEF SupersedesStale, At
<1>2. CASE Conflicts(p, Idle)
  BY <1>2, ConflictKeeps DEF SupersedesStale
<1> QED BY <1>1, <1>2 DEF SupersedesStale

LEMMA WritesReclaimedKeeps ==
    ASSUME NatsIInv, NEW p \in Call, WritesReclaimed(p)
    PROVE  NatsIInv'
<1> DEFINE r == MarkExpiredLease(records[Of(p)])
           todo == AfterEnd(r.status \in Terminal)
<1>1. CASE Writes(p, r, Then(p, todo))
  <2>1. /\ call[p].pc = "reclaim" /\ call[p].fresh
    BY <1>1 DEF WritesReclaimed, At, Writes
  <2>2. Ended(records[Of(p)], r)
    BY <2>1, WriterFacts, EndedOK
  <2>3. /\ todo \in Todos \ {<<>>}
        /\ todo \in Unlocking \cup Unindexing => r.status \in Terminal
    BY AfterEndOK
  <2> HIDE DEF r, todo
  <2> QED BY <1>1, <2>1, <2>2, <2>3, WriterFacts, EndStep DEF WritesReclaimed, At
<1>2. CASE Conflicts(p, Idle)
  BY <1>2, ConflictKeeps DEF WritesReclaimed
<1> QED BY <1>1, <1>2 DEF WritesReclaimed

LEMMA WritesCancelledKeeps ==
    ASSUME NatsIInv, NEW p \in Call, WritesCancelled(p)
    PROVE  NatsIInv'
<1> DEFINE r == MarkCancelled(records[Of(p)])
           todo == <<"unlock", "unindex">>
<1>1. CASE Writes(p, r, Then(p, todo))
  <2>1. /\ call[p].pc = "cancel" /\ call[p].fresh
    BY <1>1 DEF WritesCancelled, At, Writes
  <2>2. Ended(records[Of(p)], r) /\ r.status \in Terminal
    BY <2>1, WriterFacts, EndedOK, FinalOK
  <2>3. todo \in Todos \ {<<>>} /\ todo \notin Releasing
    BY TodoFacts
  <2> HIDE DEF r, todo
  <2> QED BY <1>1, <2>1, <2>2, <2>3, WriterFacts, EndStep DEF WritesCancelled, At
<1>2. CASE Conflicts(p, Idle)
  BY <1>2, ConflictKeeps DEF WritesCancelled
<1> QED BY <1>1, <1>2 DEF WritesCancelled

\* A write after which the record is still, or has become, claimed.
LEMMA ClaimedStep ==
    ASSUME NatsIInv, NEW p \in Call, NEW d \in Dispatch, Of(p) = d,
           StatusOf(d) \in Active, NEW r \in DispatchRecord, Writes(p, r, Idle),
           UNCHANGED <<epoch, guard, lock, index, tokens, fence, known, overtaken, crashes>>,
           r.status = "Claimed", r.token # NoToken, r.lease # "none",
           r.epoch = records[d].epoch, r.attempts < MaxAttempts,
           Keeps(d, r) \/ Claims(p, d, r)
    PROVE  NatsIInv'
<1>1. ValidForPersist(r) /\ r.status \in Stored
  BY DEF ValidForPersist, Stored, Active, Terminal
<1>2. Idle.pc = "idle" /\ Idle.kind = "none" /\ ~Idle.fresh
  BY DEF Idle
<1> QED BY <1>1, <1>2, IdleOK, RecordStep

LEMMA WritesClaimKeeps ==
    ASSUME NatsIInv, NEW p \in Call, WritesClaim(p)
    PROVE  NatsIInv'
<1> DEFINE old == records[Of(p)]
           r == [ClaimedWith(old, call[p].token) EXCEPT !.lease = LeaseOf(call[p].token)]
<1>1. CASE Writes(p, r, Idle)
  <2>1. /\ call[p].pc = "claim" /\ call[p].fresh
    BY <1>1 DEF WritesClaim, At, Writes
  <2>2. old \in DispatchRecord /\ call[p].token \in Nat /\ call[p].token # NoToken
    BY <2>1, WriterFacts DEF NatsIInv, CallInv, CallOK, TokenOK, Unused, CallRecord
  <2>3. LeaseOf(call[p].token) \in {"live", "lapsed"}
    BY DEF LeaseOf
  <2>4. r \in DispatchRecord
    BY <2>2, <2>3, Zenon DEF ClaimedWith, DispatchRecord, Status, Stored, Active
  <2>5. /\ r.status = "Claimed" /\ r.token = call[p].token /\ r.lease # "none"
        /\ r.epoch = old.epoch /\ r.attempts = old.attempts
        /\ r.lease = LeaseOf(call[p].token)
    BY <2>2, <2>3 DEF ClaimedWith, DispatchRecord
  <2>6. Claims(p, Of(p), r)
    BY <2>1, <2>5 DEF Claims, At, LeaseOf
  <2> HIDE DEF r
  <2> QED BY <1>1, <2>1, <2>2, <2>4, <2>5, <2>6, WriterFacts, ClaimedStep DEF WritesClaim
<1>2. CASE Conflicts(p, Then(p, <<"release">>))
  BY <1>2, ClaimConflictKeeps DEF WritesClaim
<1> QED BY <1>1, <1>2 DEF WritesClaim

LEMMA WritesRenewedKeeps ==
    ASSUME NatsIInv, NEW p \in Call, WritesRenewed(p)
    PROVE  NatsIInv'
<1> DEFINE old == records[Of(p)]
           r == [LeaseExtended(old) EXCEPT !.lease = LeaseOf(call[p].token)]
<1>1. CASE Writes(p, r, Idle)
  <2>1. /\ call[p].pc = "renew" /\ call[p].fresh
    BY <1>1 DEF WritesRenewed, At, Writes
  <2>2. old \in DispatchRecord /\ old.status = "Claimed" /\ old.token = call[p].token
        /\ call[p].token # NoToken
    BY <2>1, WriterFacts DEF StatusOf
  <2>3. LeaseOf(call[p].token) \in {"live", "lapsed"}
    BY DEF LeaseOf
  <2>4. r \in DispatchRecord
    BY <2>2, <2>3, Zenon DEF LeaseExtended, DispatchRecord
  <2>5. /\ r.status = "Claimed" /\ r.token = call[p].token /\ r.lease # "none"
        /\ r.epoch = old.epoch /\ r.attempts = old.attempts
        /\ r.lease = LeaseOf(call[p].token)
    BY <2>2, <2>3 DEF LeaseExtended, DispatchRecord
  <2>6. Keeps(Of(p), r)
    BY <2>2, <2>5 DEF Keeps, LeaseOf, StatusOf
  <2> HIDE DEF r
  <2> QED BY <1>1, <2>1, <2>2, <2>4, <2>5, <2>6, WriterFacts, ClaimedStep DEF WritesRenewed
<1>2. CASE Conflicts(p, Idle)
  BY <1>2, ConflictKeeps DEF WritesRenewed
<1> QED BY <1>1, <1>2 DEF WritesRenewed

LEMMA WritesSettledKeeps ==
    ASSUME NatsIInv, NEW p \in Call, WritesSettled(p)
    PROVE  NatsIInv'
<1> DEFINE old == records[Of(p)]
           r == Settled(old, call[p].kind, call[p].epoch)
           todo == AfterEnd(r.status \in Terminal)
           next == IF call[p].kind = "start" THEN Idle ELSE Then(p, todo)
<1>1. CASE Writes(p, r, next)
  <2>1. /\ call[p].pc = "settle" /\ call[p].fresh
    BY <1>1 DEF WritesSettled, At, Writes
  <2>2. /\ old \in DispatchRecord /\ old.attempts < MaxAttempts
        /\ old.status = "Claimed" /\ old.token = call[p].token
        /\ call[p].token # NoToken /\ call[p].kind \in Kind /\ call[p].epoch \in Nat
    BY <2>1, WriterFacts DEF StatusOf
  <2>3. CASE call[p].kind = "start"
    <3>1. r = DispatchStarted(old) /\ next = Idle
      BY <2>3 DEF Settled
    <3>2. r \in DispatchRecord
      BY <2>2, <3>1, Zenon DEF DispatchStarted, DispatchRecord, RunStatus
    <3>3. /\ r.status = "Claimed" /\ r.token = old.token /\ r.lease = old.lease
          /\ r.epoch = old.epoch /\ r.attempts = old.attempts
      BY <2>2, <3>1 DEF DispatchStarted, DispatchRecord
    <3>4. old.lease # "none"
      BY <2>1, <2>2, WriterFacts DEF NatsIInv, RecordInv, ValidForPersist
    <3>5. Keeps(Of(p), r)
      BY <2>2, <3>3 DEF Keeps, StatusOf
    <3> HIDE DEF r
    <3> QED BY <1>1, <2>1, <2>2, <3>1, <3>2, <3>3, <3>4, <3>5, WriterFacts, ClaimedStep
            DEF WritesSettled
  <2>4. CASE call[p].kind # "start"
    <3>1. Ended(old, r)
      BY <2>2, <2>4, EndedOK DEF Settled, Kind
    <3>2. /\ todo \in Todos \ {<<>>}
          /\ todo \in Unlocking \cup Unindexing => r.status \in Terminal
      BY AfterEndOK
    <3>3. Writes(p, r, Then(p, todo))
      BY <1>1, <2>4
    <3> HIDE DEF r, todo, next
    <3> QED BY <2>1, <2>2, <3>1, <3>2, <3>3, WriterFacts, EndStep DEF WritesSettled, At
  <2> QED BY <2>3, <2>4
<1>2. CASE Conflicts(p, Idle)
  BY <1>2, ConflictKeeps DEF WritesSettled
<1> QED BY <1>1, <1>2 DEF WritesSettled

-----------------------------------------------------------------------------
(* What follows a write.                                                   *)

LEMMA AfterTodoOK ==
    ASSUME NatsIInv, NEW p \in Call, At(p, "after")
    PROVE  /\ AfterTodo(p) \in CallRecord /\ CallOK(p, AfterTodo(p))
           /\ AfterTodo(p).pc \in {"after", "each", "idle"}
           /\ call[p].todo \in Todos \ {<<>>} /\ Of(p) \in Dispatch
<1> DEFINE t == call[p].todo
           c == [call[p] EXCEPT !.todo = Tail(@)]
<1>1. /\ call[p] \in CallRecord /\ CallOK(p, call[p]) /\ call[p].pc = "after"
      /\ t \in Todos \ {<<>>} /\ Of(p) \in Dispatch
  BY DEF NatsIInv, NatsTypes, CallInv, CallOK, StepOK, CallRecord, At, Of
<1>2. /\ Tail(t) \in Todos /\ Tail(t) \notin Releasing
      /\ Tail(t) \in Unlocking => t \in Unlocking
      /\ Tail(t) \in Unindexing => t \in Unindexing
      /\ t = <<"unlock">> => Tail(t) = <<>>
  BY <1>1, TodoFacts, TailFacts DEF Unlocking, Unindexing
<1>3. c \in CallRecord
  BY <1>1, <1>2, Zenon DEF CallRecord
<1>4. /\ c.pc = "after" /\ c.d = call[p].d /\ c.kind = call[p].kind
      /\ c.todo = Tail(t) /\ c.fresh = call[p].fresh /\ c.token = call[p].token
      /\ c.epoch = call[p].epoch /\ c.other = call[p].other /\ c.ids = call[p].ids
      /\ c.queued = call[p].queued /\ c.claimed = call[p].claimed
      /\ c.met = call[p].met /\ c.active = call[p].active
  BY <1>1 DEF CallRecord
<1>5. ASSUME NEW x \in CallRecord, x.kind = "interrupt", call[p].kind = "interrupt",
             x.pc \in {"after", "each"}, x.epoch = call[p].epoch, x.other = call[p].other,
             x.ids = call[p].ids, x.queued = call[p].queued, x.claimed = call[p].claimed,
             x.met = call[p].met, x.active = call[p].active
      PROVE  InterruptOK(x)
  <2>1. \A e \in Dispatch : Ahead(x, e) <=> Ahead(call[p], e)
    BY <1>1, <1>5 DEF Ahead
  <2> QED BY <1>1, <1>5, <2>1, SMT DEF CallOK, InterruptOK, Past
<1>6. CASE Tail(t) # <<>>
  <2>1. AfterTodo(p) = c
    BY <1>4, <1>6 DEF AfterTodo
  <2> HIDE DEF c
  <2>2. InterruptOK(c)
    BY <1>3, <1>4, <1>5 DEF InterruptOK
  <2>3. StepOK(p, c) /\ FreshOK(c) /\ TokenOK(p, c) /\ LockOK(c) /\ IndexOK(c)
    BY <1>1, <1>2, <1>4, <1>6, SMT
       DEF CallOK, StepOK, FreshOK, TokenOK, Unused, LockOK, IndexOK
  <2> QED BY <1>1, <1>3, <1>4, <2>1, <2>2, <2>3 DEF CallOK
<1>7. CASE Tail(t) = <<>> /\ call[p].kind = "interrupt"
  <2> DEFINE x == [c EXCEPT !.pc = "each", !.d = None]
  <2>1. AfterTodo(p) = x
    BY <1>4, <1>7 DEF AfterTodo
  <2>2. x \in CallRecord
    BY <1>3, Zenon DEF CallRecord, Steps
  <2>3. /\ x.pc = "each" /\ x.kind = "interrupt"
        /\ x.todo = <<>> /\ x.epoch = call[p].epoch /\ x.other = call[p].other
        /\ x.ids = call[p].ids /\ x.queued = call[p].queued
        /\ x.claimed = call[p].claimed /\ x.met = call[p].met
        /\ x.active = call[p].active
    BY <1>3, <1>4, <1>7 DEF CallRecord
  <2> HIDE DEF x
  <2>4. InterruptOK(x)
    BY <1>5, <1>7, <2>2, <2>3
  <2>5. StepOK(p, x) /\ FreshOK(x) /\ TokenOK(p, x) /\ LockOK(x) /\ IndexOK(x)
    BY <2>3, TodoFacts, SMT DEF StepOK, FreshOK, TokenOK, Unused, LockOK, IndexOK
  <2> QED BY <1>1, <2>1, <2>2, <2>3, <2>4, <2>5 DEF CallOK
<1>8. CASE Tail(t) = <<>> /\ call[p].kind # "interrupt"
  <2>1. AfterTodo(p) = Idle
    BY <1>4, <1>8 DEF AfterTodo
  <2>2. Idle.pc = "idle" BY DEF Idle
  <2> QED BY <1>1, <2>1, <2>2, IdleOK
<1> QED BY <1>6, <1>7, <1>8

LEMMA ReleasesGuardKeeps ==
    ASSUME NatsIInv, NEW p \in Call, ReleasesGuard(p)
    PROVE  NatsIInv'
<1>1. At(p, "after") /\ call[p].todo \in Releasing
  BY AfterTodoOK, TailFacts DEF ReleasesGuard, Todo
<1>2. PICK c \in CallRecord : c = AfterTodo(p) /\ CallOK(p, c) /\ c.pc \in {"after", "each", "idle"}
  BY <1>1, AfterTodoOK
<1>3. /\ call'[p] = c /\ call' = [q \in Call |-> call'[q]]
      /\ \A q \in Call \ {p} : Unmoved(q)
      /\ UNCHANGED <<records, epoch, lock, index, tokens, fence, known, overtaken, crashes>>
  BY <1>2 DEF ReleasesGuard, Becomes, Unmoved, NatsIInv, NatsTypes
<1>4. CASE HoldsGuard(p)
  <2>1. guard' = [guard EXCEPT !.lease = "released"]
    BY <1>4 DEF ReleasesGuard
  <2>2. guard'.lease = "released"
    BY <2>1 DEF NatsIInv, NatsTypes
  <2>3. \A e \in Dispatch : records[e].token # guard.token
    BY <1>1, <1>4 DEF HoldsGuard, NatsIInv, CallInv, CallOK, TokenOK, Unused, At
  <2>4. \A e \in Dispatch : ~LiveClaim(e)
    BY <2>3 DEF NatsIInv, OneLiveClaim
  <2>5. OneLiveClaim' /\ GuardInv'
    BY <1>3, <2>2, <2>4 DEF OneLiveClaim, LiveClaim, StatusOf, GuardInv
  <2> QED BY <1>2, <1>3, <2>1, <2>5, ThreadStep
       DEF CallOK, NatsIInv, NatsTypes, LockInv, IndexOK, StatusOf
<1>5. CASE ~HoldsGuard(p)
  <2>1. UNCHANGED guard
    BY <1>5 DEF ReleasesGuard
  <2> QED BY <1>2, <1>3, <2>1, ThreadStep
       DEF CallOK, NatsIInv, NatsTypes, LockInv, IndexOK, StatusOf
<1> QED BY <1>4, <1>5

LEMMA RemovesFromIndexKeeps ==
    ASSUME NatsIInv, NEW p \in Call, RemovesFromIndex(p)
    PROVE  NatsIInv'
<1>1. At(p, "after") /\ call[p].todo \in Unindexing
  BY AfterTodoOK, TailFacts DEF RemovesFromIndex, Todo, Unindexing
<1>2. PICK c \in CallRecord : c = AfterTodo(p) /\ CallOK(p, c) /\ c.pc \in {"after", "each", "idle"}
  BY <1>1, AfterTodoOK
<1>3. /\ call'[p] = c /\ call' = [q \in Call |-> call'[q]]
      /\ \A q \in Call \ {p} : Unmoved(q)
      /\ UNCHANGED <<records, epoch, guard, lock, tokens, fence, known, overtaken, crashes>>
      /\ index' = index \ {Of(p)}
  BY <1>2 DEF RemovesFromIndex, Becomes, Unmoved, NatsIInv, NatsTypes
<1>4. StatusOf(Of(p)) \in Terminal
  BY <1>1 DEF NatsIInv, CallInv, CallOK, IndexOK, At, Of
<1> QED BY <1>2, <1>3, <1>4, ThreadStep
    DEF CallOK, NatsIInv, NatsTypes, LockInv, IndexOK, StatusOf

\* The dispatch whose lock is given back is protected no more.
LEMMA ReleasesLockKeeps ==
    ASSUME NatsIInv, NEW p \in Call, ReleasesLock(p)
    PROVE  NatsIInv'
<1>1. At(p, "after") /\ call[p].todo \in Unlocking
  BY AfterTodoOK, TailFacts DEF ReleasesLock, Todo, Unlocking
<1>2. PICK c \in CallRecord : c = AfterTodo(p) /\ CallOK(p, c) /\ c.pc \in {"after", "each", "idle"}
  BY <1>1, AfterTodoOK
<1>3. UNCHANGED <<records, epoch, guard, index, tokens, fence, known, overtaken, crashes>>
  BY DEF ReleasesLock
<1>4. CASE lock = Of(p)
  <2>1. PutsLock(p, None, c)
    BY <1>2, <1>4 DEF ReleasesLock
  <2>2. /\ call'[p] = c /\ call' = [q \in Call |-> call'[q]] /\ lock' = None
        /\ \A q \in Call \ {p} :
              /\ Unmoved(q)
              /\ call[q].pc \in {"holder", "purge"} => ~call'[q].fresh
    <3>1. /\ call'[p] = c /\ call' = [q \in Call |-> call'[q]] /\ lock' = None
          /\ \A q \in Call \ {p} : Unmoved(q)
      BY <2>1 DEF PutsLock, Unmoved
    <3>2. ASSUME NEW q \in Call \ {p}, call[q].pc \in {"holder", "purge"}
          PROVE  ~call'[q].fresh
      <4>1. call'[q] = [call[q] EXCEPT !.fresh = FALSE]
        BY <2>1, <3>2 DEF PutsLock
      <4> QED BY <4>1, Zenon DEF NatsIInv, NatsTypes, CallRecord
    <3> QED BY <3>1, <3>2
  <2>3. \A e \in Keyed : ~Protects(e)
    <3>1. /\ \/ StatusOf(Of(p)) \in Terminal \/ call[p].kind = "enqueue"
             \/ Of(p) \in overtaken
          /\ StepOK(p, call[p]) /\ call[p].pc = "after"
      BY <1>1 DEF NatsIInv, CallInv, CallOK, LockOK, At, Of
    <3>2. ~Protects(Of(p))
      BY <3>1, SMT DEF Protects, UnderWay, StepOK, Active, Terminal, Of, NatsIInv, CallInv, CallOK
    <3> QED BY <1>4, <3>2 DEF NatsIInv, LockInv
  <2> QED BY <1>2, <1>3, <2>2, <2>3, ThreadStep
       DEF CallOK, NatsIInv, NatsTypes, LockInv, IndexOK, StatusOf
<1>5. CASE lock # Of(p)
  <2>1. UNCHANGED lock /\ Becomes(p, c)
    BY <1>2, <1>5 DEF ReleasesLock
  <2>2. crashes' \in Nat
    BY <1>3 DEF NatsIInv, NatsTypes
  <2> QED BY <1>2, <1>3, <2>1, <2>2, CallStep
<1> QED BY <1>4, <1>5

-----------------------------------------------------------------------------
(* The remaining writes of an enqueue.                                     *)

\* What it takes to give the lock another holder.
LEMMA PutsLockStep ==
    ASSUME NatsIInv, NEW p \in Call, NEW holder \in Keyed \cup {None},
           NEW c \in CallRecord, PutsLock(p, holder, c), CallOK(p, c),
           c.pc \in {"index", "lock"}, c.pc = "index" => c.d = holder,
           \A e \in Keyed : Protects(e) => e = holder,
           \/ UNCHANGED overtaken
           \/ c.pc = "index" /\ overtaken' = overtaken \ {c.d},
           UNCHANGED <<records, epoch, guard, index, tokens, fence, known, crashes>>
    PROVE  NatsIInv'
<1>1. /\ call'[p] = c /\ call' = [q \in Call |-> call'[q]] /\ lock' = holder
      /\ \A q \in Call \ {p} : Unmoved(q)
  BY DEF PutsLock, Unmoved
<1>2. ASSUME NEW q \in Call \ {p}, call[q].pc \in {"holder", "purge"}
      PROVE  ~call'[q].fresh
  <2>1. call'[q] = [call[q] EXCEPT !.fresh = FALSE]
    BY <1>2 DEF PutsLock
  <2> QED BY <2>1, Zenon DEF NatsIInv, NatsTypes, CallRecord
<1> QED BY <1>1, <1>2, ThreadStep DEF CallOK, NatsIInv, NatsTypes, IndexOK, StatusOf

LEMMA LocksKeeps ==
    ASSUME NatsIInv, NEW p \in Call, Locks(p)
    PROVE  NatsIInv'
<1>1. /\ call[p] \in CallRecord /\ CallOK(p, call[p]) /\ call[p].pc = "lock"
      /\ Of(p) \in Keyed
  BY DEF NatsIInv, NatsTypes, CallInv, CallOK, StepOK, Locks, At, Of
<1>2. UNCHANGED <<records, epoch, guard, index, tokens, fence, known, crashes>>
  BY DEF Locks
<1>3. CASE lock = None
  <2>1. PICK c : c = [call[p] EXCEPT !.pc = "index"]
    OBVIOUS
  <2>2. c \in CallRecord
    BY <1>1, <2>1, Zenon DEF CallRecord, Steps
  <2>3. /\ c.pc = "index" /\ c.d = call[p].d /\ c.kind = call[p].kind
        /\ c.fresh = call[p].fresh
    BY <1>1, <2>1 DEF CallRecord
  <2>4. CallOK(p, c)
    BY <1>1, <2>3, SMT
       DEF CallOK, StepOK, FreshOK, TokenOK, Unused, LockOK, IndexOK, InterruptOK
  <2>5. PutsLock(p, Of(p), c) /\ overtaken' = overtaken \ {c.d}
    BY <1>3, <2>1, <2>3 DEF Locks, Of
  <2>6. \A e \in Keyed : ~Protects(e)
    BY <1>3 DEF NatsIInv, LockInv
  <2> QED BY <1>1, <1>2, <2>2, <2>3, <2>4, <2>5, <2>6, PutsLockStep DEF Of
<1>4. CASE lock # None
  <2>1. PICK c : c = [call[p] EXCEPT !.pc = "holder", !.other = lock, !.fresh = TRUE]
    OBVIOUS
  <2>2. lock \in Keyed /\ crashes' \in Nat
    BY <1>2, <1>4 DEF NatsIInv, NatsTypes
  <2>3. c \in CallRecord
    BY <1>1, <2>1, <2>2, Zenon DEF CallRecord, Steps
  <2>4. /\ c.pc = "holder" /\ c.d = call[p].d /\ c.kind = call[p].kind
        /\ c.other = lock
    BY <1>1, <2>1 DEF CallRecord
  <2>5. CallOK(p, c)
    BY <1>1, <2>2, <2>4, SMT
       DEF CallOK, StepOK, FreshOK, TokenOK, Unused, LockOK, IndexOK, InterruptOK, Of
  <2>6. Becomes(p, c) /\ UNCHANGED <<lock, overtaken>>
    BY <1>4, <2>1 DEF Locks
  <2> QED BY <1>2, <2>2, <2>3, <2>4, <2>5, <2>6, CallStep
<1> QED BY <1>3, <1>4

\* The key that is deleted protects nothing, if nobody has put another.
LEMMA PurgesLockKeeps ==
    ASSUME NatsIInv, NEW p \in Call, PurgesLock(p)
    PROVE  NatsIInv'
<1>1. /\ call[p] \in CallRecord /\ CallOK(p, call[p]) /\ call[p].pc = "purge"
      /\ Of(p) \in Keyed /\ call[p].other \in Keyed
  BY DEF NatsIInv, NatsTypes, CallInv, CallOK, StepOK, PurgesLock, At, Of
<1>2. /\ UNCHANGED <<records, epoch, guard, index, tokens, fence, known, overtaken, crashes>>
      /\ crashes' \in Nat
  BY DEF PurgesLock, NatsIInv, NatsTypes
<1>3. PICK c : c = [call[p] EXCEPT !.pc = "lock", !.other = None, !.fresh = FALSE]
  OBVIOUS
<1>4. c \in CallRecord
  BY <1>1, <1>3, Zenon DEF CallRecord, Steps
<1>5. /\ c.pc = "lock" /\ c.d = call[p].d /\ c.kind = call[p].kind /\ ~c.fresh
  BY <1>1, <1>3 DEF CallRecord
<1>6. CallOK(p, c)
  BY <1>1, <1>5, SMT
     DEF CallOK, StepOK, FreshOK, TokenOK, Unused, LockOK, IndexOK, InterruptOK, Of
<1>7. CASE call[p].fresh
  <2>1. PutsLock(p, None, c)
    BY <1>3, <1>7 DEF PurgesLock
  <2>2. \A e \in Keyed : ~Protects(e)
    BY <1>1, <1>7 DEF CallOK, LockOK, NatsIInv, LockInv
  <2> QED BY <1>2, <1>4, <1>5, <1>6, <2>1, <2>2, PutsLockStep
<1>8. CASE ~call[p].fresh /\ lock = None
  <2>1. Becomes(p, c) /\ UNCHANGED lock
    BY <1>3, <1>8 DEF PurgesLock
  <2> QED BY <1>2, <1>4, <1>5, <1>6, <2>1, CallStep
<1>9. CASE ~call[p].fresh /\ lock # None
  <2>1. Returns(p) /\ UNCHANGED lock
    BY <1>9 DEF PurgesLock, Returns
  <2> QED BY <1>2, <2>1, ReturnsKeeps
<1> QED BY <1>7, <1>8, <1>9

LEMMA AppendsIndexKeeps ==
    ASSUME NatsIInv, NEW p \in Call, AppendsIndex(p)
    PROVE  NatsIInv'
<1>1. /\ call[p] \in CallRecord /\ CallOK(p, call[p]) /\ call[p].pc = "index"
      /\ Of(p) \in Dispatch
  BY DEF NatsIInv, NatsTypes, CallInv, CallOK, StepOK, AppendsIndex, At, Of
<1>2. /\ UNCHANGED <<records, epoch, guard, lock, tokens, fence, known, overtaken, crashes>>
      /\ index' = index \cup {Of(p)}
  BY DEF AppendsIndex
<1>3. PICK c : c = [call[p] EXCEPT !.pc = "put"]
  OBVIOUS
<1>4. c \in CallRecord
  BY <1>1, <1>3, Zenon DEF CallRecord, Steps
<1>5. /\ c.pc = "put" /\ c.d = call[p].d /\ c.kind = call[p].kind
      /\ c.fresh = call[p].fresh
  BY <1>1, <1>3 DEF CallRecord
<1>6. StepOK(p, c) /\ FreshOK(c) /\ TokenOK(p, c) /\ LockOK(c) /\ IndexOK(c)' /\ InterruptOK(c)
  BY <1>1, <1>2, <1>5, SMT
     DEF CallOK, StepOK, FreshOK, TokenOK, Unused, LockOK, IndexOK, InterruptOK, Of
<1>7. /\ call'[p] = c /\ call' = [q \in Call |-> call'[q]]
      /\ \A q \in Call \ {p} : Unmoved(q)
  BY <1>3 DEF AppendsIndex, Goto, Becomes, Unmoved, NatsIInv, NatsTypes
<1>8. Protects(c.d) \/ c.d \in overtaken
  BY <1>1, <1>5 DEF Protects, UnderWay, Of
<1> QED BY <1>1, <1>2, <1>4, <1>5, <1>6, <1>7, <1>8, ThreadStep
    DEF NatsIInv, NatsTypes, LockInv

\* The record takes the place that the enqueue has kept for it.
PutsAndGoesOn(p, c) ==
    /\ At(p, "put")
    /\ records' = [records EXCEPT ![Of(p)] = PrepareForEnqueue(call[p].epoch, TRUE)]
    /\ Becomes(p, c)
    /\ overtaken' \in {overtaken, overtaken \cup {Of(p)}} /\ crashes' \in Nat
    /\ UNCHANGED <<epoch, guard, lock, index, tokens, fence, known>>

LEMMA RecordAppears ==
    ASSUME NatsIInv, NEW p \in Call, NEW c \in CallRecord, PutsAndGoesOn(p, c),
           ~c.fresh, c.pc \in {"idle", "after"}, c.kind # "enqueue", CallOK(p, c)'
    PROVE  NatsIInv'
<1>0. PICK d, r : d = Of(p) /\ r = PrepareForEnqueue(call[p].epoch, TRUE)
  OBVIOUS
<1>1. /\ call[p] \in CallRecord /\ CallOK(p, call[p]) /\ call[p].pc = "put"
      /\ d \in Dispatch /\ StatusOf(d) = "Absent" /\ d \in index
      /\ records[d].token = NoToken /\ records[d].epoch = 0
      /\ \A q \in Call \ {p} : ~(call[q].kind = "enqueue" /\ call[q].d = d)
  <2>1. call[p] \in CallRecord /\ CallOK(p, call[p]) /\ call[p].pc = "put"
    BY DEF NatsIInv, NatsTypes, CallInv, PutsAndGoesOn, At
  <2>2. /\ d \in Dispatch /\ StatusOf(d) = "Absent" /\ d \in index
        /\ \A q \in Call \ {p} : ~(call[q].kind = "enqueue" /\ call[q].d = d)
    BY <1>0, <2>1 DEF CallOK, StepOK, IndexOK, Of
  <2> QED BY <2>1, <2>2 DEF NatsIInv, RecordInv
<1>2. /\ r \in DispatchRecord /\ r.status = "Queued" /\ r.epoch = call[p].epoch
      /\ r.token = NoToken /\ r.lease = "none" /\ ValidForPersist(r)
      /\ r.attempts < MaxAttempts
  <2>1. call[p].epoch \in Nat /\ 0 \in Nat /\ 0 \in 0..MaxAttempts /\ 0 < MaxAttempts
    BY <1>1, SMT DEF CallRecord
  <2>2. r \in DispatchRecord
    BY <1>0, <2>1, Zenon DEF PrepareForEnqueue, Blank, DispatchRecord, Status, Stored, Active,
       NoToken, NoRun
  <2> QED BY <1>0, <2>1, <2>2, SMT DEF PrepareForEnqueue, Blank, ValidForPersist, Terminal
<1>3. /\ records' = [records EXCEPT ![d] = r] /\ records'[d] = r
      /\ records' \in [Dispatch -> DispatchRecord]
      /\ \A e \in Dispatch \ {d} : records'[e] = records[e]
      /\ UNCHANGED <<epoch, guard, lock, index, tokens, fence, known>>
      /\ overtaken \subseteq overtaken' /\ overtaken' \subseteq Dispatch /\ crashes' \in Nat
      /\ call'[p] = c /\ call' \in [Call -> CallRecord]
      /\ \A q \in Call \ {p} : call'[q] = call[q]
  BY <1>0, <1>1, <1>2 DEF PutsAndGoesOn, Becomes, NatsIInv, NatsTypes
<1>4. NatsTypes'
  BY <1>3 DEF NatsIInv, NatsTypes
<1>5. RecordInv'
  <2>1. r.token <= tokens
    BY <1>2, SMT DEF NatsIInv, NatsTypes, NoToken
  <2> QED BY <1>2, <1>3, <2>1 DEF NatsIInv, RecordInv, StatusOf, Stored, Active
<1>6. TokenInv' /\ GuardInv' /\ OneLiveClaim'
  BY <1>1, <1>2, <1>3, SMT
     DEF NatsIInv, TokenInv, GuardInv, OneLiveClaim, LiveClaim, StatusOf
<1>8. ASSUME NEW e \in Keyed, Protects(e)'
      PROVE  Protects(e)
  <2>1. CASE \E q \in Call : call'[q].pc \in {"index", "put"} /\ call'[q].d = e
    BY <1>3, <1>8, <2>1 DEF Protects, UnderWay, Of
  <2>2. CASE StatusOf(e)' \in Active /\ ~IsStale(e)' /\ e # d
    BY <1>3, <1>8, <2>2 DEF Protects, UnderWay, StatusOf, IsStale
  <2>3. CASE e = d
    BY <1>0, <1>1, <1>3, <1>8, <2>3 DEF Protects, UnderWay
  <2> QED BY <1>3, <1>8, <2>1, <2>2, <2>3 DEF Protects, UnderWay, Of
<1>9. LockInv' /\ IndexCoversActive'
  BY <1>1, <1>3, <1>8 DEF NatsIInv, LockInv, IndexCoversActive, StatusOf
<1>10. ASSUME NEW e \in Dispatch, ClaimUnderWay(e)'
       PROVE  ClaimUnderWay(e) /\ e # d
  <2>1. ClaimUnderWay(e)
    BY <1>3, <1>10 DEF ClaimUnderWay, Of
  <2> QED BY <1>1, <2>1, ClaimUnderWayQueued
<1>11. ASSUME NEW e \in Dispatch, NEW now \in Nat, records'[e].epoch < now,
              records'[e].status \notin Terminal
       PROVE  Older(e, now)
  <2>1. CASE e # d
    BY <1>3, <1>11, <2>1 DEF Older, StatusOf
  <2>2. CASE e = d
    BY <1>1, <1>2, <1>3, <1>11, <2>2, SMT DEF Older, CallRecord, Terminal
  <2> QED BY <2>1, <2>2
<1>12. \A e \in Dispatch : /\ MayLive(e)' => MayLive(e)
                           /\ StatusOf(e)' = "Claimed" => StatusOf(e) = "Claimed"
  BY <1>2, <1>3 DEF MayLive, StatusOf
<1>13. FenceInv'
  BY <1>3, <1>10, <1>11, <1>12 DEF NatsIInv, NatsTypes, FenceInv, Older, StatusOf
<1>14. CallOK(p, call[p])'
  BY <1>3
<1>15. ASSUME NEW q \in Call \ {p}
       PROVE  CallOK(q, call[q])'
  <2>1. CallOK(q, call[q]) /\ call'[q] = call[q] /\ call[q] \in CallRecord
    BY <1>3 DEF NatsIInv, CallInv, NatsTypes
  <2>2. StepOK(q, call[q])'
    BY <1>1, <1>3, <2>1, SMT DEF CallOK, StepOK, StatusOf
  <2>3. FreshOK(call[q])'
    BY <1>1, <1>3, <2>1, SMT DEF CallOK, FreshOK, StatusOf, Active
  <2>4. TokenOK(q, call[q])'
    BY <1>1, <1>2, <1>3, <2>1, SMT DEF CallOK, TokenOK, Claiming, At
  <2>5. LockOK(call[q])' /\ IndexOK(call[q])'
    BY <1>1, <1>3, <1>8, <2>1, SMT
       DEF CallOK, LockOK, IndexOK, StepOK, StatusOf, Terminal
  <2>6. InterruptOK(call[q])'
    <3>1. \A e \in Dispatch : Ahead(call[q], e)' <=> Ahead(call[q], e)
      BY <2>1 DEF Ahead
    <3>2. Past(call[q])' <=> Past(call[q])
      BY <2>1 DEF Past
    <3>3. ASSUME NEW e \in Dispatch, Older(e, call[q].epoch)'
          PROVE  Older(e, call[q].epoch)
      BY <1>11, <2>1, <3>3 DEF Older, StatusOf, CallRecord
    <3> QED BY <1>3, <1>10, <1>12, <2>1, <3>1, <3>2, <3>3, SMT DEF CallOK, InterruptOK
  <2> QED BY <2>2, <2>3, <2>4, <2>5, <2>6 DEF CallOK
<1> QED BY <1>4, <1>5, <1>6, <1>9, <1>13, <1>14, <1>15 DEF NatsIInv, CallInv

LEMMA PutsRecordKeeps ==
    ASSUME NatsIInv, NEW p \in Call, PutsRecord(p)
    PROVE  NatsIInv'
<1>1. Idle.pc = "idle" /\ Idle.kind = "none" /\ ~Idle.fresh
  BY DEF Idle
<1>2. crashes' \in Nat
  BY DEF PutsRecord, NatsIInv, NatsTypes
<1> QED BY <1>1, <1>2, IdleOK, RecordAppears DEF PutsRecord, PutsAndGoesOn, Returns

LEMMA EnqueueFailsKeeps ==
    ASSUME NatsIInv, NEW p \in Call, EnqueueFails(p)
    PROVE  NatsIInv'
<1>t. /\ call[p] \in CallRecord /\ crashes' \in Nat
      /\ UNCHANGED <<epoch, guard, lock, tokens, fence, known>>
  BY DEF NatsIInv, NatsTypes, EnqueueFails
<1>1. CASE AppendFails(p)
  BY <1>t, <1>1, GivesUpKeeps DEF AppendFails
<1>2. CASE PutFails(p)
  <2>1. At(p, "put") /\ UNCHANGED index
    BY <1>2 DEF PutFails
  <2>2. CASE /\ records' = [records EXCEPT ![Of(p)] = PrepareForEnqueue(call[p].epoch, TRUE)]
             /\ overtaken' = overtaken \cup {Of(p)}
             /\ Becomes(p, Then(p, <<"unlock">>))
    <3>1. PICK c, d : c = Then(p, <<"unlock">>) /\ d = Of(p)
      OBVIOUS
    <3>2. c \in CallRecord
      BY <1>t, <3>1, ThenTyped DEF Todos
    <3>3. call[p].kind = "enqueue" /\ d \in Dispatch
      BY <2>1, <3>1 DEF NatsIInv, CallInv, CallOK, StepOK, At, Of
    <3>4. /\ c.pc = "after" /\ c.d = d /\ ~c.fresh /\ c.todo = <<"unlock">>
          /\ c.kind = "after"
      BY <1>t, <3>1, <3>3 DEF Then, CallRecord, Of
    <3>5. records'[d].status = "Queued" /\ d \in overtaken'
      BY <2>2, <3>1, <3>3 DEF PrepareForEnqueue, Blank, NatsIInv, NatsTypes
    <3>6. CallOK(p, c)'
      BY <2>2, <3>3, <3>4, <3>5, TodoFacts
         DEF CallOK, StepOK, FreshOK, TokenOK, Unused, LockOK, IndexOK, InterruptOK, StatusOf
    <3>7. Becomes(p, c)
      BY <2>2, <3>1
    <3>8. PutsAndGoesOn(p, c)
      BY <1>t, <2>1, <2>2, <3>7 DEF PutsAndGoesOn
    <3> QED BY <3>2, <3>4, <3>6, <3>8, RecordAppears
  <2>3. CASE /\ Becomes(p, [call[p] EXCEPT !.pc = "after", !.todo = <<"unlock">>])
             /\ UNCHANGED <<records, overtaken>>
    BY <1>t, <2>1, <2>3, GivesUpKeeps
  <2> QED BY <1>2, <2>2, <2>3 DEF PutFails
<1> QED BY <1>1, <1>2 DEF EnqueueFails

-----------------------------------------------------------------------------
(* The guard, the epoch, and time.                                         *)

\* The claim takes a new token, and a guard that nobody holds.
LEMMA AcquiresGuardKeeps ==
    ASSUME NatsIInv, NEW p \in Call, AcquiresGuard(p)
    PROVE  NatsIInv'
<1>1. /\ call[p] \in CallRecord /\ CallOK(p, call[p]) /\ call[p].pc = "guard"
      /\ Of(p) \in Dispatch /\ call[p].kind = "claim" /\ tokens \in Nat
      /\ guard.token <= tokens /\ guard.token \in Nat
  BY DEF NatsIInv, NatsTypes, CallInv, CallOK, StepOK, AcquiresGuard, At, Of, TokenInv
<1>2. CASE guard.lease = "live" \/ tokens = MaxTokens
  <2>1. /\ Returns(p) /\ crashes' \in Nat
        /\ UNCHANGED <<records, epoch, guard, lock, index, tokens, fence, known, overtaken>>
    BY <1>2 DEF AcquiresGuard, NatsIInv, NatsTypes
  <2> QED BY <2>1, ReturnsKeeps
<1>3. CASE ~(guard.lease = "live" \/ tokens = MaxTokens)
  <2>1. PICK c : c = [call[p] EXCEPT !.pc = "claim", !.token = tokens + 1]
    OBVIOUS
  <2>2. c \in CallRecord
    <3>1. tokens + 1 \in Nat BY <1>1
    <3> QED BY <1>1, <2>1, <3>1, Zenon DEF CallRecord, Steps
  <2>3. /\ c.pc = "claim" /\ c.d = call[p].d /\ c.kind = "claim"
        /\ c.fresh = call[p].fresh /\ c.token = tokens + 1
    BY <1>1, <2>1 DEF CallRecord
  <2>4. /\ call'[p] = c /\ call' \in [Call -> CallRecord]
        /\ \A q \in Call \ {p} : call'[q] = call[q]
        /\ tokens' = tokens + 1
        /\ guard' = [holder |-> Of(p), token |-> tokens + 1, lease |-> "live"]
        /\ UNCHANGED <<records, epoch, lock, index, fence, known, overtaken, crashes>>
    BY <1>3, <2>1, <2>2 DEF AcquiresGuard, Becomes, NatsIInv, NatsTypes
  <2>5. /\ guard' \in [holder : Dispatch \cup {None}, token : Nat,
                       lease : {"live", "lapsed", "released"}]
        /\ guard'.token = tokens + 1 /\ guard'.holder = Of(p) /\ guard'.lease = "live"
    BY <1>1, <2>4
  <2>6. NatsTypes'
    BY <1>1, <2>4, <2>5 DEF NatsIInv, NatsTypes
  <2>7. ASSUME NEW e \in Dispatch
        PROVE  /\ records[e].token \in Nat /\ records[e].token <= tokens
               /\ records[e].token # tokens + 1 /\ ~LiveClaim(e)
    <3>1. records[e].token \in Nat /\ records[e].token <= tokens
      BY DEF NatsIInv, NatsTypes, RecordInv, DispatchRecord
    <3>2. ~LiveClaim(e)
      BY <1>3 DEF NatsIInv, OneLiveClaim
    <3> QED BY <1>1, <3>1, <3>2
  <2>8. RecordInv' /\ GuardInv' /\ OneLiveClaim'
    BY <1>1, <2>4, <2>5, <2>7, SMT
       DEF NatsIInv, RecordInv, GuardInv, OneLiveClaim, LiveClaim, StatusOf
  <2>9. TokenInv'
    BY <1>1, <2>4, <2>5, <2>7, SMT DEF NatsIInv, TokenInv
  <2>10. ASSUME NEW e \in Keyed, Protects(e)'
         PROVE  Protects(e)
    BY <2>3, <2>4, <2>10, SMT DEF Protects, UnderWay, StatusOf, IsStale, Of
  <2>11. LockInv' /\ IndexCoversActive'
    BY <2>4, <2>10 DEF NatsIInv, LockInv, IndexCoversActive, StatusOf
  <2>12. ASSUME NEW e \in Dispatch, ClaimUnderWay(e)'
         PROVE  ClaimUnderWay(e)
    BY <1>1, <2>3, <2>4, <2>12, SMT DEF ClaimUnderWay, Of
  <2>13. \A e \in Dispatch : ~MayLive(e)'
    BY <2>4, <2>5, <2>7 DEF MayLive
  <2>14. FenceInv'
    BY <2>4, <2>12, <2>13 DEF NatsIInv, FenceInv, Older, StatusOf
  <2>15. \A q \in Call \ {p} : CallOK(q, call[q]) /\ call'[q] = call[q] /\ call[q] \in CallRecord
    BY <2>4 DEF NatsIInv, NatsTypes, CallInv
  <2>16. CallOK(p, call[p])'
    <3>1. StepOK(p, c)' /\ FreshOK(c)' /\ LockOK(c)' /\ IndexOK(c)' /\ InterruptOK(c)'
      BY <1>1, <2>3, <2>4, SMT
         DEF CallOK, StepOK, FreshOK, LockOK, IndexOK, InterruptOK, StatusOf
    <3>2. \A q \in Call \ {p} : ~Claiming(q, c.token)'
      BY <1>1, <2>3, <2>15, SMT DEF Claiming, At, CallOK, TokenOK, CallRecord
    <3>3. TokenOK(p, c)'
      BY <1>1, <2>3, <2>4, <2>5, <2>7, <3>2, SMT DEF TokenOK, Unused, NoToken, Of
    <3> QED BY <2>4, <3>1, <3>3 DEF CallOK
  <2>17. ASSUME NEW q \in Call \ {p}
         PROVE  CallOK(q, call[q])'
    <3>1. StepOK(q, call[q])' /\ FreshOK(call[q])'
      BY <1>1, <2>3, <2>4, <2>15, SMT DEF CallOK, StepOK, FreshOK, StatusOf
    <3>2. TokenOK(q, call[q])'
      BY <1>1, <2>3, <2>4, <2>5, <2>15, SMT
         DEF CallOK, TokenOK, Unused, Claiming, At, CallRecord
    <3>3. LockOK(call[q])' /\ IndexOK(call[q])'
      BY <2>4, <2>10, <2>15, SMT DEF CallOK, LockOK, IndexOK, StepOK, StatusOf
    <3>4. InterruptOK(call[q])'
      <4>1. \A e \in Dispatch : Ahead(call[q], e)' <=> Ahead(call[q], e)
        BY <2>15 DEF Ahead
      <4>2. Past(call[q])' <=> Past(call[q])
        BY <2>15 DEF Past
      <4> QED BY <2>4, <2>12, <2>13, <2>15, <4>1, <4>2, SMT
              DEF CallOK, InterruptOK, Older, StatusOf
    <3> QED BY <3>1, <3>2, <3>3, <3>4 DEF CallOK
  <2> QED BY <2>6, <2>8, <2>9, <2>11, <2>14, <2>16, <2>17 DEF NatsIInv, CallInv
<1> QED BY <1>2, <1>3

LEMMA ExtendsGuardKeeps ==
    ASSUME NatsIInv, NEW p \in Call, ExtendsGuard(p)
    PROVE  NatsIInv'
<1>1. /\ call[p] \in CallRecord /\ CallOK(p, call[p]) /\ call[p].pc = "extend"
      /\ Of(p) \in Dispatch
  BY DEF NatsIInv, NatsTypes, CallInv, CallOK, StepOK, ExtendsGuard, At, Of
<1>2. /\ UNCHANGED <<records, epoch, lock, index, tokens, fence, known, overtaken, crashes>>
      /\ crashes' \in Nat
  BY DEF ExtendsGuard, NatsIInv, NatsTypes
<1>3. CASE HoldsGuard(p)
  <2>1. PICK c : c = [call[p] EXCEPT !.pc = "renew"]
    OBVIOUS
  <2>2. c \in CallRecord
    BY <1>1, <2>1, Zenon DEF CallRecord, Steps
  <2>3. /\ c.pc = "renew" /\ c.d = call[p].d /\ c.kind = call[p].kind
        /\ c.fresh = call[p].fresh /\ c.token = call[p].token
    BY <1>1, <2>1 DEF CallRecord
  <2>4. CallOK(p, c)
    BY <1>1, <2>3, SMT
       DEF CallOK, StepOK, FreshOK, TokenOK, Unused, LockOK, IndexOK, InterruptOK
  <2>5. guard' = [guard EXCEPT !.lease = "live"] /\ Becomes(p, c)
    BY <1>3, <2>1 DEF ExtendsGuard, Goto
  <2>6. /\ guard'.lease = "live" /\ guard'.holder = guard.holder
        /\ guard'.token = guard.token
    BY <2>5, Zenon DEF NatsIInv, NatsTypes
  <2>7. OneLiveClaim' /\ GuardInv'
    <3>1. ASSUME NEW e \in Dispatch, LiveClaim(e)
          PROVE  guard' = [holder |-> e, token |-> records[e].token, lease |-> "live"]
      <4>1. guard = [holder |-> e, token |-> records[e].token, lease |-> "live"]
        BY <3>1 DEF NatsIInv, OneLiveClaim
      <4> QED BY <2>5, <4>1
    <3>2. guard'.holder \in Dispatch
      BY <1>1, <1>3, <2>6 DEF HoldsGuard
    <3> QED BY <1>2, <3>1, <3>2 DEF OneLiveClaim, LiveClaim, StatusOf, GuardInv
  <2>8. /\ call'[p] = c /\ call' = [q \in Call |-> call'[q]]
        /\ \A q \in Call \ {p} : Unmoved(q)
    BY <2>5 DEF Becomes, Unmoved, NatsIInv, NatsTypes
  <2> QED BY <1>2, <2>2, <2>3, <2>4, <2>5, <2>7, <2>8, ThreadStep
       DEF CallOK, NatsIInv, NatsTypes, LockInv, IndexOK, StatusOf
<1>4. CASE ~HoldsGuard(p)
  <2>1. Returns(p) /\ UNCHANGED guard
    BY <1>4 DEF ExtendsGuard
  <2> QED BY <1>2, <2>1, ReturnsKeeps
<1> QED BY <1>3, <1>4

\* The guard ends after the lease of its claim.
LEMMA GuardLapsesKeeps ==
    ASSUME NatsIInv, GuardLapses
    PROVE  NatsIInv'
<1>1. /\ guard' = [guard EXCEPT !.lease = "lapsed"]
      /\ guard \in [holder : Dispatch \cup {None}, token : Nat,
                    lease : {"live", "lapsed", "released"}]
      /\ UNCHANGED <<records, epoch, lock, index, call, tokens, fence, known, overtaken, crashes>>
  BY DEF GuardLapses, NatsIInv, NatsTypes
<1>2. /\ guard'.lease = "lapsed" /\ guard'.holder = guard.holder
      /\ guard'.token = guard.token
      /\ guard' \in [holder : Dispatch \cup {None}, token : Nat,
                     lease : {"live", "lapsed", "released"}]
  BY <1>1, Zenon
<1>3. ASSUME NEW e \in Dispatch
      PROVE  ~LiveClaim(e)
  <2>1. LiveClaim(e) => guard.token = records[e].token /\ records[e].lease = "live"
    BY DEF NatsIInv, OneLiveClaim, LiveClaim
  <2> QED BY <2>1 DEF GuardLapses
<1>4. NatsTypes' /\ RecordInv' /\ TokenInv' /\ GuardInv' /\ OneLiveClaim'
  BY <1>1, <1>2, <1>3 DEF NatsIInv, NatsTypes, RecordInv, TokenInv, GuardInv, OneLiveClaim,
     LiveClaim, StatusOf
<1>5. LockInv' /\ IndexCoversActive' /\ FenceInv'
  BY <1>1, <1>2 DEF NatsIInv, LockInv, Protects, UnderWay, IndexCoversActive, FenceInv, ClaimUnderWay,
     MayLive, Older, StatusOf, IsStale, Of
<1>6. ASSUME NEW q \in Call
      PROVE  CallOK(q, call[q])'
  <2>1. CallOK(q, call[q])
    BY DEF NatsIInv, CallInv
  <2>2. StepOK(q, call[q])' /\ FreshOK(call[q])' /\ TokenOK(q, call[q])'
    BY <1>1, <1>2, <2>1 DEF CallOK, StepOK, FreshOK, TokenOK, Unused, Claiming, At, StatusOf
  <2>3. LockOK(call[q])' /\ IndexOK(call[q])'
    BY <1>1, <2>1 DEF CallOK, LockOK, IndexOK, Protects, UnderWay, IsStale, StatusOf, Of
  <2>4. InterruptOK(call[q])'
    BY <1>1, <1>2, <2>1 DEF CallOK, InterruptOK, Older, Ahead, Past, ClaimUnderWay, MayLive,
       StatusOf, Of
  <2> QED BY <2>2, <2>3, <2>4 DEF CallOK
<1> QED BY <1>4, <1>5, <1>6 DEF NatsIInv, CallInv

LEMMA RecordLapsesKeeps ==
    ASSUME NatsIInv, NEW d \in Dispatch, RecordLapses(d)
    PROVE  NatsIInv'
<1>1. /\ records' = [records EXCEPT ![d].lease = "lapsed"]
      /\ records \in [Dispatch -> DispatchRecord] /\ records[d].lease = "live"
      /\ UNCHANGED <<epoch, guard, lock, index, call, tokens, fence, known, overtaken, crashes>>
  BY DEF RecordLapses, NatsIInv, NatsTypes
<1>2. \A e \in Dispatch \ {d} : records'[e] = records[e]
  BY <1>1
<1>3. records'[d] = [records[d] EXCEPT !.lease = "lapsed"]
  BY <1>1
<1>4. records'[d] \in DispatchRecord
  BY <1>1, <1>3, Zenon DEF DispatchRecord
<1>5. /\ records'[d].status = records[d].status /\ records'[d].token = records[d].token
      /\ records'[d].epoch = records[d].epoch /\ records'[d].attempts = records[d].attempts
      /\ records'[d].run = records[d].run /\ records'[d].completed = records[d].completed
      /\ records'[d].lease = "lapsed"
  BY <1>1, <1>3 DEF DispatchRecord
<1>6. records' \in [Dispatch -> DispatchRecord]
  BY <1>1, <1>2, <1>4
<1>7. \A e \in Dispatch :
        /\ records'[e].status = records[e].status /\ records'[e].token = records[e].token
        /\ records'[e].epoch = records[e].epoch
  BY <1>2, <1>5
<1>8. StatusOf(d) = "Claimed"
  BY <1>1 DEF NatsIInv, RecordInv, ValidForPersist, StatusOf, Stored, Active
<1>9. NatsTypes'
  BY <1>1, <1>6 DEF NatsIInv, NatsTypes
<1>10. RecordInv'
  <2>1. ASSUME NEW e \in Dispatch \ {d}
        PROVE  records'[e] = records[e]
    BY <1>2
  <2>2. ValidForPersist(records'[d])
    BY <1>5, <1>8 DEF ValidForPersist, StatusOf, NatsIInv, RecordInv, Terminal
  <2> QED BY <1>1, <1>5, <1>8, <2>1, <2>2 DEF NatsIInv, RecordInv, StatusOf
<1>11. TokenInv' /\ GuardInv'
  BY <1>1, <1>7 DEF NatsIInv, TokenInv, GuardInv
<1>12. OneLiveClaim'
  BY <1>1, <1>2, <1>5 DEF NatsIInv, OneLiveClaim, LiveClaim, StatusOf
<1>13. LockInv' /\ IndexCoversActive' /\ FenceInv'
  <2>1. \A e \in Dispatch :
          /\ StatusOf(e)' = StatusOf(e)
          /\ IsStale(e)' <=> IsStale(e)
          /\ Older(e, fence)' <=> Older(e, fence)
          /\ MayLive(e)' <=> MayLive(e)
    BY <1>1, <1>7 DEF StatusOf, IsStale, Older, MayLive
  <2> QED BY <1>1, <2>1 DEF NatsIInv, LockInv, Protects, UnderWay, IndexCoversActive, FenceInv,
          ClaimUnderWay, Of
<1>14. ASSUME NEW q \in Call
       PROVE  CallOK(q, call[q])'
  <2>1. CallOK(q, call[q])
    BY DEF NatsIInv, CallInv
  <2>2. StepOK(q, call[q])'
    BY <1>1, <1>7, <2>1 DEF CallOK, StepOK, StatusOf
  <2>3. FreshOK(call[q])'
    BY <1>1, <1>7, <2>1, <2>2 DEF CallOK, FreshOK, StepOK, StatusOf
  <2>4. TokenOK(q, call[q])'
    BY <1>1, <1>7, <2>1 DEF CallOK, TokenOK, Unused, Claiming, At
  <2>5. LockOK(call[q])' /\ IndexOK(call[q])'
    BY <1>1, <1>7, <2>1 DEF CallOK, LockOK, IndexOK, StepOK, Protects, UnderWay, IsStale, StatusOf, Of
  <2>6. InterruptOK(call[q])'
    BY <1>1, <1>7, <2>1 DEF CallOK, InterruptOK, Older, Ahead, Past, ClaimUnderWay, MayLive,
       StatusOf, Of
  <2> QED BY <2>2, <2>3, <2>4, <2>5, <2>6 DEF CallOK
<1> QED BY <1>9, <1>10, <1>11, <1>12, <1>13, <1>14 DEF NatsIInv, CallInv

LEMMA BumpsEpochKeeps ==
    ASSUME NatsIInv, NEW p \in Call, BumpsEpoch(p)
    PROVE  NatsIInv'
<1>1. epoch \in Nat /\ fence \in Nat /\ fence <= epoch
  BY DEF NatsIInv, NatsTypes, FenceInv
<1>2. PICK c : c = [Idle EXCEPT !.pc = "list", !.kind = "interrupt", !.epoch = epoch + 1]
  OBVIOUS
<1>3. c \in CallRecord
  <2>1. epoch + 1 \in Nat /\ 0 \in Nat BY <1>1
  <2> QED BY <1>2, <2>1, Zenon DEF Idle, CallRecord, Steps, Todos, NoToken
<1>4. /\ c.pc = "list" /\ c.kind = "interrupt" /\ c.epoch = epoch + 1 /\ ~c.fresh
      /\ c.todo = <<>> /\ c.queued = {} /\ c.met = {} /\ c.claimed = {}
      /\ c.ids = {} /\ c.other = None
  BY <1>2 DEF Idle
<1>5. /\ call'[p] = c /\ call' \in [Call -> CallRecord]
      /\ \A q \in Call \ {p} : call'[q] = call[q]
      /\ epoch' = epoch + 1
      /\ UNCHANGED <<records, guard, lock, index, tokens, fence, known, overtaken, crashes>>
  BY <1>2, <1>3 DEF BumpsEpoch, Starts, Becomes, NatsIInv, NatsTypes
<1>6. NatsTypes'
  BY <1>1, <1>5 DEF NatsIInv, NatsTypes
<1>7. RecordInv' /\ TokenInv' /\ GuardInv' /\ OneLiveClaim' /\ IndexCoversActive'
  BY <1>5 DEF NatsIInv, RecordInv, TokenInv, GuardInv, OneLiveClaim, LiveClaim, StatusOf,
     IndexCoversActive
<1>8. ASSUME NEW e \in Dispatch, Protects(e)'
      PROVE  Protects(e)
  <2>1. records[e].epoch \in Nat
    BY DEF NatsIInv, NatsTypes, DispatchRecord
  <2> QED BY <1>1, <1>4, <1>5, <1>8, <2>1, SMT DEF Protects, UnderWay, StatusOf, IsStale, Of
<1>9. LockInv'
  BY <1>5, <1>8 DEF NatsIInv, LockInv
<1>10. ASSUME NEW e \in Dispatch, ClaimUnderWay(e)'
       PROVE  ClaimUnderWay(e)
  BY <1>4, <1>5, <1>10 DEF ClaimUnderWay, Of
<1>11. FenceInv'
  BY <1>1, <1>5, <1>10, SMT DEF NatsIInv, FenceInv, Older, MayLive, StatusOf
<1>12. CallOK(p, call[p])'
  <2>1. StepOK(p, c)' /\ FreshOK(c)' /\ TokenOK(p, c)' /\ LockOK(c)' /\ IndexOK(c)'
    BY <1>4, TodoFacts, SMT DEF StepOK, FreshOK, TokenOK, Unused, LockOK, IndexOK
  <2>2. InterruptOK(c)'
    BY <1>1, <1>4, <1>5, SMT DEF InterruptOK, Past
  <2> QED BY <1>5, <2>1, <2>2 DEF CallOK
<1>13. ASSUME NEW q \in Call \ {p}
       PROVE  CallOK(q, call[q])'
  <2>1. CallOK(q, call[q]) /\ call'[q] = call[q] /\ call[q] \in CallRecord
    BY <1>5 DEF NatsIInv, CallInv, NatsTypes
  <2>2. StepOK(q, call[q])' /\ FreshOK(call[q])' /\ TokenOK(q, call[q])'
    BY <1>4, <1>5, <2>1, SMT
       DEF CallOK, StepOK, FreshOK, TokenOK, Unused, Claiming, At, StatusOf
  <2>3. LockOK(call[q])' /\ IndexOK(call[q])'
    BY <1>5, <1>8, <2>1, SMT DEF CallOK, LockOK, IndexOK, StepOK, StatusOf
  <2>4. InterruptOK(call[q])'
    <3>1. \A e \in Dispatch : Ahead(call[q], e)' <=> Ahead(call[q], e)
      BY <2>1 DEF Ahead
    <3>2. Past(call[q])' <=> Past(call[q])
      BY <2>1 DEF Past
    <3>3. call[q].epoch \in Nat
      BY <2>1 DEF CallRecord
    <3> QED BY <1>1, <1>5, <1>10, <2>1, <3>1, <3>2, <3>3, SMT
            DEF CallOK, InterruptOK, Older, MayLive, StatusOf
  <2> QED BY <2>2, <2>3, <2>4 DEF CallOK
<1> QED BY <1>6, <1>7, <1>9, <1>11, <1>12, <1>13 DEF NatsIInv, CallInv

\* What an interrupt supersedes cannot be claimed any more.
LEMMA SupersedesKeeps ==
    ASSUME NatsIInv, NEW p \in Call, Supersedes(p)
    PROVE  NatsIInv'
<1> DEFINE d == Of(p)
           r == MarkSupersededAtEpoch(records[d], call[p].epoch)
<1>1. At(p, "supersede") /\ UNCHANGED <<epoch, guard, lock, index, tokens, fence, known, overtaken, crashes>>
  BY DEF Supersedes
<1>2. CASE Writes(p, r, Then(p, <<"unindex", "unlock">>))
  <2>1. /\ call[p].fresh /\ call[p] \in CallRecord /\ InterruptOK(call[p])
        /\ call[p].pc = "supersede" /\ call[p].kind = "interrupt" /\ d \in Dispatch
    BY <1>1, <1>2, InterruptFacts DEF Writes, At
  <2>2. PICK c : c = Then(p, <<"unindex", "unlock">>)
    OBVIOUS
  <2>3. c \in CallRecord
    BY <2>1, <2>2, ThenTyped DEF Todos
  <2>4. /\ c.pc = "after" /\ c.d = d /\ ~c.fresh /\ c.todo = <<"unindex", "unlock">>
        /\ c.kind = "interrupt" /\ c.epoch = call[p].epoch /\ c.other = call[p].other
        /\ c.ids = call[p].ids /\ c.queued = call[p].queued
        /\ c.claimed = call[p].claimed /\ c.met = call[p].met
        /\ c.active = call[p].active
    BY <2>1, <2>2 DEF Then, CallRecord, Of
  <2>5. /\ Ended(records[d], r) /\ r.status \in Terminal /\ StatusOf(d) = "Queued"
    BY <2>1, WriterFacts, EndedOK, FinalOK
  <2>6. /\ r \in DispatchRecord /\ ValidForPersist(r) /\ r.status \in Stored
        /\ r.status \in Active => r.epoch = records[d].epoch /\ r.attempts < MaxAttempts
        /\ Ends(d, r)
    BY <2>5 DEF Ended, Ends, Stored, Active, Terminal
  <2> HIDE DEF r
  <2>7. /\ records'[d] = r
        /\ \A e \in Dispatch \ {d} : records'[e] = records[e]
    BY <1>2, <2>1 DEF Writes, NatsIInv, NatsTypes
  <2>8. ASSUME NEW e \in Dispatch, ClaimUnderWay(e)'
        PROVE  ClaimUnderWay(e)
    <3>1. PICK q \in Call : call'[q].pc \in {"guard", "claim"} /\ call'[q].fresh /\ call'[q].d = e
      BY <2>8 DEF ClaimUnderWay, Of
    <3>2. q # p
      BY <1>2, <2>2, <2>4, <3>1 DEF Writes
    <3>3. Unmoved(q)
      BY <1>2, <3>2 DEF Writes, Unmoved
    <3> QED BY <3>1, <3>3, OthersKeep DEF NatsIInv, ClaimUnderWay, Of
  <2>9. InterruptOK(c)'
    <3>1. ASSUME NEW e \in Dispatch, Older(e, c.epoch)'
          PROVE  /\ e # d /\ Older(e, c.epoch)
                 /\ MayLive(e)' <=> MayLive(e)
                 /\ StatusOf(e)' = StatusOf(e)
                 /\ Ahead(c, e) <=> Ahead(call[p], e)
      <4>1. e # d
        BY <2>5, <2>7, <3>1 DEF Older, StatusOf
      <4> QED BY <1>1, <2>1, <2>4, <2>7, <3>1, <4>1 DEF Older, StatusOf, MayLive, Ahead, Of
    <3>2. ASSUME NEW e \in Dispatch, Older(e, c.epoch)'
          PROVE  /\ ClaimUnderWay(e)' => Ahead(c, e)'
                 /\ StatusOf(e)' = "Claimed" => Ahead(c, e)' \/ e \in c.met
                 /\ ~(Ahead(c, e)' /\ e \in c.met)
                 /\ e \in c.met \ c.claimed /\ MayLive(e)' => c.active \in c.met
                 /\ c.pc # "scan" /\ e \in c.claimed /\ c.other \notin {None, e} => ~MayLive(e)'
      <4>1. Ahead(c, e)' <=> Ahead(c, e)
        BY DEF Ahead
      <4>2. /\ ClaimUnderWay(e) => Ahead(c, e)
            /\ StatusOf(e) = "Claimed" => Ahead(c, e) \/ e \in c.met
            /\ ~(Ahead(c, e) /\ e \in c.met)
            /\ e \in c.met \ c.claimed /\ MayLive(e) => c.active \in c.met
            /\ e \in c.claimed /\ c.other \notin {None, e} => ~MayLive(e)
        BY <2>1, <2>4, <3>1, <3>2 DEF InterruptOK, Past
      <4> QED BY <2>8, <3>1, <3>2, <4>1, <4>2
    <3>3. /\ c.epoch <= epoch' /\ c.claimed \subseteq c.met
          /\ c.ids \cap c.queued = {} /\ c.ids = {}
      BY <1>1, <2>1, <2>4 DEF InterruptOK
    <3> QED BY <2>4, <3>2, <3>3, Zenon DEF InterruptOK
  <2>10. StepOK(p, c)' /\ FreshOK(c)' /\ TokenOK(p, c)' /\ LockOK(c)' /\ IndexOK(c)'
    <3>1. c.todo # <<>> BY <2>4
    <3> QED BY <2>1, <2>4, <2>5, <2>7, <3>1, TodoFacts, SMT
            DEF StepOK, FreshOK, TokenOK, Unused, LockOK, IndexOK, StatusOf
  <2>11. CallOK(p, c)' /\ Writes(p, r, c) /\ StatusOf(d) \in Active
    BY <1>2, <2>2, <2>5, <2>9, <2>10 DEF CallOK, Active
  <2> QED BY <1>1, <2>1, <2>3, <2>4, <2>6, <2>11, RecordStep
<1>3. CASE Conflicts(p, [call[p] EXCEPT !.pc = "each", !.d = None,
                                        !.queued = @ \cup {Of(p)}])
  BY <1>1, <1>3, SupersedeConflictKeeps
<1> QED BY <1>2, <1>3 DEF Supersedes

-----------------------------------------------------------------------------
(* The invariant, and what it implies.                                     *)

LEMMA NatsInitOK == NatsInit => NatsIInv
<1> SUFFICES ASSUME NatsInit PROVE NatsIInv
  OBVIOUS
<1>1. Blank("Absent") \in DispatchRecord /\ Idle \in CallRecord
  <2>1. 0 \in Nat /\ 0 \in 0..MaxAttempts BY SMT
  <2>2. Blank("Absent") \in DispatchRecord
    BY <2>1, Zenon DEF Blank, DispatchRecord, Status, NoToken, NoRun
  <2>3. Idle \in CallRecord
    BY <2>1, Zenon DEF Idle, CallRecord, Steps, Todos, NoToken
  <2> QED BY <2>2, <2>3
<1>2. /\ records = [d \in Dispatch |-> Blank("Absent")]
      /\ epoch = 0 /\ guard = NoGuard /\ lock = None /\ index = {}
      /\ call = [p \in Call |-> Idle]
      /\ tokens = 0 /\ fence = 0 /\ known = {} /\ overtaken = {} /\ crashes = 0
  BY DEF NatsInit, NoToken
<1>3. NoGuard \in [holder : Dispatch \cup {None}, token : Nat,
                   lease : {"live", "lapsed", "released"}]
  BY DEF NoGuard, NoToken
<1>4. NatsTypes
  BY <1>1, <1>2, <1>3 DEF NatsTypes
<1>5. \A d \in Dispatch :
        /\ records[d].status = "Absent" /\ records[d].token = 0 /\ records[d].lease = "none"
        /\ records[d].epoch = 0 /\ records[d].attempts = 0
  BY <1>2 DEF Blank, NoToken
<1>6. \A p \in Call : call[p] = Idle /\ call[p].pc = "idle" /\ call[p].kind = "none"
                      /\ ~call[p].fresh
  BY <1>2 DEF Idle
<1>7. RecordInv
  BY <1>2, <1>5, SMT DEF RecordInv, ValidForPersist, StatusOf, Stored, Terminal, Active, NoToken
<1>8. TokenInv /\ GuardInv /\ OneLiveClaim /\ IndexCoversActive
  BY <1>2, <1>5, SMT DEF TokenInv, GuardInv, NoGuard, NoToken, OneLiveClaim, LiveClaim, StatusOf,
     IndexCoversActive, Active
<1>9. LockInv
  BY <1>5, <1>6 DEF LockInv, Protects, UnderWay, StatusOf, Active
<1>10. FenceInv
  BY <1>2, <1>5, SMT DEF FenceInv, Older
<1>11. CallInv
  BY <1>6, SMT DEF CallInv, CallOK, StepOK, FreshOK, TokenOK, Unused, LockOK, IndexOK,
     InterruptOK
<1> QED BY <1>4, <1>7, <1>8, <1>9, <1>10, <1>11 DEF NatsIInv

LEMMA NatsStepOK == NatsIInv /\ [NatsNext]_natsVars => NatsIInv'
<1> SUFFICES ASSUME NatsIInv, [NatsNext]_natsVars PROVE NatsIInv'
  OBVIOUS
<1>1. ASSUME NEW p \in Call, EnqueueStep(p)
      PROVE  NatsIInv'
  BY <1>1, EnqueueReadsEpochKeeps, LocksKeeps, ReadsHolderKeeps, PurgesLockKeeps,
     AppendsIndexKeeps, PutsRecordKeeps, EnqueueFailsKeeps DEF EnqueueStep
<1>2. ASSUME NEW p \in Call, ClaimStep(p)
      PROVE  NatsIInv'
  BY <1>2, LoadKeeps, AcquiresGuardKeeps, WritesClaimKeeps, SupersedesStaleKeeps DEF ClaimStep
<1>3. ASSUME NEW p \in Call, HolderStep(p)
      PROVE  NatsIInv'
  BY <1>3, LoadKeeps, WritesSettledKeeps, ExtendsGuardKeeps, WritesRenewedKeeps,
     WritesReclaimedKeeps, WritesCancelledKeeps DEF HolderStep
<1>4. ASSUME NEW p \in Call, AfterStep(p)
      PROVE  NatsIInv'
  BY <1>4, ReleasesGuardKeeps, ReleasesLockKeeps, RemovesFromIndexKeeps DEF AfterStep
<1>5. ASSUME NEW p \in Call, InterruptStep(p)
      PROVE  NatsIInv'
  BY <1>5, BumpsEpochKeeps, ListsIndexKeeps, ReadsGuardKeeps, LooksAtHolderKeeps,
     ScansRecordKeeps, TakesClaimedKeeps, TriesQueuedKeeps, SupersedesKeeps,
     InterruptReturnsKeeps DEF InterruptStep
<1>6. ASSUME NEW p \in Call, Crashes(p)
      PROVE  NatsIInv'
  <2>1. crashes' \in Nat /\ Returns(p)
        /\ UNCHANGED <<records, epoch, guard, lock, index, tokens, fence, known, overtaken>>
    BY <1>6 DEF Crashes, NatsIInv, NatsTypes
  <2> QED BY <2>1, ReturnsKeeps
<1>7. CASE UNCHANGED natsVars
  <2>1. UNCHANGED <<records, epoch, guard, lock, index, call, tokens, fence, known, overtaken, crashes>>
    BY <1>7 DEF natsVars
  <2>2. NatsTypes' /\ RecordInv' /\ GuardInv' /\ TokenInv'
    BY <2>1 DEF NatsIInv, NatsTypes, RecordInv, GuardInv, TokenInv, StatusOf, IsStale
  <2>3. OneLiveClaim' /\ LockInv' /\ IndexCoversActive'
    BY <2>1 DEF NatsIInv, OneLiveClaim, LiveClaim, LockInv, Protects, UnderWay, IndexCoversActive,
                StatusOf, IsStale, Of
  <2>f. FenceInv'
    BY <2>1 DEF NatsIInv, FenceInv, Older, ClaimUnderWay, MayLive, StatusOf, Of
  <2>4. ASSUME NEW p \in Call PROVE CallOK(p, call[p])'
    <3>1. CallOK(p, call[p]) BY DEF NatsIInv, CallInv
    <3>2. StepOK(p, call[p])' BY <2>1, <3>1 DEF CallOK, StepOK, StatusOf
    <3>3. FreshOK(call[p])' /\ LockOK(call[p])' /\ IndexOK(call[p])'
      BY <2>1, <3>1 DEF CallOK, FreshOK, LockOK, Protects, UnderWay, IndexOK, StatusOf, IsStale, Of
    <3>4. TokenOK(p, call[p])' BY <2>1, <3>1 DEF CallOK, TokenOK, Unused, Claiming, At
    <3>5. InterruptOK(call[p])'
      BY <2>1, <3>1 DEF CallOK, InterruptOK, ClaimUnderWay, MayLive, Ahead, Past, Older, StatusOf,
                        IsStale, Of
    <3> QED BY <3>2, <3>3, <3>4, <3>5 DEF CallOK
  <2> QED BY <2>2, <2>3, <2>f, <2>4 DEF NatsIInv, CallInv
<1> QED BY <1>1, <1>2, <1>3, <1>4, <1>5, <1>6, <1>7, RecordLapsesKeeps, GuardLapsesKeeps
        DEF NatsNext

THEOREM NatsInvariant == NatsSpec => []NatsIInv
BY NatsInitOK, NatsStepOK, PTL DEF NatsSpec

\* Only an interrupt moves the epoch, one at a time and within the bound.
LEMMA EpochMoves ==
    NatsNext => epoch' = epoch \/ (epoch < MaxEpoch /\ epoch' = epoch + 1)
<1>1. ASSUME NEW p \in Call, EnqueueStep(p) \/ ClaimStep(p) \/ AfterStep(p) \/ Crashes(p)
      PROVE  epoch' = epoch
  BY <1>1 DEF EnqueueStep, ClaimStep, AfterStep, Crashes,
     EnqueueReadsEpoch, Locks, ReadsHolder, OvertakesHolder, PurgesLock, AppendsIndex, PutsRecord, EnqueueFails,
     AppendFails, PutFails, ClaimLoads, AcquiresGuard, WritesClaim, SupersedesStale,
     ReleasesGuard, ReleasesLock, RemovesFromIndex
<1>2. ASSUME NEW p \in Call, HolderStep(p)
      PROVE  epoch' = epoch
  BY <1>2 DEF HolderStep, SettleLoads, RenewLoads, ReclaimLoads, CancelLoads, WritesSettled,
     ExtendsGuard, WritesRenewed, WritesReclaimed, WritesCancelled
<1>3. ASSUME NEW p \in Call, InterruptStep(p)
      PROVE  epoch' = epoch \/ (epoch < MaxEpoch /\ epoch' = epoch + 1)
  BY <1>3 DEF InterruptStep, BumpsEpoch, ListsIndex, ReadsGuard, LooksAtHolder, ScansRecord,
     TakesClaimed, TriesQueued, Supersedes, InterruptReturns
<1> QED BY <1>1, <1>2, <1>3 DEF NatsNext, RecordLapses, GuardLapses

\* Types, and every record that the store writes is one that
\* validate_for_persist accepts, after any interleaving of the calls.
THEOREM NatsTypeHolds == NatsSpec => []NatsTypeOK
<1>1. NatsInit => epoch <= MaxEpoch
  BY DEF NatsInit
<1>2. NatsIInv /\ epoch <= MaxEpoch /\ [NatsNext]_natsVars => (epoch <= MaxEpoch)'
  <2>1. NatsIInv => epoch \in Nat
    BY DEF NatsIInv, NatsTypes
  <2> QED BY <2>1, EpochMoves DEF natsVars
<1>3. NatsIInv /\ epoch <= MaxEpoch => NatsTypeOK
  BY DEF NatsIInv, NatsTypes, NatsTypeOK, RecordInv, FenceInv, CallRecord
<1> QED BY <1>1, <1>2, <1>3, NatsInvariant, PTL DEF NatsSpec

\* However the calls interleave and wherever one of them stops, a thread has
\* one live claim at most, the one that the guard names: claim_guard::acquire
\* and extend, with the compare-and-set of the record, are enough.
THEOREM OneLiveClaimHolds == NatsSpec => []OneLiveClaim
<1>1. NatsIInv => OneLiveClaim
  BY DEF NatsIInv
<1> QED BY <1>1, NatsInvariant, PTL

\* Once an interrupt has returned, a live claim of an older epoch is one that
\* an interrupt has made known: no claim that was under way slips through
\* between its scan and its return.
THEOREM NatsInterruptFencesHolds == NatsSpec => []InterruptFences
<1>1. NatsIInv => InterruptFences
  <2> SUFFICES ASSUME NatsIInv, NEW d \in Dispatch, LiveClaim(d), records[d].epoch < fence
               PROVE  d \in known
    BY DEF InterruptFences
  <2>1. guard.token = records[d].token
    BY DEF NatsIInv, OneLiveClaim
  <2>2. MayLive(d) /\ Older(d, fence)
    BY <2>1 DEF MayLive, Older, LiveClaim, Terminal
  <2> QED BY <2>2 DEF NatsIInv, FenceInv
<1> QED BY <1>1, NatsInvariant, PTL

\* Two dispatches with one dedupe key are both current and unfinished only if
\* one of them was overtaken: its enqueue was taken for dead between its lock
\* and its record, or its put was stored and reported as failed.  Every other
\* deletion of the key, by a reconciliation, a settle, an interrupt or a failed
\* enqueue, and every call that dies on its way, leaves them apart.
THEOREM DedupeKeyUniqueHolds == NatsSpec => []DedupeKeyUnique
<1>1. NatsIInv => DedupeKeyUnique
  BY DEF NatsIInv, LockInv, Protects, DedupeKeyUnique
<1> QED BY <1>1, NatsInvariant, PTL

\* A dispatch that waits or runs is in the index of its thread: the index is
\* written before the record, and cleaned up after its end only.
THEOREM IndexCoversActiveHolds == NatsSpec => []IndexCoversActive
<1>1. NatsIInv => IndexCoversActive
  BY DEF NatsIInv
<1> QED BY <1>1, NatsInvariant, PTL

=============================================================================
