----------------------------- MODULE Router_proofs -----------------------------
(***************************************************************************)
(* Proofs about Router, for any number of requests, providers and accounts *)
(* and any candidate lists.  The inductive invariant says, request by      *)
(* request, how far the walk has come (Walk); what the steps of one        *)
(* request do to it is proved first, as facts about request records.       *)
(***************************************************************************)
EXTENDS Router, TLAPS

Visiting == {"rotate", "target", "calling", "mark_provider", "mark_account", "store"}
Called   == {"calling", "mark_provider", "mark_account", "store"}

\* The target called at this point is on the list of those tried.
Focused(q) ==
  /\ q.pc \in Visiting => q.provider \in Providers
  /\ q.pc \in Called => Target(q, q.account) \in q.tried
  /\ q.pc = "mark_account" => q.account # None

\* The reply held at each point.
Replied(q) ==
  /\ q.pc = "new" => q.reply = "none" /\ q.tried = {}
  /\ q.pc \in {"candidate", "provider", "rotate", "target"} => q.reply \in {"none", "fallback"}
  /\ q.pc = "calling" => q.reply = "pending"
  /\ q.pc \in {"mark_provider", "mark_account"} =>
       q.reply \in {"ok", "fallback", "fatal", "body_error"}
  /\ q.pc = "store" => q.reply = "ok"
  /\ q.pc = "done" <=> q.answer # "none"

\* What is still ahead of the walk is no part of what is behind it.
Ahead(q) ==
  /\ q.pc \in {"new", "candidate", "provider", "done"} => q.ready = {}
  /\ q.pc \in {"new", "candidate", "done"} => q.left = {}
  /\ None \in q.ready => q.ready = {None}
  /\ \A t \in q.tried : t.cand <= q.cand
  /\ q.pc \in {"new", "candidate"} => \A t \in q.tried : t.cand < q.cand
  /\ q.pc \in Visiting => q.provider \notin q.left
  /\ \A t \in q.tried : t.cand = q.cand => t.provider \notin q.left
  /\ \A t \in q.tried : t.cand = q.cand /\ t.provider = q.provider => t.account \notin q.ready
  /\ q.pc = "rotate" => \A t \in q.tried : ~(t.cand = q.cand /\ t.provider = q.provider)

\* The order of what is ahead and what is behind.
Ordered(q) ==
  /\ q.pc \in Visiting => \A p \in q.left : ~Before(p, q.provider, q.near)
  /\ \A t \in q.tried : t.cand = q.cand =>
       /\ \A p \in q.left : ~Before(p, t.provider, q.near)
       /\ t.provider = q.provider =>
            \A a \in q.ready \ {None} : ~Earlier(a, t.account, q.turn)

Walk(q) == q \in Request /\ Focused(q) /\ Replied(q) /\ Ahead(q) /\ Ordered(q)

-------------------------------------------------------------------------------
(***************************************************************************)
(* The steps of one request, on its record.                                *)
(***************************************************************************)

LEMMA NewWalk == Walk(NewRequest)
BY DEF NewRequest, Walk, Request, Focused, Replied, Ahead, Ordered, Visiting, Called, Points

LEMMA AnsweredWalk ==
  ASSUME NEW q, Walk(q), NEW what \in {"ok", "hit", "refused", "error", "broken"}
  PROVE  Walk(Answered(q, what))
<1> SUFFICES ASSUME NEW n, n = Answered(q, what) PROVE Walk(n)
  OBVIOUS
<1>1. /\ n \in Request /\ n.pc = "done" /\ n.answer = what /\ n.left = {} /\ n.ready = {}
      /\ n.cand = q.cand /\ n.tried = q.tried /\ n.provider = None
  BY DEF Walk, Answered, NewRequest, Request, Points
<1>2. \A t \in n.tried : t.cand <= n.cand
  BY <1>1 DEF Walk, Ahead
<1> QED BY <1>1, <1>2 DEF Walk, Focused, Replied, Ahead, Ordered, Visiting, Called

LEMMA SnapshotWalk ==
  ASSUME NEW q, Walk(q), q.pc = "new", NEW open \in SUBSET Providers
  PROVE  Walk([q EXCEPT !.pc = "candidate", !.snap = open])
BY DEF Walk, Request, Focused, Replied, Ahead, Ordered, Visiting, Called, Points

LEMMA SkipWalk ==
  ASSUME NEW q, Walk(q), q.pc = "candidate"
  PROVE  Walk([q EXCEPT !.cand = @ + 1])
<1> SUFFICES ASSUME NEW n, n = [q EXCEPT !.cand = @ + 1] PROVE Walk(n)
  OBVIOUS
<1>1. /\ q.cand \in Nat /\ n \in Request /\ n.cand = q.cand + 1 /\ n.pc = "candidate"
      /\ n.tried = q.tried /\ n.left = q.left /\ n.ready = q.ready /\ n.answer = q.answer
      /\ n.reply = q.reply /\ q.tried \subseteq Targets
  BY DEF Walk, Request, Points
<1>2. \A t \in n.tried : t.cand < n.cand
  BY <1>1 DEF Walk, Ahead, Targets
<1>3. \A t \in n.tried : t.cand <= n.cand /\ t.cand # n.cand
  BY <1>1, <1>2 DEF Targets
<1> QED BY <1>1, <1>2, <1>3 DEF Walk, Focused, Replied, Ahead, Ordered, Visiting, Called

LEMMA SortWalk ==
  ASSUME NEW q, Walk(q), q.pc = "candidate",
         NEW found \in SUBSET Providers, NEW nearby \in SUBSET Providers
  PROVE  Walk([q EXCEPT !.pc = "provider", !.left = found, !.near = nearby])
<1> SUFFICES ASSUME NEW n, n = [q EXCEPT !.pc = "provider", !.left = found, !.near = nearby]
             PROVE Walk(n)
  OBVIOUS
<1>1. /\ n \in Request /\ n.pc = "provider" /\ n.left = found /\ n.near = nearby
      /\ n.cand = q.cand /\ n.tried = q.tried /\ n.ready = q.ready /\ n.answer = q.answer
      /\ n.reply = q.reply /\ n.provider = q.provider /\ n.turn = q.turn
      /\ q.cand \in Nat /\ q.tried \subseteq Targets
  BY DEF Walk, Request, Points
<1>2. \A t \in n.tried : t.cand <= n.cand /\ t.cand # n.cand
  BY <1>1 DEF Walk, Ahead, Targets
<1> QED BY <1>1, <1>2 DEF Walk, Focused, Replied, Ahead, Ordered, Visiting, Called

LEMMA LeaveWalk ==
  ASSUME NEW q, Walk(q), q.pc = "provider", q.left = {}
  PROVE  Walk([q EXCEPT !.pc = "candidate", !.cand = @ + 1, !.near = {}])
<1> SUFFICES ASSUME NEW n, n = [q EXCEPT !.pc = "candidate", !.cand = @ + 1, !.near = {}]
             PROVE Walk(n)
  OBVIOUS
<1>0. q \in Request /\ q.cand \in Nat /\ q.cand + 1 \in Nat /\ q.tried \subseteq Targets
  BY DEF Walk, Request
<1>1. /\ n \in Request /\ n.pc = "candidate" /\ n.left = {} /\ n.cand = q.cand + 1
      /\ n.tried = q.tried /\ n.ready = q.ready /\ n.answer = q.answer
      /\ n.reply = q.reply
  BY <1>0 DEF Request, Points
<1>2. \A t \in n.tried : t.cand < n.cand
  BY <1>0, <1>1 DEF Walk, Ahead, Targets
<1>3. \A t \in n.tried : t.cand <= n.cand /\ t.cand # n.cand
  BY <1>0, <1>1, <1>2 DEF Targets
<1> QED BY <1>1, <1>2, <1>3 DEF Walk, Focused, Replied, Ahead, Ordered, Visiting, Called

\* A batch is {None}, or a set of accounts.
LEMMA BatchType ==
  ASSUME NEW p, NEW batch \in Batches(p)
  PROVE  /\ batch \in SUBSET (Accounts \cup {None})
         /\ None \in batch => batch = {None}
BY NoneAssumption DEF Batches, Prepared, Selectable, AccountsOf

LEMMA VisitWalk ==
  ASSUME NEW q, Walk(q), q.pc = "provider", NEW p \in q.left,
         \A other \in q.left : ~Before(other, p, q.near),
         NEW batch \in Batches(p)
  PROVE  Walk(Visit(q, p, batch))
<1> SUFFICES ASSUME NEW n, n = Visit(q, p, batch) PROVE Walk(n)
  OBVIOUS
<1>1. /\ n \in Request /\ n.pc \in {"rotate", "target"} /\ n.left = q.left \ {p}
      /\ n.provider = p /\ n.ready = batch /\ n.cand = q.cand /\ n.tried = q.tried
      /\ n.near = q.near /\ n.reply = q.reply /\ n.answer = q.answer
  <2>1. Selectable(p) \in SUBSET Accounts
    BY DEF Selectable, AccountsOf
  <2> QED BY BatchType, <2>1 DEF Visit, Walk, Request, Points
<1>2. \A t \in n.tried : t.cand = n.cand => t.provider # p
  BY <1>1 DEF Walk, Ahead
<1>3. p \in Providers
  BY DEF Walk, Request
<1>4. Focused(n) /\ Replied(n)
  BY <1>1, <1>3 DEF Walk, Focused, Replied, Visiting, Called
<1>5. Ahead(n)
  BY <1>1, <1>2, BatchType DEF Walk, Ahead, Visiting
<1>6. Ordered(n)
  BY <1>1, <1>2 DEF Walk, Ordered, Visiting
<1> QED BY <1>1, <1>4, <1>5, <1>6 DEF Walk

LEMMA RotateWalk ==
  ASSUME NEW q, Walk(q), q.pc = "rotate", NEW a \in q.listed
  PROVE  Walk([q EXCEPT !.pc = "target", !.turn = a, !.listed = {}])
<1> SUFFICES ASSUME NEW n, n = [q EXCEPT !.pc = "target", !.turn = a, !.listed = {}]
             PROVE Walk(n)
  OBVIOUS
<1>1. /\ n \in Request /\ n.pc = "target" /\ n.left = q.left /\ n.provider = q.provider
      /\ n.ready = q.ready /\ n.cand = q.cand /\ n.tried = q.tried /\ n.near = q.near
      /\ n.reply = q.reply /\ n.answer = q.answer
  BY DEF Walk, Request, Points
<1>2. \A t \in n.tried : ~(t.cand = n.cand /\ t.provider = n.provider)
  BY <1>1 DEF Walk, Ahead
<1> QED BY <1>1, <1>2 DEF Walk, Focused, Replied, Ahead, Ordered, Visiting, Called

LEMMA CallWalk ==
  ASSUME NEW q, Walk(q), q.pc = "target", NEW a, IsNext(q, a)
  PROVE  Walk([q EXCEPT !.pc = "calling", !.account = a, !.ready = @ \ {a},
                        !.reply = "pending", !.tried = @ \cup {Target(q, a)}])
<1> SUFFICES ASSUME NEW n,
                    n = [q EXCEPT !.pc = "calling", !.account = a, !.ready = @ \ {a},
                                  !.reply = "pending", !.tried = @ \cup {Target(q, a)}]
             PROVE Walk(n)
  OBVIOUS
<1>1. /\ a \in q.ready /\ q.provider \in Providers /\ q.cand \in Nat
      /\ a \in Accounts \cup {None}
      /\ \A b \in q.ready : a # None /\ b # None => ~Earlier(b, a, q.turn)
  BY DEF Walk, Focused, Visiting, Request, IsNext
<1>2. /\ n \in Request /\ n.pc = "calling" /\ n.left = q.left /\ n.provider = q.provider
      /\ n.ready = q.ready \ {a} /\ n.cand = q.cand /\ n.tried = q.tried \cup {Target(q, a)}
      /\ n.near = q.near /\ n.reply = "pending" /\ n.answer = q.answer /\ n.account = a
      /\ n.turn = q.turn
  <2>1. Target(q, a) \in Targets
    BY <1>1 DEF Targets, Target
  <2>2. q \in Request /\ q.tried \cup {Target(q, a)} \in SUBSET Targets
    BY <2>1 DEF Walk, Request
  <2> QED BY <1>1, <2>2 DEF Request, Points
<1>3. /\ Target(q, a).cand = q.cand /\ Target(q, a).provider = q.provider
      /\ Target(q, a).account = a /\ Target(n, n.account) = Target(q, a)
  BY <1>2 DEF Target
<1>4. Focused(n) /\ Replied(n)
  BY <1>1, <1>2, <1>3 DEF Walk, Focused, Replied, Visiting, Called
<1>5. Ahead(n)
  BY <1>1, <1>2, <1>3 DEF Walk, Ahead, Visiting
<1>6. a = None => n.ready = {}
  BY <1>1, <1>2 DEF Walk, Ahead
<1>7. Ordered(n)
  BY <1>1, <1>2, <1>3, <1>6 DEF Walk, Ordered, Visiting
<1> QED BY <1>2, <1>4, <1>5, <1>7 DEF Walk

LEMMA NoTargetWalk ==
  ASSUME NEW q, Walk(q), q.pc = "target", q.ready = {}
  PROVE  Walk([q EXCEPT !.pc = "provider", !.provider = None, !.turn = None])
<1> SUFFICES ASSUME NEW n,
                    n = [q EXCEPT !.pc = "provider", !.provider = None, !.turn = None]
             PROVE Walk(n)
  OBVIOUS
<1>1. /\ n \in Request /\ n.pc = "provider" /\ n.left = q.left /\ n.ready = {}
      /\ n.cand = q.cand /\ n.tried = q.tried /\ n.near = q.near
      /\ n.reply = q.reply /\ n.answer = q.answer
  BY DEF Walk, Request, Points
<1> QED BY <1>1 DEF Walk, Focused, Replied, Ahead, Ordered, Visiting, Called

LEMMA ReplyWalk ==
  ASSUME NEW q, Walk(q), q.pc = "calling", NEW limited \in BOOLEAN,
         NEW reply \in {"ok", "fallback", "fatal", "body_error"}
  PROVE  Walk([q EXCEPT !.pc = "mark_provider", !.reply = reply, !.limited = limited])
<1> SUFFICES ASSUME NEW n,
                    n = [q EXCEPT !.pc = "mark_provider", !.reply = reply,
                                  !.limited = limited]
             PROVE Walk(n)
  OBVIOUS
<1>1. /\ n \in Request /\ n.pc = "mark_provider" /\ n.left = q.left /\ n.ready = q.ready
      /\ n.cand = q.cand /\ n.tried = q.tried /\ n.near = q.near /\ n.provider = q.provider
      /\ n.reply = reply /\ n.answer = q.answer /\ n.account = q.account /\ n.turn = q.turn
  BY DEF Walk, Request, Points
<1>2. Target(n, n.account) = Target(q, q.account)
  BY <1>1 DEF Target
<1> QED BY <1>1, <1>2 DEF Walk, Focused, Replied, Ahead, Ordered, Visiting, Called

LEMMA MarkedProviderWalk ==
  ASSUME NEW q, Walk(q), q.pc = "mark_provider", q.account # None
  PROVE  Walk([q EXCEPT !.pc = "mark_account"])
<1> SUFFICES ASSUME NEW n, n = [q EXCEPT !.pc = "mark_account"] PROVE Walk(n)
  OBVIOUS
<1>1. /\ n \in Request /\ n.pc = "mark_account" /\ n.left = q.left /\ n.ready = q.ready
      /\ n.cand = q.cand /\ n.tried = q.tried /\ n.near = q.near /\ n.provider = q.provider
      /\ n.reply = q.reply /\ n.answer = q.answer /\ n.account = q.account /\ n.turn = q.turn
  BY DEF Walk, Request, Points
<1>2. Target(n, n.account) = Target(q, q.account)
  BY <1>1 DEF Target
<1> QED BY <1>1, <1>2 DEF Walk, Focused, Replied, Ahead, Ordered, Visiting, Called

LEMMA AfterMarksWalk ==
  ASSUME NEW q, Walk(q), q.pc \in {"mark_provider", "mark_account"}
  PROVE  Walk(AfterMarks(q))
<1>0. q \in Request /\ q.reply \in {"ok", "fallback", "fatal", "body_error"}
  BY DEF Walk, Replied
<1>1. CASE q.reply = "ok"
  <2> SUFFICES ASSUME NEW n, n = [q EXCEPT !.pc = "store"] PROVE Walk(n)
    BY <1>1 DEF AfterMarks
  <2>1. /\ n \in Request /\ n.pc = "store" /\ n.left = q.left /\ n.ready = q.ready
        /\ n.cand = q.cand /\ n.tried = q.tried /\ n.near = q.near
        /\ n.provider = q.provider /\ n.reply = "ok" /\ n.answer = q.answer
        /\ n.account = q.account /\ n.turn = q.turn
    BY <1>0, <1>1 DEF Request, Points
  <2>2. Target(n, n.account) = Target(q, q.account)
    BY <2>1 DEF Target
  <2> QED BY <2>1, <2>2 DEF Walk, Focused, Replied, Ahead, Ordered, Visiting, Called
<1>2. CASE q.reply = "fallback"
  <2> SUFFICES ASSUME NEW n, n = [q EXCEPT !.pc = "target", !.account = None,
                                           !.limited = FALSE]
               PROVE Walk(n)
    BY <1>2 DEF AfterMarks
  <2>1. /\ n \in Request /\ n.pc = "target" /\ n.left = q.left /\ n.ready = q.ready
        /\ n.cand = q.cand /\ n.tried = q.tried /\ n.near = q.near
        /\ n.provider = q.provider /\ n.reply = "fallback" /\ n.answer = q.answer
        /\ n.turn = q.turn
    BY <1>0, <1>2 DEF Request, Points
  <2> QED BY <2>1 DEF Walk, Focused, Replied, Ahead, Ordered, Visiting, Called
<1>3. CASE q.reply \in {"fatal", "body_error"}
  BY <1>3, AnsweredWalk DEF AfterMarks
<1> QED BY <1>0, <1>1, <1>2, <1>3

-------------------------------------------------------------------------------
(***************************************************************************)
(* The inductive invariant of the whole system.                            *)
(***************************************************************************)

IInv ==
  /\ TypeOK
  /\ \A r \in Requests : Walk(req[r])
  /\ BlockedOnlyIfCalled

\* Every step of a request leads from a walk to a walk and forgets no call.
LEMMA StepOfRequest ==
  ASSUME IInv, NEW r \in Requests, Work(r) \/ Abandon(r)
  PROVE  \E q : Walk(q) /\ Set(r, q) /\ req[r].tried \subseteq q.tried
<1> DEFINE old == req[r]
<1>w. Walk(old) /\ old \in Request
  BY DEF IInv, Walk
<1>a. \A what : Answered(old, what).tried = old.tried
  BY DEF Answered, NewRequest
<1>1. ASSUME Begin(r) PROVE \E q : Walk(q) /\ Set(r, q) /\ old.tried \subseteq q.tried
  <2>1. {p \in Serving[r] : ProviderOpen(p)} \in SUBSET Providers
    BY ServingAssumption
  <2>2. Walk(Answered(old, "refused"))
    BY <1>w, AnsweredWalk
  <2>3. Walk([old EXCEPT !.pc = "candidate", !.snap = {p \in Serving[r] : ProviderOpen(p)}])
    BY <1>w, <1>1, <2>1, SnapshotWalk DEF Begin, At
  <2>4. [old EXCEPT !.pc = "candidate", !.snap = {p \in Serving[r] : ProviderOpen(p)}].tried
          = old.tried
    BY <1>w DEF Request
  <2> QED BY <1>1, <1>a, <2>2, <2>3, <2>4 DEF Begin
<1>2. ASSUME NextCandidate(r) PROVE \E q : Walk(q) /\ Set(r, q) /\ old.tried \subseteq q.tried
  <2> DEFINE found  == Found(r, old.cand, old.snap)
             nearby == IF r \in Raw THEN {} ELSE near \cap Protected
  <2>1. found \in SUBSET Providers /\ nearby \in SUBSET Providers
    BY <1>w, ProtectedAssumption DEF Request, Found
  <2>2. Walk(Answered(old, "error")) /\ Walk([old EXCEPT !.cand = @ + 1])
    BY <1>w, <1>2, AnsweredWalk, SkipWalk DEF NextCandidate, At
  <2>3. Walk([old EXCEPT !.pc = "provider", !.left = found, !.near = nearby])
    BY <1>w, <1>2, <2>1, SortWalk DEF NextCandidate, At
  <2>4. /\ [old EXCEPT !.cand = @ + 1].tried = old.tried
        /\ [old EXCEPT !.pc = "provider", !.left = found, !.near = nearby].tried = old.tried
    BY <1>w DEF Request
  <2> QED BY <1>2, <1>a, <2>2, <2>3, <2>4 DEF NextCandidate
<1>3. ASSUME NoProviderLeft(r) PROVE \E q : Walk(q) /\ Set(r, q) /\ old.tried \subseteq q.tried
  <2>1. [old EXCEPT !.pc = "candidate", !.cand = @ + 1, !.near = {}].tried = old.tried
    BY <1>w DEF Request
  <2> QED BY <1>3, <1>w, <2>1, LeaveWalk DEF NoProviderLeft, At
<1>4. ASSUME ListTargets(r) PROVE \E q : Walk(q) /\ Set(r, q) /\ old.tried \subseteq q.tried
  <2>1. PICK p \in old.left : /\ \A other \in old.left : ~Before(other, p, old.near)
                              /\ \E batch \in Batches(p) : Set(r, Visit(old, p, batch))
    BY <1>4 DEF ListTargets
  <2>2. PICK batch \in Batches(p) : Set(r, Visit(old, p, batch))
    BY <2>1
  <2>3. Visit(old, p, batch).tried = old.tried
    BY <1>w DEF Visit, Request
  <2> QED BY <1>4, <1>w, <2>1, <2>2, <2>3, VisitWalk DEF ListTargets, At
<1>5. ASSUME Rotate(r) PROVE \E q : Walk(q) /\ Set(r, q) /\ old.tried \subseteq q.tried
  <2>1. PICK a \in old.listed : Set(r, [old EXCEPT !.pc = "target", !.turn = a, !.listed = {}])
    BY <1>5 DEF Rotate
  <2>2. [old EXCEPT !.pc = "target", !.turn = a, !.listed = {}].tried = old.tried
    BY <1>w DEF Request
  <2> QED BY <1>5, <1>w, <2>1, <2>2, RotateWalk DEF Rotate, At
<1>6. ASSUME CallTarget(r) PROVE \E q : Walk(q) /\ Set(r, q) /\ old.tried \subseteq q.tried
  <2>1. PICK a \in old.ready :
          /\ IsNext(old, a)
          /\ Set(r, [old EXCEPT !.pc = "calling", !.account = a, !.ready = @ \ {a},
                                !.reply = "pending", !.tried = @ \cup {Target(old, a)}])
    BY <1>6 DEF CallTarget
  <2>2. old.tried \subseteq
          [old EXCEPT !.pc = "calling", !.account = a, !.ready = @ \ {a},
                      !.reply = "pending", !.tried = @ \cup {Target(old, a)}].tried
    BY <1>w DEF Request
  <2> QED BY <1>6, <1>w, <2>1, <2>2, CallWalk DEF CallTarget, At
<1>7. ASSUME CacheHit(r) PROVE \E q : Walk(q) /\ Set(r, q) /\ old.tried \subseteq q.tried
  BY <1>7, <1>w, <1>a, AnsweredWalk DEF CacheHit
<1>8. ASSUME NoTargetLeft(r) PROVE \E q : Walk(q) /\ Set(r, q) /\ old.tried \subseteq q.tried
  <2>1. [old EXCEPT !.pc = "provider", !.provider = None, !.turn = None].tried = old.tried
    BY <1>w DEF Request
  <2> QED BY <1>8, <1>w, <2>1, NoTargetWalk DEF NoTargetLeft, At
<1>9. ASSUME Reply(r) PROVE \E q : Walk(q) /\ Set(r, q) /\ old.tried \subseteq q.tried
  <2>1. PICK reply \in Replies(r), limited \in BOOLEAN :
          Set(r, IF reply = "garbled" THEN Answered(old, "broken")
                 ELSE [old EXCEPT !.pc = "mark_provider", !.reply = reply,
                                  !.limited = limited /\ reply # "ok"])
    BY <1>9 DEF Reply
  <2>2. CASE reply = "garbled"
    BY <1>w, <1>a, <2>1, <2>2, AnsweredWalk
  <2>3. CASE reply # "garbled"
    <3>1. reply \in {"ok", "fallback", "fatal", "body_error"}
      BY <2>3 DEF Replies
    <3>2. (limited /\ reply # "ok") \in BOOLEAN
      OBVIOUS
    <3>3. Walk([old EXCEPT !.pc = "mark_provider", !.reply = reply,
                           !.limited = limited /\ reply # "ok"])
      BY <1>9, <1>w, <3>1, <3>2, ReplyWalk DEF Reply, At
    <3>4. [old EXCEPT !.pc = "mark_provider", !.reply = reply,
                      !.limited = limited /\ reply # "ok"].tried = old.tried
      BY <1>w DEF Request
    <3> QED BY <2>1, <2>3, <3>3, <3>4
  <2> QED BY <2>2, <2>3
<1>10. ASSUME MarkProvider(r) PROVE \E q : Walk(q) /\ Set(r, q) /\ old.tried \subseteq q.tried
  <2>1. AfterMarks(old).tried = old.tried
    BY <1>w, <1>a DEF AfterMarks, Request
  <2>2. Walk(AfterMarks(old))
    BY <1>10, <1>w, AfterMarksWalk DEF MarkProvider, At
  <2>3. [old EXCEPT !.pc = "mark_account"].tried = old.tried
    BY <1>w DEF Request
  <2>4. CASE old.account = None
    BY <1>10, <2>1, <2>2, <2>4 DEF MarkProvider
  <2>5. CASE old.account # None
    BY <1>10, <1>w, <2>3, <2>5, MarkedProviderWalk DEF MarkProvider, At
  <2> QED BY <2>4, <2>5
<1>11. ASSUME MarkAccount(r) PROVE \E q : Walk(q) /\ Set(r, q) /\ old.tried \subseteq q.tried
  <2>1. AfterMarks(old).tried = old.tried
    BY <1>w, <1>a DEF AfterMarks, Request
  <2>2. Walk(AfterMarks(old))
    BY <1>11, <1>w, AfterMarksWalk DEF MarkAccount, At
  <2> QED BY <1>11, <2>1, <2>2 DEF MarkAccount
<1>12. ASSUME Store(r) PROVE \E q : Walk(q) /\ Set(r, q) /\ old.tried \subseteq q.tried
  BY <1>12, <1>w, <1>a, AnsweredWalk DEF Store
<1>13. ASSUME Abandon(r) PROVE \E q : Walk(q) /\ Set(r, q) /\ old.tried \subseteq q.tried
  BY <1>13, <1>w, <1>a, AnsweredWalk DEF Abandon
<1> QED BY <1>1, <1>2, <1>3, <1>4, <1>5, <1>6, <1>7, <1>8, <1>9, <1>10, <1>11, <1>12, <1>13
        DEF Work

\* What a step of r does to the other variables.
LEMMA EffectOfRequest ==
  ASSUME IInv, NEW r \in Requests, Work(r) \/ Abandon(r)
  PROVE  /\ enabled' = enabled
         /\ near' \in SUBSET Providers
         /\ cursor' \in [Providers -> Nat]
         /\ \/ health' = health
            \/ \E x \in Rows, h \in Health :
                 /\ \E t \in req[r].tried : x \in {t.provider, t.account}
                 /\ health' = [health EXCEPT ![x] = h]
<1> DEFINE q == req[r]
           Effect ==
             /\ enabled' = enabled
             /\ near' \in SUBSET Providers
             /\ cursor' \in [Providers -> Nat]
             /\ \/ health' = health
                \/ \E x \in Rows, h \in Health :
                     /\ \E t \in q.tried : x \in {t.provider, t.account}
                     /\ health' = [health EXCEPT ![x] = h]
<1>t. TypeOK /\ Walk(q) /\ q \in Request /\ near \in SUBSET Providers
  BY DEF IInv, Walk, TypeOK
<1>m. \A h \in Health : Marked(h, q) \in Health
  BY TicksAssumption DEF Marked, Health, Clear, Timer, Lapsed
<1>f. /\ Target(q, q.account).provider = q.provider
      /\ Target(q, q.account).account = q.account
  BY DEF Target
<1>1. CASE UNCHANGED <<health, enabled, near, cursor>>
  BY <1>1, <1>t DEF TypeOK
<1>2. CASE Rotate(r)
  <2>1. q.provider \in Providers
    BY <1>2, <1>t DEF Rotate, At, Walk, Focused, Visiting
  <2>2. cursor' \in [Providers -> Nat]
    BY <1>2, <1>t, <2>1 DEF Rotate, TypeOK
  <2> QED BY <1>2, <1>t, <2>2 DEF Rotate
<1>3. CASE MarkProvider(r)
  <2>1. q.provider \in Providers /\ Target(q, q.account) \in q.tried
    BY <1>3, <1>t DEF MarkProvider, At, Walk, Focused, Visiting, Called
  <2>2. near' \in SUBSET Providers
    BY <1>3, <1>t, <2>1 DEF MarkProvider, Track
  <2>3. Marked(health[q.provider], q) \in Health /\ q.provider \in Rows
    BY <1>m, <1>t, <2>1 DEF TypeOK, Rows
  <2>4. health' = [health EXCEPT ![q.provider] = Marked(health[q.provider], q)]
    BY <1>3 DEF MarkProvider
  <2> QED BY <1>3, <1>t, <1>f, <2>1, <2>2, <2>3, <2>4 DEF MarkProvider, TypeOK
<1>4. CASE MarkAccount(r)
  <2>1. q.provider \in Providers /\ Target(q, q.account) \in q.tried /\ q.account \in Accounts
    BY <1>4, <1>t DEF MarkAccount, At, Walk, Focused, Visiting, Called, Request
  <2>2. near' \in SUBSET Providers
    BY <1>4, <1>t, <2>1 DEF MarkAccount, Track
  <2>3. Marked(health[q.account], q) \in Health /\ q.account \in Rows
    BY <1>m, <1>t, <2>1 DEF TypeOK, Rows
  <2>4. health' = [health EXCEPT ![q.account] = Marked(health[q.account], q)]
    BY <1>4 DEF MarkAccount
  <2> QED BY <1>4, <1>t, <1>f, <2>1, <2>2, <2>3, <2>4 DEF MarkAccount, TypeOK
<1>5. \/ UNCHANGED <<health, enabled, near, cursor>>
      \/ Rotate(r) \/ MarkProvider(r) \/ MarkAccount(r)
  BY DEF Work, Abandon, Begin, NextCandidate, NoProviderLeft, ListTargets, CallTarget,
         CacheHit, NoTargetLeft, Reply, Store
<1> QED BY <1>1, <1>2, <1>3, <1>4, <1>5

LEMMA InitIInv == Init => IInv
<1> SUFFICES ASSUME Init PROVE IInv
  OBVIOUS
<1>1. Clear \in Health
  BY DEF Clear, Health, Timer, Lapsed
<1>2. NewRequest \in Request
  BY NewWalk DEF Walk
<1>3. TypeOK
  BY <1>1, <1>2, ProtectedAssumption DEF Init, TypeOK
<1>4. BlockedOnlyIfCalled
  BY DEF Init, BlockedOnlyIfCalled
<1> QED BY <1>3, <1>4, NewWalk DEF Init, IInv

LEMMA RequestKeepsIInv ==
  ASSUME IInv, NEW r \in Requests, Work(r) \/ Abandon(r)
  PROVE  IInv'
<1>1. PICK q : Walk(q) /\ Set(r, q) /\ req[r].tried \subseteq q.tried
  BY StepOfRequest
<1>2. /\ req \in [Requests -> Request] /\ health \in [Rows -> Health]
      /\ enabled \in SUBSET Accounts /\ q \in Request
  BY <1>1 DEF IInv, TypeOK, Walk
<1>3. /\ req' \in [Requests -> Request] /\ req'[r] = q
      /\ \A other \in Requests \ {r} : req'[other] = req[other]
  BY <1>1, <1>2 DEF Set
<1>4. \A other \in Requests : req[other].tried \subseteq req'[other].tried
  BY <1>1, <1>3
<1>5. TypeOK'
  <2>1. health' \in [Rows -> Health]
    BY <1>2, EffectOfRequest
  <2> QED BY <1>2, <1>3, <2>1, EffectOfRequest DEF TypeOK
<1>6. \A other \in Requests : Walk(req'[other])
  BY <1>1, <1>3 DEF IInv
<1>7. BlockedOnlyIfCalled'
  <2> SUFFICES ASSUME NEW x \in Rows, health'[x] # Clear
               PROVE  \E other \in Requests : \E t \in req'[other].tried :
                        x \in {t.provider, t.account}
    BY DEF BlockedOnlyIfCalled
  <2>1. CASE health'[x] = health[x]
    BY <1>4, <2>1 DEF IInv, BlockedOnlyIfCalled
  <2>2. CASE health'[x] # health[x]
    <3>1. \E t \in req[r].tried : x \in {t.provider, t.account}
      BY <1>2, <2>2, EffectOfRequest
    <3> QED BY <1>4, <3>1
  <2> QED BY <2>1, <2>2
<1> QED BY <1>5, <1>6, <1>7 DEF IInv

LEMMA NextIInv == IInv /\ [Next]_vars => IInv'
<1> SUFFICES ASSUME IInv, [Next]_vars PROVE IInv'
  OBVIOUS
<1>1. CASE \E r \in Requests : Work(r) \/ Abandon(r)
  BY <1>1, RequestKeepsIInv
<1>2. ASSUME NEW a \in Operated, ToggleAccount(a) PROVE IInv'
  <2>1. TypeOK'
    BY <1>2, OperatedAssumption DEF IInv, TypeOK, ToggleAccount
  <2>2. BlockedOnlyIfCalled'
    BY <1>2 DEF IInv, BlockedOnlyIfCalled, ToggleAccount
  <2> QED BY <1>2, <2>1, <2>2 DEF IInv, ToggleAccount
<1>3. CASE Tick
  <2>1. TypeOK'
    BY <1>3 DEF IInv, TypeOK, Tick, Health, Timer, Elapse, Lapsed
  <2>2. \A x \in Rows : health[x] = Clear => health'[x] = Clear
    BY <1>3 DEF Tick, Clear, Elapse, Lapsed
  <2>3. BlockedOnlyIfCalled'
    BY <1>3, <2>2 DEF IInv, BlockedOnlyIfCalled, Tick
  <2> QED BY <1>3, <2>1, <2>3 DEF IInv, Tick
<1>4. CASE UNCHANGED vars
  BY <1>4 DEF IInv, TypeOK, BlockedOnlyIfCalled, vars
<1> QED BY <1>1, <1>2, <1>3, <1>4 DEF Next

THEOREM InductiveInvariant == Spec => []IInv
BY InitIInv, NextIInv, PTL DEF Spec

-------------------------------------------------------------------------------
\* Every variable keeps its type: in particular no request ever marks a row, or
\* calls a target, that does not exist.
THEOREM TypeCorrect == Spec => []TypeOK
<1>1. IInv => TypeOK
  BY DEF IInv
<1> QED BY <1>1, InductiveInvariant, PTL

\* The walk of every request follows the sorted providers and the rotated accounts.
THEOREM WalkFollowsOrder == Spec => []WalkInOrder
<1>1. IInv => WalkInOrder
  BY DEF IInv, Walk, Ordered, WalkInOrder
<1> QED BY <1>1, InductiveInvariant, PTL

\* A provider or account that no request called is never blocked.
THEOREM FailuresAreCharged == Spec => []BlockedOnlyIfCalled
<1>1. IInv => BlockedOnlyIfCalled
  BY DEF IInv
<1> QED BY <1>1, InductiveInvariant, PTL

\* An account that waits to be called was waiting before, or was selectable just now.
LEMMA ReadyWasSelectable ==
  ASSUME IInv, NEW r \in Requests, Work(r) \/ Abandon(r), NEW a \in req'[r].ready \ {None}
  PROVE  a \in req[r].ready \/ (AccountOpen(a) /\ health' = health)
<1> DEFINE old == req[r]
<1>t. old \in Request /\ req \in [Requests -> Request]
  BY DEF IInv, TypeOK
<1>s. \A q : Set(r, q) => req'[r] = q
  BY <1>t DEF Set
<1>a. \A what : Answered(old, what).ready = {}
  BY DEF Answered, NewRequest
<1>1. CASE ListTargets(r)
  <2>0. PICK p \in old.left : \E batch \in Batches(p) : Set(r, Visit(old, p, batch))
    BY <1>1 DEF ListTargets
  <2>1. PICK batch \in Batches(p) : Set(r, Visit(old, p, batch))
    BY <2>0
  <2>2. req'[r].ready = batch
    BY <1>s, <1>t, <2>1 DEF Visit, Request
  <2>3. a \in Selectable(p)
    BY <2>2 DEF Batches, Prepared
  <2> QED BY <1>1, <2>3 DEF Selectable, ListTargets
<1>2. CASE Begin(r)
  <2>1. [old EXCEPT !.pc = "candidate", !.snap = {p \in Serving[r] : ProviderOpen(p)}].ready
          = old.ready
    BY <1>t DEF Request
  <2> QED BY <1>2, <1>a, <1>s, <2>1 DEF Begin
<1>3. CASE NextCandidate(r)
  <2> DEFINE found  == Found(r, old.cand, old.snap)
             nearby == IF r \in Raw THEN {} ELSE near \cap Protected
  <2>1. /\ [old EXCEPT !.cand = @ + 1].ready = old.ready
        /\ [old EXCEPT !.pc = "provider", !.left = found, !.near = nearby].ready = old.ready
    BY <1>t DEF Request
  <2> QED BY <1>3, <1>a, <1>s, <2>1 DEF NextCandidate
<1>4. CASE NoProviderLeft(r) \/ NoTargetLeft(r)
  <2>1. /\ [old EXCEPT !.pc = "candidate", !.cand = @ + 1, !.near = {}].ready = old.ready
        /\ [old EXCEPT !.pc = "provider", !.provider = None, !.turn = None].ready = old.ready
    BY <1>t DEF Request
  <2> QED BY <1>4, <1>s, <2>1 DEF NoProviderLeft, NoTargetLeft
<1>5. CASE Rotate(r)
  <2>1. \A turn : [old EXCEPT !.pc = "target", !.turn = turn, !.listed = {}].ready = old.ready
    BY <1>t DEF Request
  <2> QED BY <1>5, <1>s, <2>1 DEF Rotate
<1>6. CASE CallTarget(r)
  <2>1. PICK b \in old.ready :
          Set(r, [old EXCEPT !.pc = "calling", !.account = b, !.ready = @ \ {b},
                             !.reply = "pending", !.tried = @ \cup {Target(old, b)}])
    BY <1>6 DEF CallTarget
  <2>2. [old EXCEPT !.pc = "calling", !.account = b, !.ready = @ \ {b},
                    !.reply = "pending", !.tried = @ \cup {Target(old, b)}].ready
          = old.ready \ {b}
    BY <1>t DEF Request
  <2>3. req'[r].ready = old.ready \ {b}
    BY <1>s, <2>1, <2>2
  <2> QED BY <2>3
<1>7. CASE Reply(r)
  <2>1. PICK reply \in Replies(r), limited \in BOOLEAN :
          Set(r, IF reply = "garbled" THEN Answered(old, "broken")
                 ELSE [old EXCEPT !.pc = "mark_provider", !.reply = reply,
                                  !.limited = limited /\ reply # "ok"])
    BY <1>7 DEF Reply
  <2>2. [old EXCEPT !.pc = "mark_provider", !.reply = reply,
                    !.limited = limited /\ reply # "ok"].ready = old.ready
    BY <1>t DEF Request
  <2>3. CASE reply = "garbled"
    BY <1>a, <1>s, <2>1, <2>3
  <2>4. CASE reply # "garbled"
    BY <1>s, <2>1, <2>2, <2>4
  <2> QED BY <2>3, <2>4
<1>8. CASE MarkProvider(r) \/ MarkAccount(r)
  <2>1. AfterMarks(old).ready \subseteq old.ready
    BY <1>t, <1>a DEF AfterMarks, Request
  <2>2. [old EXCEPT !.pc = "mark_account"].ready = old.ready
    BY <1>t DEF Request
  <2>3. Set(r, AfterMarks(old)) \/ Set(r, [old EXCEPT !.pc = "mark_account"])
    BY <1>8 DEF MarkProvider, MarkAccount
  <2>4. CASE Set(r, AfterMarks(old))
    BY <1>s, <2>1, <2>4
  <2>5. CASE Set(r, [old EXCEPT !.pc = "mark_account"])
    BY <1>s, <2>2, <2>5
  <2> QED BY <2>3, <2>4, <2>5
<1>9. CASE CacheHit(r) \/ Store(r) \/ Abandon(r)
  BY <1>9, <1>a, <1>s DEF CacheHit, Store, Abandon
<1> QED BY <1>1, <1>2, <1>3, <1>4, <1>5, <1>6, <1>7, <1>8, <1>9 DEF Work

\* A request does not touch the account it has still to call.
LEMMA ReadyUntouched ==
  ASSUME IInv, NEW r \in Requests, Work(r) \/ Abandon(r), NEW a \in req[r].ready \ {None}
  PROVE  health'[a] = health[a]
<1> DEFINE q == req[r]
<1>t. Walk(q) /\ q \in Request /\ health \in [Rows -> Health] /\ a \in Accounts
  BY DEF IInv, TypeOK, Walk, Request
<1>1. CASE MarkProvider(r)
  <2>1. q.provider # a
    BY <1>1, <1>t, RowsAssumption DEF MarkProvider, At, Walk, Focused, Visiting
  <2> QED BY <1>1, <1>t, <2>1 DEF MarkProvider, Rows
<1>2. CASE MarkAccount(r)
  <2>1. Target(q, q.account) \in q.tried
    BY <1>2, <1>t DEF MarkAccount, At, Walk, Focused, Called
  <2>2. q.account # a
    BY <1>t, <2>1 DEF Walk, Ahead, Target
  <2> QED BY <1>2, <1>t, <2>2 DEF MarkAccount, Rows
<1>3. health' = health \/ MarkProvider(r) \/ MarkAccount(r)
  BY DEF Work, Abandon, Begin, NextCandidate, NoProviderLeft, ListTargets, Rotate,
         CallTarget, CacheHit, NoTargetLeft, Reply, Store
<1> QED BY <1>1, <1>2, <1>3

LEMMA RequestKeepsStale ==
  ASSUME IInv, StaleOnlyByOthers, NEW s \in Requests, Work(s) \/ Abandon(s)
  PROVE  StaleOnlyByOthers'
<1> SUFFICES ASSUME NEW r \in Requests, NEW a \in req'[r].ready \ {None}, ~AccountOpen(a)'
             PROVE  \E other \in Requests \ {r} : \E t \in req'[other].tried : t.account = a
  BY DEF StaleOnlyByOthers
<1>1. PICK q : Walk(q) /\ Set(s, q) /\ req[s].tried \subseteq q.tried
  BY StepOfRequest
<1>2. /\ req \in [Requests -> Request] /\ health \in [Rows -> Health]
      /\ \A other \in Requests : Walk(req[other])
  BY DEF IInv, TypeOK
<1>3. /\ \A other \in Requests \ {s} : req'[other] = req[other]
      /\ \A other \in Requests : req[other].tried \subseteq req'[other].tried
  BY <1>1, <1>2 DEF Set
<1>4. a \in req[r].ready
  <2>1. CASE r = s
    BY <2>1, ReadyWasSelectable DEF AccountOpen
  <2>2. CASE r # s
    BY <1>3, <2>2
  <2> QED BY <2>1, <2>2
<1>5. CASE ~AccountOpen(a)
  BY <1>3, <1>4, <1>5 DEF StaleOnlyByOthers
<1>6. CASE AccountOpen(a)
  <2>1. health'[a] # health[a]
    BY <1>6 DEF AccountOpen
  <2>2. r # s
    BY <1>4, <2>1, ReadyUntouched
  <2>3. a \in Accounts /\ a \in Rows
    BY <1>2, <1>4 DEF Walk, Request, Rows
  <2>4. PICK t \in req[s].tried : a \in {t.provider, t.account}
    BY <1>2, <2>1, <2>3, EffectOfRequest
  <2>5. t.provider \in Providers
    BY <1>2 DEF Walk, Request, Targets
  <2>6. t.account = a
    BY <2>3, <2>4, <2>5, RowsAssumption
  <2> QED BY <1>3, <2>2, <2>6
<1> QED BY <1>5, <1>6

\* A request that is about to call a blocked account has read its list before another request
\* called that account (execution_targets, mark_provider_account_failure).
THEOREM StaleByOthers == Spec => []StaleOnlyByOthers
<1>1. Init => StaleOnlyByOthers
  BY DEF Init, StaleOnlyByOthers, NewRequest
<1>2. IInv /\ StaleOnlyByOthers /\ [Next]_vars => StaleOnlyByOthers'
  <2> SUFFICES ASSUME IInv, StaleOnlyByOthers, [Next]_vars PROVE StaleOnlyByOthers'
    OBVIOUS
  <2>1. CASE \E r \in Requests : Work(r) \/ Abandon(r)
    BY <2>1, RequestKeepsStale
  <2>2. CASE \E a \in Operated : ToggleAccount(a)
    BY <2>2 DEF ToggleAccount, StaleOnlyByOthers, AccountOpen
  <2>3. CASE Tick
    <3>1. ASSUME NEW r \in Requests, NEW a \in req[r].ready \ {None}, AccountOpen(a)
          PROVE  AccountOpen(a)'
      <4>1. a \in Rows /\ health[a] \in Health
        BY DEF IInv, TypeOK, Request, Rows
      <4> QED BY <2>3, <3>1, <4>1 DEF Tick, AccountOpen, Elapse, Lapsed, Health, Timer
    <3>2. req' = req
      BY <2>3 DEF Tick
    <3> QED BY <3>1, <3>2 DEF StaleOnlyByOthers
  <2>4. CASE UNCHANGED vars
    BY <2>4 DEF vars, StaleOnlyByOthers, AccountOpen
  <2> QED BY <2>1, <2>2, <2>3, <2>4 DEF Next
<1> QED BY <1>1, <1>2, InductiveInvariant, PTL DEF Spec

-------------------------------------------------------------------------------
(***************************************************************************)
(* Router implements Failover.                                             *)
(***************************************************************************)

\* The abstract state after a step that sets the record of r to q.
LEMMA MappedStep ==
  ASSUME IInv, NEW r \in Requests, NEW q, Set(r, q)
  PROVE  /\ Abstract!fvars = << [x \in Requests |-> Owed(req[x])],
                               [x \in Requests |-> req[x].tried],
                               [x \in Requests |-> Verdict(req[x])],
                               [x \in Requests |-> Told(req[x])] >>
         /\ [x \in Requests |-> Owed(req[x])]' =
              [[x \in Requests |-> Owed(req[x])] EXCEPT ![r] = Owed(q)]
         /\ [x \in Requests |-> req[x].tried]' =
              [[x \in Requests |-> req[x].tried] EXCEPT ![r] = q.tried]
         /\ [x \in Requests |-> Verdict(req[x])]' =
              [[x \in Requests |-> Verdict(req[x])] EXCEPT ![r] = Verdict(q)]
         /\ [x \in Requests |-> Told(req[x])]' =
              [[x \in Requests |-> Told(req[x])] EXCEPT ![r] = Told(q)]
<1>1. req \in [Requests -> Request] /\ req' = [req EXCEPT ![r] = q]
  BY DEF IInv, TypeOK, Set
<1>2. /\ [x \in Requests |-> Owed(req[x])]' = [x \in Requests |-> Owed(req'[x])]
      /\ [x \in Requests |-> req[x].tried]' = [x \in Requests |-> req'[x].tried]
      /\ [x \in Requests |-> Verdict(req[x])]' = [x \in Requests |-> Verdict(req'[x])]
      /\ [x \in Requests |-> Told(req[x])]' = [x \in Requests |-> Told(req'[x])]
  BY DEF Owed, Verdict, Told, Target
<1>3. \A x \in Requests : req'[x] = IF x = r THEN q ELSE req[x]
  BY <1>1
<1>4. [x \in Requests |-> Owed(req'[x])] =
        [[x \in Requests |-> Owed(req[x])] EXCEPT ![r] = Owed(q)]
  BY <1>3
<1>5. [x \in Requests |-> req'[x].tried] =
        [[x \in Requests |-> req[x].tried] EXCEPT ![r] = q.tried]
  BY <1>3
<1>6. [x \in Requests |-> Verdict(req'[x])] =
        [[x \in Requests |-> Verdict(req[x])] EXCEPT ![r] = Verdict(q)]
  BY <1>3
<1>7. [x \in Requests |-> Told(req'[x])] =
        [[x \in Requests |-> Told(req[x])] EXCEPT ![r] = Told(q)]
  BY <1>3
<1> QED BY <1>2, <1>4, <1>5, <1>6, <1>7 DEF Abstract!fvars

\* What the abstract state shows of a request, point by point.
LEMMA MappedRequest ==
  ASSUME NEW q, Walk(q)
  PROVE  /\ q.pc # "done" <=> Told(q) = "none"
         /\ q.pc \in {"candidate", "provider", "rotate", "target"} =>
              Verdict(q) \in {"none", "fallback"}
         /\ q.pc = "new" => Verdict(q) = "none"
         /\ q.pc \in {"new", "candidate", "provider", "done"} => Owed(q) = {}
         /\ Owed(q) \subseteq Targets \/ q.pc \in {"candidate", "provider", "done", "new"}
<1>1. q.pc # "done" <=> Told(q) = "none"
  BY DEF Walk, Replied, Told
<1>2. q.pc \in {"candidate", "provider", "rotate", "target"} =>
              Verdict(q) \in {"none", "fallback"}
  BY DEF Walk, Replied, Verdict
<1>3. q.pc = "new" => Verdict(q) = "none"
  BY DEF Walk, Replied, Verdict
<1>4. q.pc \in {"new", "candidate", "provider", "done"} => Owed(q) = {}
  BY DEF Walk, Ahead, Owed
<1>5. q.pc \in Visiting => Owed(q) \subseteq Targets
  BY DEF Walk, Focused, Request, Owed, Target, Targets
<1> QED BY <1>1, <1>2, <1>3, <1>4, <1>5 DEF Walk, Request, Points, Visiting

\* An answered request owes nothing.
LEMMA MappedAnswer ==
  ASSUME NEW q, NEW what
  PROVE  /\ Owed(Answered(q, what)) = {}
         /\ Answered(q, what).tried = q.tried
         /\ Verdict(Answered(q, what)) = Verdict(q)
         /\ Told(Answered(q, what)) = IF what = "refused" THEN "error" ELSE what
BY DEF Answered, NewRequest, Owed, Verdict, Told

\* Each step of a request is a step of the abstract request, or none at all.
LEMMA RequestRefines ==
  ASSUME IInv, NEW r \in Requests, Work(r) \/ Abandon(r)
  PROVE  Abstract!FNext \/ UNCHANGED Abstract!fvars
<1> DEFINE old     == req[r]
           owed    == [x \in Requests |-> Owed(req[x])]
           used    == [x \in Requests |-> req[x].tried]
           verdict == [x \in Requests |-> Verdict(req[x])]
           answer  == [x \in Requests |-> Told(req[x])]
<1>w. Walk(old) /\ old \in Request
  BY DEF IInv, Walk
<1>f. /\ owed[r] = Owed(old) /\ used[r] = old.tried
      /\ verdict[r] = Verdict(old) /\ answer[r] = Told(old)
  OBVIOUS
<1>d. /\ owed = [x \in Requests |-> owed[x]] /\ used = [x \in Requests |-> used[x]]
      /\ verdict = [x \in Requests |-> verdict[x]] /\ answer = [x \in Requests |-> answer[x]]
  OBVIOUS
<1>p. ASSUME NEW q, Set(r, q)
      PROVE  /\ owed' = [owed EXCEPT ![r] = Owed(q)]
             /\ used' = [used EXCEPT ![r] = q.tried]
             /\ verdict' = [verdict EXCEPT ![r] = Verdict(q)]
             /\ answer' = [answer EXCEPT ![r] = Told(q)]
  BY <1>p, MappedStep
<1> HIDE DEF owed, used, verdict, answer
\* A step that changes nothing the abstract request shows.
<1>s. ASSUME NEW q, Set(r, q), Owed(q) = Owed(old), q.tried = old.tried,
             Verdict(q) = Verdict(old), Told(q) = Told(old)
      PROVE  UNCHANGED Abstract!fvars
  <2>1. owed' = owed /\ used' = used /\ verdict' = verdict /\ answer' = answer
    BY <1>s, <1>f, <1>d, <1>p
  <2> QED BY <2>1 DEF Abstract!fvars, owed, used, verdict, answer
<1>a. ASSUME NEW what, Set(r, Answered(old, what))
      PROVE  LET told == IF what = "refused" THEN "error" ELSE what IN
             /\ owed' = [owed EXCEPT ![r] = {}]
             /\ answer' = [answer EXCEPT ![r] = told]
             /\ used' = used /\ verdict' = verdict
  <2>1. /\ owed' = [owed EXCEPT ![r] = {}]
        /\ answer' = [answer EXCEPT ![r] = IF what = "refused" THEN "error" ELSE what]
        /\ used' = [used EXCEPT ![r] = old.tried]
        /\ verdict' = [verdict EXCEPT ![r] = Verdict(old)]
    BY <1>a, <1>p, MappedAnswer
  <2> QED BY <2>1, <1>f, <1>d
<1>b. ASSUME Set(r, Answered(old, "broken")), old.pc # "done"
      PROVE  Abstract!FNext
  <2>1. Abstract!Break(r)
    BY <1>a, <1>b, <1>f, <1>w, MappedRequest
       DEF Abstract!Break, Abstract!Answer, owed, used, verdict, answer
  <2> QED BY <2>1 DEF Abstract!FNext
<1>e. ASSUME NEW what \in {"refused", "error"}, Set(r, Answered(old, what)),
             old.pc \in {"new", "candidate"}
      PROVE  Abstract!FNext
  <2>1. Abstract!GiveUp(r)
    BY <1>a, <1>e, <1>f, <1>w, MappedRequest
       DEF Abstract!GiveUp, Abstract!Answer, Abstract!Undecided, owed, used, verdict, answer
  <2> QED BY <2>1 DEF Abstract!FNext
<1>1. CASE Begin(r)
  <2> DEFINE open    == {p \in Serving[r] : ProviderOpen(p)}
             n       == [old EXCEPT !.pc = "candidate", !.snap = open]
             refused == (IF r \in Raw THEN Found(r, 1, open) ELSE open) = {}
  <2>1. CASE refused
    BY <1>1, <1>e, <2>1 DEF Begin, At
  <2>2. CASE ~refused
    <3>1. Set(r, n)
      BY <1>1, <2>2 DEF Begin
    <3>2. Owed(n) = Owed(old) /\ n.tried = old.tried /\ Verdict(n) = Verdict(old)
          /\ Told(n) = Told(old)
      BY <1>w DEF Request, Owed, Target, Verdict, Told
    <3> HIDE DEF n
    <3> QED BY <1>s, <3>1, <3>2
  <2> QED BY <2>1, <2>2
<1>2. CASE NextCandidate(r)
  <2> DEFINE found  == Found(r, old.cand, old.snap)
             nearby == IF r \in Raw THEN {} ELSE near \cap Protected
             skip   == [old EXCEPT !.cand = @ + 1]
             sort   == [old EXCEPT !.pc = "provider", !.left = found, !.near = nearby]
  <2>0. old.pc = "candidate" /\ old.ready = {}
    BY <1>2, <1>w DEF NextCandidate, At, Walk, Ahead
  <2>1. CASE Set(r, Answered(old, "error"))
    BY <1>e, <2>0, <2>1
  <2>2. CASE Set(r, skip)
    <3>1. Owed(skip) = Owed(old) /\ skip.tried = old.tried /\ Verdict(skip) = Verdict(old)
          /\ Told(skip) = Told(old)
      BY <1>w, <2>0 DEF Request, Owed, Verdict, Told
    <3> HIDE DEF skip
    <3> QED BY <1>s, <2>2, <3>1
  <2>3. CASE Set(r, sort)
    <3>1. Owed(sort) = Owed(old) /\ sort.tried = old.tried /\ Verdict(sort) = Verdict(old)
          /\ Told(sort) = Told(old)
      BY <1>w, <2>0 DEF Request, Owed, Verdict, Told
    <3> HIDE DEF sort
    <3> QED BY <1>s, <2>3, <3>1
  <2>4. Set(r, Answered(old, "error")) \/ Set(r, skip) \/ Set(r, sort)
    BY <1>2 DEF NextCandidate
  <2> QED BY <2>1, <2>2, <2>3, <2>4
<1>3. CASE NoProviderLeft(r)
  <2> DEFINE n == [old EXCEPT !.pc = "candidate", !.cand = @ + 1, !.near = {}]
  <2>1. old.ready = {} /\ Set(r, n)
    BY <1>3, <1>w DEF NoProviderLeft, At, Walk, Ahead
  <2>2. Owed(n) = Owed(old) /\ n.tried = old.tried /\ Verdict(n) = Verdict(old)
        /\ Told(n) = Told(old)
    BY <1>w, <2>1 DEF Request, Owed, Verdict, Told
  <2> HIDE DEF n
  <2> QED BY <1>s, <2>1, <2>2
<1>4. CASE ListTargets(r)
  <2>1. PICK p \in old.left : /\ \A other \in old.left : ~Before(other, p, old.near)
                              /\ \E batch \in Batches(p) : Set(r, Visit(old, p, batch))
    BY <1>4 DEF ListTargets
  <2>2. PICK batch \in Batches(p) : Set(r, Visit(old, p, batch))
    BY <2>1
  <2> DEFINE n == Visit(old, p, batch)
  <2>0. old.pc = "provider"
    BY <1>4 DEF ListTargets, At
  <2>3. Walk(n)
    BY <1>w, <2>0, <2>1, VisitWalk
  <2>4. n.tried = old.tried /\ Verdict(n) = Verdict(old) /\ Told(n) = Told(old)
        /\ n.pc \in {"rotate", "target"}
    BY <1>w DEF Visit, Request, Verdict, Told
  <2>5. Owed(n) \subseteq Targets \ old.tried
    <3>1. Owed(n) \subseteq Targets
      BY <2>3, <2>4, MappedRequest
    <3>2. \A a \in n.ready : Target(n, a) \notin n.tried
      BY <2>3 DEF Walk, Ahead, Target
    <3> QED BY <2>4, <3>1, <3>2 DEF Owed
  <2> HIDE DEF n
  <2>6. /\ owed' = [owed EXCEPT ![r] = Owed(n)]
        /\ used' = [used EXCEPT ![r] = n.tried]
        /\ verdict' = [verdict EXCEPT ![r] = Verdict(n)]
        /\ answer' = [answer EXCEPT ![r] = Told(n)]
    BY <2>2, <1>p DEF n
  <2>7. Abstract!Undecided(r) /\ owed[r] = {}
    BY <1>f, <1>w, <2>0, MappedRequest DEF Abstract!Undecided, owed, used, verdict, answer
  <2>8. owed'[r] = Owed(n)
    BY <1>d, <2>6
  <2>9. Abstract!Offer(r)
    BY <1>f, <2>4, <2>5, <2>6, <2>7, <2>8 DEF Abstract!Offer, owed, used, verdict, answer
  <2> QED BY <2>9 DEF Abstract!FNext
<1>5. CASE Rotate(r)
  <2>1. PICK a \in old.listed : Set(r, [old EXCEPT !.pc = "target", !.turn = a, !.listed = {}])
    BY <1>5 DEF Rotate
  <2> DEFINE n == [old EXCEPT !.pc = "target", !.turn = a, !.listed = {}]
  <2>2. Owed(n) = Owed(old) /\ n.tried = old.tried /\ Verdict(n) = Verdict(old)
        /\ Told(n) = Told(old)
    BY <1>w DEF Request, Owed, Target, Verdict, Told
  <2>3. Set(r, n)
    BY <2>1
  <2> HIDE DEF n
  <2> QED BY <1>s, <2>2, <2>3
<1>6. CASE CallTarget(r)
  <2>1. PICK a \in old.ready :
          /\ IsNext(old, a)
          /\ Set(r, [old EXCEPT !.pc = "calling", !.account = a, !.ready = @ \ {a},
                                !.reply = "pending", !.tried = @ \cup {Target(old, a)}])
    BY <1>6 DEF CallTarget
  <2> DEFINE n == [old EXCEPT !.pc = "calling", !.account = a, !.ready = @ \ {a},
                              !.reply = "pending", !.tried = @ \cup {Target(old, a)}]
  <2>2. /\ n.ready = old.ready \ {a} /\ n.cand = old.cand /\ n.provider = old.provider
        /\ n.tried = old.tried \cup {Target(old, a)} /\ n.reply = "pending"
        /\ n.answer = old.answer
    BY <1>w DEF Request
  <2>3. Set(r, n)
    BY <2>1
  <2> HIDE DEF n
  <2>4. Verdict(n) = "pending" /\ Told(n) = Told(old)
    BY <2>2 DEF Verdict, Told
  <2>5. Owed(n) = Owed(old) \ {Target(old, a)} /\ Target(old, a) \in Owed(old)
    BY <2>1, <2>2 DEF Owed, Target
  <2>6. /\ owed' = [owed EXCEPT ![r] = owed[r] \ {Target(old, a)}]
        /\ used' = [used EXCEPT ![r] = used[r] \cup {Target(old, a)}]
        /\ verdict' = [verdict EXCEPT ![r] = "pending"]
        /\ answer' = [answer EXCEPT ![r] = Told(old)]
    BY <1>f, <1>p, <2>2, <2>3, <2>4, <2>5
  <2>7. Abstract!Undecided(r)
    BY <1>6, <1>f, <1>w, MappedRequest
       DEF Abstract!Undecided, CallTarget, At, owed, used, verdict, answer
  <2>8. Abstract!Call(r)
    BY <1>f, <2>5, <2>6, <2>7 DEF Abstract!Call, owed, used, verdict, answer
  <2> QED BY <2>8 DEF Abstract!FNext
<1>7. CASE CacheHit(r)
  <2>0. old.pc = "target" /\ old.ready # {} /\ Set(r, Answered(old, "hit"))
    BY <1>7 DEF CacheHit, At
  <2>1. Abstract!Undecided(r) /\ owed[r] # {}
    BY <1>f, <1>w, <2>0, MappedRequest
       DEF Abstract!Undecided, Owed, owed, used, verdict, answer
  <2>2. Abstract!ServeFromCache(r)
    BY <1>a, <2>0, <2>1
       DEF Abstract!ServeFromCache, Abstract!Answer, owed, used, verdict, answer
  <2> QED BY <2>2 DEF Abstract!FNext
<1>8. CASE NoTargetLeft(r)
  <2> DEFINE n == [old EXCEPT !.pc = "provider", !.provider = None, !.turn = None]
  <2>1. old.ready = {} /\ Set(r, n)
    BY <1>8 DEF NoTargetLeft
  <2>2. Owed(n) = Owed(old) /\ n.tried = old.tried /\ Verdict(n) = Verdict(old)
        /\ Told(n) = Told(old)
    BY <1>w, <2>1 DEF Request, Owed, Verdict, Told
  <2> HIDE DEF n
  <2> QED BY <1>s, <2>1, <2>2
<1>9. CASE Reply(r)
  <2>1. PICK reply \in Replies(r), limited \in BOOLEAN :
          Set(r, IF reply = "garbled" THEN Answered(old, "broken")
                 ELSE [old EXCEPT !.pc = "mark_provider", !.reply = reply,
                                  !.limited = limited /\ reply # "ok"])
    BY <1>9 DEF Reply
  <2>2. old.pc = "calling" /\ old.reply = "pending"
    BY <1>9, <1>w DEF Reply, At, Walk, Replied
  <2>3. CASE reply = "garbled"
    BY <1>b, <2>1, <2>2, <2>3
  <2>4. CASE reply # "garbled"
    <3> DEFINE n == [old EXCEPT !.pc = "mark_provider", !.reply = reply,
                                !.limited = limited /\ reply # "ok"]
    <3>1. Set(r, n)
      BY <2>1, <2>4
    <3>2. Owed(n) = Owed(old) /\ n.tried = old.tried /\ Told(n) = Told(old)
          /\ n.reply = reply
      BY <1>w DEF Request, Owed, Target, Told
    <3>3. Verdict(n) \in {"ok", "fallback", "fatal"}
      BY <2>4, <3>2 DEF Verdict, Replies
    <3> HIDE DEF n
    <3>4. /\ owed' = owed /\ used' = used /\ answer' = answer
          /\ verdict' = [verdict EXCEPT ![r] = Verdict(n)]
      BY <1>f, <1>d, <1>p, <3>1, <3>2
    <3>5. answer[r] = "none" /\ verdict[r] = "pending"
      BY <1>f, <1>w, <2>2, MappedRequest DEF Verdict
    <3>6. Abstract!Settle(r)
      BY <3>3, <3>4, <3>5 DEF Abstract!Settle, owed, used, verdict, answer
    <3> QED BY <3>6 DEF Abstract!FNext
  <2> QED BY <2>3, <2>4
\* What follows the last mark.
<1>m. ASSUME old.pc \in {"mark_provider", "mark_account"}, Set(r, AfterMarks(old))
      PROVE  Abstract!FNext \/ UNCHANGED Abstract!fvars
  <2>1. CASE old.reply \in {"ok", "fallback"}
    <3> DEFINE n == AfterMarks(old)
    <3>1. Owed(n) = Owed(old) /\ n.tried = old.tried /\ Verdict(n) = Verdict(old)
          /\ Told(n) = Told(old)
      BY <1>w, <2>1 DEF AfterMarks, Request, Owed, Target, Verdict, Told
    <3> HIDE DEF n
    <3> QED BY <1>m, <1>s, <3>1 DEF n
  <2>2. CASE old.reply \in {"fatal", "body_error"}
    <3>1. Set(r, Answered(old, "error"))
      BY <1>m, <2>2 DEF AfterMarks
    <3>2. answer[r] = "none" /\ verdict[r] = "fatal"
      BY <1>f, <1>m, <1>w, <2>2, MappedRequest DEF Verdict
    <3>3. Abstract!GiveUp(r)
      BY <1>a, <3>1, <3>2 DEF Abstract!GiveUp, Abstract!Answer, owed, used, verdict, answer
    <3> QED BY <3>3 DEF Abstract!FNext
  <2> QED BY <1>m, <1>w, <2>1, <2>2 DEF Walk, Replied
<1>10. CASE MarkProvider(r)
  <2>1. CASE old.account = None
    BY <1>10, <1>m, <2>1 DEF MarkProvider, At
  <2>2. CASE old.account # None
    <3> DEFINE n == [old EXCEPT !.pc = "mark_account"]
    <3>1. Set(r, n)
      BY <1>10, <2>2 DEF MarkProvider
    <3>2. Owed(n) = Owed(old) /\ n.tried = old.tried /\ Verdict(n) = Verdict(old)
          /\ Told(n) = Told(old)
      BY <1>w DEF Request, Owed, Target, Verdict, Told
    <3> HIDE DEF n
    <3> QED BY <1>s, <3>1, <3>2
  <2> QED BY <2>1, <2>2
<1>11. CASE MarkAccount(r)
  BY <1>11, <1>m DEF MarkAccount, At
<1>12. CASE Store(r)
  <2>1. old.pc = "store" /\ old.reply = "ok" /\ Set(r, Answered(old, "ok"))
    BY <1>12, <1>w DEF Store, At, Walk, Replied
  <2>2. answer[r] = "none" /\ verdict[r] = "ok"
    BY <1>f, <1>w, <2>1, MappedRequest DEF Verdict
  <2>3. Abstract!Succeed(r)
    BY <1>a, <2>1, <2>2 DEF Abstract!Succeed, Abstract!Answer, owed, used, verdict, answer
  <2> QED BY <2>3 DEF Abstract!FNext
<1>13. CASE Abandon(r)
  BY <1>13, <1>b DEF Abandon, At
<1> QED BY <1>1, <1>2, <1>3, <1>4, <1>5, <1>6, <1>7, <1>8, <1>9, <1>10, <1>11, <1>12, <1>13
        DEF Work

\* route and proxy_raw_to_provider keep the Failover contract towards every
\* client, for every number of concurrent requests.
THEOREM ContractKept == Spec => Contract
<1>1. Init => Abstract!FInit
  <2> SUFFICES ASSUME Init PROVE Abstract!FInit
    OBVIOUS
  <2> QED BY DEF Init, Abstract!FInit, NewRequest, Owed, Verdict, Told
<1>2. IInv /\ [Next]_vars => [Abstract!FNext]_(Abstract!fvars)
  <2> SUFFICES ASSUME IInv, [Next]_vars PROVE Abstract!FNext \/ UNCHANGED Abstract!fvars
    OBVIOUS
  <2>1. CASE \E r \in Requests : Work(r) \/ Abandon(r)
    BY <2>1, RequestRefines
  <2>2. CASE UNCHANGED req
    BY <2>2 DEF Abstract!fvars, Owed, Target, Verdict, Told
  <2> QED BY <2>1, <2>2 DEF Next, ToggleAccount, Tick, vars
<1> QED BY <1>1, <1>2, InductiveInvariant, PTL DEF Spec, Contract, Abstract!FSpec

\* An open circuit closes before its time only when a request succeeded on that
\* very row: no other step of any request, and no operator, closes one.
THEOREM CircuitsCloseBySuccess == Spec => ClearedOnlyBySuccess
<1> DEFINE Closed ==
      \A x \in Rows : health[x].circuit > 0 /\ health'[x].circuit = Lapsed =>
        \E r \in Requests : /\ req[r].reply = "ok"
                            /\ x \in {req[r].provider, req[r].account}
<1>1. IInv /\ [Next]_vars => [Closed]_vars
  <2> SUFFICES ASSUME IInv, Next, NEW x \in Rows,
                      health[x].circuit > 0, health'[x].circuit = Lapsed
               PROVE  \E r \in Requests : /\ req[r].reply = "ok"
                                          /\ x \in {req[r].provider, req[r].account}
    OBVIOUS
  <2>t. health \in [Rows -> Health] /\ health[x].circuit \in Int
    BY DEF IInv, TypeOK, Health, Timer
  <2>m. \A h, q : q.reply # "ok" => Marked(h, q).circuit # Lapsed
    BY TicksAssumption DEF Marked, Lapsed
  <2>1. health'[x] # health[x]
    BY <2>t DEF Lapsed
  <2>2. ASSUME NEW r \in Requests, MarkProvider(r)
        PROVE  req[r].reply = "ok" /\ x \in {req[r].provider, req[r].account}
    <3>1. health' = [health EXCEPT ![req[r].provider] = Marked(health[req[r].provider], req[r])]
      BY <2>2 DEF MarkProvider
    <3>2. x = req[r].provider /\ health'[x] = Marked(health[x], req[r])
      BY <2>1, <2>t, <3>1
    <3> QED BY <2>m, <3>2
  <2>3. ASSUME NEW r \in Requests, MarkAccount(r)
        PROVE  req[r].reply = "ok" /\ x \in {req[r].provider, req[r].account}
    <3>1. health' = [health EXCEPT ![req[r].account] = Marked(health[req[r].account], req[r])]
      BY <2>3 DEF MarkAccount
    <3>2. x = req[r].account /\ health'[x] = Marked(health[x], req[r])
      BY <2>1, <2>t, <3>1
    <3> QED BY <2>m, <3>2
  <2>4. CASE Tick
    BY <2>4, <2>t DEF Tick, Elapse, Lapsed
  <2>5. CASE \E r \in Requests : MarkProvider(r) \/ MarkAccount(r)
    BY <2>2, <2>3, <2>5
  <2>6. CASE health' = health
    BY <2>1, <2>6
  <2> QED BY <2>4, <2>5, <2>6
          DEF Next, Work, Abandon, Begin, NextCandidate, NoProviderLeft, ListTargets, Rotate,
              CallTarget, CacheHit, NoTargetLeft, Reply, Store, ToggleAccount
<1> QED BY <1>1, InductiveInvariant, PTL DEF Spec, ClearedOnlyBySuccess
===============================================================================
