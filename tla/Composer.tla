------------------------------- MODULE Composer -------------------------------
(***************************************************************************)
(* One member's proposal draft for one tribe, in one browser tab            *)
(* (apps/web/src/stores/proposal-composer-store.ts and                      *)
(* lib/proposal-actions/): the queue of actions, the action open in the     *)
(* composer's form, the question asked when an action repeats, clashes or   *)
(* is high-risk, the Undo notices, and the submission.                      *)
(*                                                                          *)
(* Actions are the records of DraftRules.  While the question is open the   *)
(* dialog is modal, so only its answers happen; the form is a sheet over    *)
(* the composer only, and other pages may add to the draft behind it.       *)
(***************************************************************************)
EXTENDS DraftRules, SequencesExt

CONSTANTS Known,        \* the tribe's indexed state
          Forms,        \* what the picker offers: calls without a value
          Values,       \* values a form may hold
          Plans,        \* sequences of calls the Manage pages add as one
          MaxIds,       \* bound on the ids handed out
          MaxQueue,     \* bound on the queue's length
          MaxUndos,     \* Undo notices on the screen at a time
          MaxProposals  \* bound on the submissions

VARIABLES queue,        \* the queued actions
          edit,         \* the action set up in the form
          asked,        \* the request waiting for an answer
          undos,        \* the earlier queues the Undo notices hold
          inflight,     \* submissions being signed or confirmed
          proposals,    \* what the governor has taken
          nextId

vars == <<queue, edit, asked, undos, inflight, proposals, nextId>>

NoEdit == [mode |-> "none", index |-> 0, id |-> 0, form |-> [type |-> "", of |-> ""]]
NoAsk == [request |-> <<>>]
IdsPerRequest == 4      \* three actions and a bundle at most
Ids(q) == {q[i].id : i \in 1..Len(q)}
Action(id, form, val) == [id |-> id, type |-> form.type, of |-> form.of, val |-> val, bundle |-> 0]

Init ==
    /\ queue = <<>>
    /\ edit = NoEdit
    /\ asked = NoAsk
    /\ undos = <<>>
    /\ inflight = {}
    /\ proposals = {}
    /\ nextId = 1

-----------------------------------------------------------------------------
(* The queue as rows: a bundle's steps next to each other are one row.      *)

RowStarts(q) == {i \in 1..Len(q) : i = 1 \/ q[i].bundle = 0 \/ q[i].bundle # q[i - 1].bundle}

RowEnd(q, i) ==
    LET later == {j \in RowStarts(q) : j > i}
    IN  IF later = {} THEN Len(q) ELSE (CHOOSE j \in later : \A k \in later : j <= k) - 1

(* The row a position belongs to.                                           *)
RowOf(q, i) == Cardinality({j \in RowStarts(q) : j <= i})

(* The queue with its positions in the order of the rows given to them.     *)
InRowOrder(q, row) ==
    LET order == SortSeq([i \in 1..Len(q) |-> i],
                         LAMBDA i, j : row[i] < row[j] \/ (row[i] = row[j] /\ i < j))
    IN  [k \in 1..Len(q) |-> q[order[k]]]

(* A row takes the place of another, the rows between move up or down.      *)
MoveQueueItem(q, from, to) ==
    InRowOrder(q, [i \in 1..Len(q) |->
        LET r == RowOf(q, i)
        IN  CASE r = from -> to
              [] r > from /\ r <= to -> r - 1
              [] r < from /\ r >= to -> r + 1
              [] OTHER -> r])

(* An action inside a bundle takes its whole bundle with it.                *)
ExpandToBundles(q, ids) ==
    LET bundles == {q[i].bundle : i \in {j \in 1..Len(q) : q[j].id \in ids}} \ {0}
    IN  {q[i].id : i \in {j \in 1..Len(q) : q[j].id \in ids \/ q[j].bundle \in bundles}}

Without(q, ids) == SelectSeq(q, LAMBDA a : a.id \notin ids)

(* New actions at the place of the first one replaced, or at the end.       *)
ReplaceInQueue(q, ids, new) ==
    LET removed == ExpandToBundles(q, ids)
        places == {i \in 1..Len(q) : q[i].id \in removed}
        at == CHOOSE i \in places : \A j \in places : i <= j
    IN  IF places = {} THEN q \o new
        ELSE SubSeq(q, 1, at - 1) \o new \o Without(SubSeq(q, at, Len(q)), removed)

RemoveFromQueue(q, ids) == Without(q, ExpandToBundles(q, ids))

-----------------------------------------------------------------------------
(* A request: the actions to add, the bundle they form (0 for none) and the *)
(* queued actions they replace.                                             *)

Request(acts, bundle, replaces) == [acts |-> acts, bundle |-> bundle, replaces |-> replaces]

Stamped(r) ==
    [i \in 1..Len(r.acts) |-> IF r.bundle = 0 THEN r.acts[i] ELSE [r.acts[i] EXCEPT !.bundle = r.bundle]]

Place(r, q, acts) == IF r.replaces = {} THEN q \o acts ELSE ReplaceInQueue(q, r.replaces, acts)

(* Faulty: takes out the bundles of the steps it clashes with.               *)
FaultyReplaceStep(q, ids, a) ==
    LET removed == ExpandToBundles(q, ids)
        places == {i \in 1..Len(q) : q[i].id \in removed}
        at == CHOOSE i \in places : \A j \in places : i <= j
    IN  SubSeq(q, 1, at - 1) \o <<a>> \o Without(SubSeq(q, at + 1, Len(q)), removed)

(* One action in place of the steps it clashes with; in a bundle it stays   *)
(* in the bundle.                                                           *)
ReplaceStep(q, ids, a) ==
    LET places == {i \in 1..Len(q) : q[i].id \in ids}
        at == CHOOSE i \in places : \A j \in places : i <= j
        placed == IF q[at].bundle = 0 THEN a ELSE [a EXCEPT !.bundle = q[at].bundle]
    IN  SubSeq(q, 1, at - 1) \o <<placed>> \o Without(SubSeq(q, at + 1, Len(q)), ids)

(* The ids in q that the findings of kind k about the action id name.       *)
Named(findings, id, k, q) ==
    UNION {f.ids : f \in {g \in findings : g.action = id /\ g.kind = k}} \intersect Ids(q)

(* A bundle goes in whole or not at all.                                    *)
ResolveBundle(r, q, findings, answer) ==
    LET new == Stamped(r)
        clashing == UNION {Named(findings, new[i].id, k, q) : i \in 1..Len(new), k \in {"conflict", "duplicate"}}
    IN  CASE answer = "skip" /\ clashing # {} -> q
          [] answer = "replace" -> Place(r, Without(q, ExpandToBundles(q, clashing)), new)
          [] OTHER -> Place(r, q, new)

(* A single action; a repeat is never added, a clash replaces or is kept.   *)
ResolveOne(r, q, findings, answer) ==
    LET a == Stamped(r)[1]
        base == Without(q, ExpandToBundles(q, r.replaces))
        conflicts == Named(findings, a.id, "conflict", base)
        repeated == Named(findings, a.id, "duplicate", q) # {}
    IN  CASE repeated \/ (answer = "skip" /\ conflicts # {}) -> base
          [] ~repeated /\ answer = "replace" /\ conflicts # {} -> ReplaceStep(base, conflicts, a)
          [] OTHER -> Place(r, q, <<a>>)

Resolve(r, q, findings, answer) ==
    IF r.bundle = 0 THEN ResolveOne(r, q, findings, answer) ELSE ResolveBundle(r, q, findings, answer)

(* What the rules find about the request's actions, in the draft as it      *)
(* would be, naming the actions by their ids.                               *)
ReviewFindings(r, q) ==
    LET projected == Resolve(r, q, {}, "keep")
    IN  UNION {{[action |-> projected[i].id, kind |-> f.kind, ids |-> {projected[j].id : j \in f.on}] :
                  f \in FindingsAt(projected, i, Known)} :
               i \in {j \in 1..Len(projected) : projected[j].id \in Ids(r.acts)}}

TypeIn(acts, id) == acts[CHOOSE i \in 1..Len(acts) : acts[i].id = id].type

(* The member is asked about a repeat or clash with what stays queued, and  *)
(* about a high-risk action the proposal did not have.                      *)
NeedsReview(r, q) ==
    LET replaced == ExpandToBundles(q, r.replaces)
        stays == Ids(q) \ replaced
        reviewed == {q[i].type : i \in {j \in 1..Len(q) : q[j].id \in replaced}}
    IN  \E f \in ReviewFindings(r, q) :
            \/ f.kind = "high-risk" /\ f.action \notin Ids(q) /\ TypeIn(r.acts, f.action) \notin reviewed
            \/ f.kind \in {"duplicate", "conflict"} /\ f.ids \intersect stays # {}

-----------------------------------------------------------------------------
(* Adding.  The new queue takes the old one's place through restore, which  *)
(* closes an open edit; the form closes when it was the form that added.    *)

Remember(q) ==
    LET all == Append(undos, q)
    IN  IF Len(all) > MaxUndos THEN Tail(all) ELSE all

CloseEdit == IF edit.mode = "edit" THEN NoEdit ELSE edit

Apply(r, findings, answer, fromForm) ==
    LET next == Resolve(r, queue, findings, answer)
    IN  IF next = queue
        THEN UNCHANGED <<queue, edit, undos>>
        ELSE /\ Len(next) <= MaxQueue
             /\ queue' = next
             /\ undos' = Remember(queue)
             /\ edit' = IF fromForm THEN NoEdit ELSE CloseEdit

Propose(r, fromForm) ==
    /\ IF NeedsReview(r, queue)
       THEN /\ asked' = [request |-> r, findings |-> ReviewFindings(r, queue), fromForm |-> fromForm]
            /\ UNCHANGED <<queue, edit, undos>>
       ELSE /\ Apply(r, ReviewFindings(r, queue), "add", fromForm)
            /\ UNCHANGED asked
    /\ UNCHANGED <<inflight, proposals>>

(* An auction bundle that ends by resuming: the first one in the queue.     *)
OpenBundles(q) ==
    {i \in RowStarts(q) : /\ q[i].bundle # 0
                          /\ q[i].type = "pause-auction"
                          /\ q[RowEnd(q, i)].type = "unpause-auction"}

(* The composer's action a as a request: an edit keeps its place, and its   *)
(* bundle; an auction setting joins an open auction bundle before its       *)
(* resume, or comes with a pause and a resume of its own, whose ids and     *)
(* bundle are the three after a's.                                          *)
ComposerRequest(a, q, editingId) ==
    LET open == OpenBundles(q)
        at == CHOOSE i \in open : \A j \in open : i <= j
        end == RowEnd(q, at)
    IN  CASE editingId # 0 -> Request(<<a>>, 0, {editingId})
          [] editingId = 0 /\ (a.type \notin NeedsPausedAuction \/ Known.paused = "on") -> Request(<<a>>, 0, {})
          [] editingId = 0 /\ a.type \in NeedsPausedAuction /\ Known.paused # "on" /\ open # {} ->
               Request(Append(SubSeq(q, at, end - 1), a) \o <<q[end]>>, q[at].bundle, {q[at].id})
          [] OTHER ->
               Request(<<Action(a.id + 1, [type |-> "pause-auction", of |-> ""], 0), a,
                         Action(a.id + 2, [type |-> "unpause-auction", of |-> ""], 0)>>, a.id + 3, {})

(* The picker's choice opens the form.                                      *)
BeginCreate(form) ==
    /\ asked = NoAsk
    /\ edit = NoEdit
    /\ Len(queue) < MaxQueue
    /\ edit' = [mode |-> "create", index |-> 0, id |-> 0, form |-> form]
    /\ UNCHANGED <<queue, asked, undos, inflight, proposals, nextId>>

(* Edit on a row: an action of its own that a form makes opens in the form; *)
(* the store keeps its index.                                               *)
BeginEdit(i) ==
    /\ asked = NoAsk
    /\ edit = NoEdit
    /\ queue[i].bundle = 0
    /\ [type |-> queue[i].type, of |-> queue[i].of] \in Forms
    /\ edit' = [mode |-> "edit", index |-> i, id |-> queue[i].id,
                form |-> [type |-> queue[i].type, of |-> queue[i].of]]
    /\ UNCHANGED <<queue, asked, undos, inflight, proposals, nextId>>

CancelEdit ==
    /\ asked = NoAsk
    /\ edit # NoEdit
    /\ edit' = NoEdit
    /\ UNCHANGED <<queue, asked, undos, inflight, proposals, nextId>>

(* Save in the form: the action it edits is the one at the index.           *)
Save(val) ==
    /\ asked = NoAsk
    /\ edit # NoEdit
    /\ nextId' = nextId + IdsPerRequest
    /\ nextId' <= MaxIds + 1
    /\ LET editingId == IF edit.mode = "edit" /\ edit.index <= Len(queue) THEN queue[edit.index].id ELSE 0
       IN  Propose(ComposerRequest(Action(nextId, edit.form, val), queue, editingId), TRUE)

(* A Manage page adds its plan, several steps as a bundle; with an edit, in *)
(* place of the queued action the page was opened for.                      *)
ProposePlan(plan, replaces) ==
    /\ asked = NoAsk
    /\ nextId' = nextId + IdsPerRequest
    /\ nextId' <= MaxIds + 1
    /\ LET acts == [i \in 1..Len(plan) |-> Action(nextId + i - 1, plan[i], plan[i].val)]
       IN  Propose(Request(acts, IF Len(plan) > 1 THEN nextId + Len(plan) ELSE 0, replaces), FALSE)

(* The queued actions a page that makes the plan opens for editing.         *)
Editable(plan) ==
    {queue[i].id : i \in {j \in 1..Len(queue) : \E k \in 1..Len(plan) :
                            plan[k].type = queue[j].type /\ plan[k].of = queue[j].of}}

(* The answers the dialog offers.                                           *)
Offered(r, q, findings) ==
    LET queued(k) == {f \in findings : f.kind = k /\ f.ids \ Ids(r.acts) # {}}
        everyStepRepeats == \A i \in 1..Len(r.acts) : \E f \in queued("duplicate") : f.action = r.acts[i].id
    IN  CASE queued("conflict") # {} -> {"keep", "replace"}
          [] queued("conflict") = {} /\ queued("duplicate") # {} -> IF everyStepRepeats THEN {} ELSE {"skip"}
          [] OTHER -> {"add"}

Answer(answer) ==
    /\ asked # NoAsk
    /\ answer \in Offered(asked.request, queue, asked.findings)
    /\ Apply(asked.request, asked.findings, answer, asked.fromForm)
    /\ asked' = NoAsk
    /\ UNCHANGED <<inflight, proposals, nextId>>

Decline ==
    /\ asked # NoAsk
    /\ asked' = NoAsk
    /\ UNCHANGED <<queue, edit, undos, inflight, proposals, nextId>>

(* Remove on a row, the one in the form excepted.                           *)
RemoveRow(i) ==
    /\ asked = NoAsk
    /\ edit.mode = "edit" => edit.index \notin i..RowEnd(queue, i)
    /\ queue' = RemoveFromQueue(queue, {queue[i].id})
    /\ undos' = Remember(queue)
    /\ edit' = CloseEdit
    /\ UNCHANGED <<asked, inflight, proposals, nextId>>

MoveItem(from, to) ==
    /\ asked = NoAsk
    /\ from # to
    /\ queue' = MoveQueueItem(queue, from, to)
    /\ edit' = CloseEdit
    /\ UNCHANGED <<asked, undos, inflight, proposals, nextId>>

Undo(k) ==
    /\ asked = NoAsk
    /\ queue' = undos[k]
    /\ undos' = RemoveAt(undos, k)
    /\ edit' = CloseEdit
    /\ UNCHANGED <<asked, inflight, proposals, nextId>>

-----------------------------------------------------------------------------
(* Submitting.  The calls are those of the queue when the member confirms;  *)
(* when the proposal is confirmed on chain the draft is dropped.            *)

Submit ==
    /\ asked = NoAsk
    /\ edit = NoEdit
    /\ queue # <<>>
    /\ Blocking(queue, Known) = {}
    /\ Cardinality(inflight) + Cardinality(proposals) < MaxProposals
    /\ inflight' = inflight \union {queue}
    /\ UNCHANGED <<queue, edit, asked, undos, proposals, nextId>>

(* The governor takes a proposal once.                                      *)
Lands(s) ==
    /\ s \notin proposals
    /\ proposals' = proposals \union {s}
    /\ inflight' = inflight \ {s}
    /\ queue' = <<>>
    /\ edit' = NoEdit
    /\ UNCHANGED <<asked, undos, nextId>>

(* Declined in the wallet, refused by the network, or its answer lost.      *)
SubmitFails(s) ==
    /\ inflight' = inflight \ {s}
    /\ proposals' \in {proposals, proposals \union {s}}
    /\ UNCHANGED <<queue, edit, asked, undos, nextId>>

Discard ==
    /\ asked = NoAsk
    /\ edit = NoEdit
    /\ inflight = {}
    /\ queue # <<>>
    /\ queue' = <<>>
    /\ UNCHANGED <<edit, asked, undos, inflight, proposals, nextId>>

(* The draft and the open form are stored; the rest is lost, and what was   *)
(* sent may land or not.                                                    *)
Reload ==
    /\ asked' = NoAsk
    /\ undos' = <<>>
    /\ inflight' = {}
    /\ \E sent \in SUBSET inflight : proposals' = proposals \union sent
    /\ UNCHANGED <<queue, edit, nextId>>

Next ==
    \/ \E form \in Forms : BeginCreate(form)
    \/ \E i \in RowStarts(queue) : BeginEdit(i) \/ RemoveRow(i)
    \/ CancelEdit
    \/ \E val \in Values : Save(val)
    \/ \E plan \in Plans : \E replaces \in {{}} \union {{id} : id \in Editable(plan)} : ProposePlan(plan, replaces)
    \/ \E answer \in {"add", "keep", "replace", "skip"} : Answer(answer)
    \/ Decline
    \/ \E from, to \in 1..Cardinality(RowStarts(queue)) : MoveItem(from, to)
    \/ \E k \in 1..Len(undos) : Undo(k)
    \/ Submit
    \/ \E s \in inflight : Lands(s) \/ SubmitFails(s)
    \/ Discard
    \/ Reload

Spec == Init /\ [][Next]_vars

-----------------------------------------------------------------------------

Queueable == Forms \union {[type |-> t, of |-> ""] : t \in Toggles}

IsQueue(q) ==
    /\ Len(q) <= MaxQueue
    /\ \A i \in 1..Len(q) :
         /\ q[i].id \in 1..MaxIds
         /\ q[i].bundle \in 0..MaxIds
         /\ [type |-> q[i].type, of |-> q[i].of] \in Queueable

(* The types; every queue a notice holds is one the bounds allow.            *)
TypeOK ==
    /\ IsQueue(queue)
    /\ edit.mode \in {"none", "create", "edit"}
    /\ Len(undos) <= MaxUndos /\ \A k \in 1..Len(undos) : IsQueue(undos[k])
    /\ \A s \in inflight \union proposals : IsQueue(s) /\ s # <<>>
    /\ nextId \in 1..(MaxIds + 1)

(* The form saves into the action it was opened for: whatever was added,    *)
(* moved, removed or undone behind an open edit, the index the store keeps  *)
(* still names that action.                                                 *)
EditSavesIntoItsAction ==
    edit.mode = "edit" => edit.index <= Len(queue) /\ queue[edit.index].id = edit.id

(* While auctions run, a setting comes with a pause and keeps it: after any series of  *)
(* adds, edits, replacements, moves, removals and undos, a bundle's steps   *)
(* are still together, and its settings run between its pause and resume.   *)
BundlesStayWhole ==
    \A i, j \in 1..Len(queue) :
        queue[i].bundle # 0 /\ queue[i].bundle = queue[j].bundle /\ i <= j =>
            /\ \A k \in i..j : queue[k].bundle = queue[i].bundle
            /\ queue[j].type \in NeedsPausedAuction =>
                 LET last == LastToggle(SubSeq(queue, 1, j))
                 IN  IF last = 0 THEN Known.paused = "on"
                     ELSE queue[last].type = "pause-auction" /\ queue[last].bundle = queue[j].bundle

(* Ids of queued actions the request r, answered with answer, may take out: *)
(* what it replaces, with the rest of its bundle, and for "replace" what it *)
(* clashes with; a bundle takes the bundles of these out as well.           *)
MayGo(r, q, answer) ==
    LET clashing == {q[i].id : i \in {j \in 1..Len(q) :
                       \E k \in 1..Len(r.acts) : Resource(r.acts[k]) = Resource(q[j])}}
    IN  ExpandToBundles(q, r.replaces)
          \union CASE answer = "replace" /\ r.bundle = 0 -> clashing
                   [] answer = "replace" /\ r.bundle # 0 -> ExpandToBundles(q, clashing)
                   [] OTHER -> {}

(* Whatever the member answers, nothing else leaves the draft and the rest  *)
(* keeps its order.                                                         *)
AnswersKeepTheRest ==
    asked # NoAsk =>
        \A answer \in Offered(asked.request, queue, asked.findings) :
            LET next == Resolve(asked.request, queue, asked.findings, answer)
                others == Ids(queue) \ MayGo(asked.request, queue, answer)
                Rest(q) == SelectSeq(q, LAMBDA a : a.id \in others)
            IN  Rest(next) = Rest(queue)

(* Edits and answers are about what the member meant them to be about.      *)
ComposerInv == TypeOK /\ EditSavesIntoItsAction /\ AnswersKeepTheRest
=============================================================================
