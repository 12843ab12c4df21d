----------------------------- MODULE DaoCreation -----------------------------
(***************************************************************************)
(* Creating a DAO from the browser (src/apps/web/src/lib/                  *)
(* use-dao-deployment.ts, components/create-dao/deployment-transaction.ts, *)
(* stores/create-dao-store.ts): one draft, open in several tabs that share *)
(* the browser's storage and can each stop at any step, and the account    *)
(* whose transactions create the DAO. The draft is kept twice: in the      *)
(* collection every tab saves, and, once deployment has begun, under a     *)
(* recovery key of its own that only the deployment writes.                *)
(*                                                                         *)
(* A nonce stands for the addresses derived from it; an envelope is a      *)
(* signed transaction, named by its index in `envelopes` (its hash).       *)
(* Ledgers are read in order: a read sees the ledger it is made at.        *)
(***************************************************************************)
EXTENDS Integers, Sequences, SequencesExt, FiniteSetsExt

CONSTANTS
    Tabs, Configs,
    Launches,                   \* whether a DAO may be launched from another browser
    MaxNonces, MaxSigned, MaxSeq \* bounds: nonces drawn, envelopes signed, account sequence

ASSUME CreationAssumption ==
    /\ Launches \in BOOLEAN /\ "none" \notin Configs
    /\ {MaxNonces, MaxSigned} \subseteq Nat /\ MaxSeq \in Nat \ {0}

VARIABLES
    sequence,       \* of the account
    envelopes,      \* Seq of [seq, nonce, config, state, late, accepted]
    pending,        \* nonces with a PendingDao on the Manager
    drawn,          \* nonces drawn so far
    kept,           \* the draft in the collection (CREATE_WORKSPACE_KEY)
    snapshot,       \* the draft under its recovery key
    tab             \* [Tabs -> what runs in it]

chain == <<sequence, envelopes, pending>>
storage == <<kept, snapshot>>
vars == <<chain, drawn, storage, tab>>

NoRecord == [nonce |-> 0, predicted |-> FALSE, status |-> "none", hash |-> 0, accepted |-> FALSE]
NoDraft == [config |-> "none", record |-> NoRecord]
Idle == [at |-> "idle", config |-> "none", again |-> FALSE, record |-> NoRecord, seq |-> 0, answer |-> "none"]

Statuses == {"none", "prepared", "signed", "submitted", "rejected", "expired", "confirmed", "failed"}
Steps == {"idle", "edit", "reconcile", "inspect", "expire", "resend", "retry", "build", "predict",
          "simulate", "sign", "send", "answer", "confirm"}
Records ==
    [nonce : 0 .. MaxNonces, predicted : BOOLEAN, status : Statuses, hash : 0 .. MaxSigned, accepted : BOOLEAN]

TypeOK ==
    /\ sequence \in 1 .. MaxSeq /\ drawn \in 0 .. MaxNonces /\ pending \subseteq 1 .. drawn
    /\ \A e \in ToSet(envelopes) :
        /\ e.seq \in 1 .. MaxSeq /\ e.nonce \in 1 .. drawn /\ e.config \in Configs
        /\ e.state \in {"held", "sent", "succeeded", "failed"}
    /\ \A d \in {kept, snapshot} : d.config \in Configs \cup {"none"} /\ d.record \in Records
    /\ \A t \in Tabs : tab[t].at \in Steps /\ tab[t].record \in Records

Init ==
    /\ sequence = 1 /\ envelopes = <<>> /\ pending = {} /\ drawn = 0
    /\ kept \in {[config |-> c, record |-> NoRecord] : c \in Configs}
    /\ snapshot = NoDraft
    /\ tab = [t \in Tabs |-> Idle]

-----------------------------------------------------------------------------
(* The account's transactions on the ledger. *)

Created == {e.nonce : e \in {x \in ToSet(envelopes) : x.state = "succeeded"}}
Unresolved(e) == e.state \in {"held", "sent"} /\ ~e.late
Landable(e) == e.state = "sent" /\ ~e.late /\ e.seq >= sequence

\* The network takes one envelope of this sequence number; create_dao fails when the
\* addresses exist, and may fail for reasons of its own.
Include(i) ==
    LET e == envelopes[i] IN
    /\ Landable(e) /\ e.seq = sequence /\ sequence < MaxSeq
    /\ sequence' = sequence + 1
    /\ \E ok \in IF e.nonce \in Created THEN {FALSE} ELSE BOOLEAN :
        /\ envelopes' = [envelopes EXCEPT ![i].state = IF ok THEN "succeeded" ELSE "failed"]
        /\ pending' = IF ok THEN pending \cup {e.nonce} ELSE pending
    /\ UNCHANGED <<drawn, storage, tab>>

\* A ledger closes after the envelope's expiry.
Expire(i) ==
    /\ Unresolved(envelopes[i])
    /\ envelopes' = [envelopes EXCEPT ![i].late = TRUE]
    /\ UNCHANGED <<sequence, pending, drawn, storage, tab>>

\* Another transaction of the wallet.
SpendSequence ==
    /\ sequence < MaxSeq
    /\ sequence' = sequence + 1
    /\ UNCHANGED <<envelopes, pending, drawn, storage, tab>>

\* Setup launches the DAO, from this browser or another.
Launch(n) ==
    /\ Launches /\ n \in pending
    /\ pending' = pending \ {n}
    /\ UNCHANGED <<sequence, envelopes, drawn, storage, tab>>

-----------------------------------------------------------------------------
(* The drafts store. *)

FaultyCurrent == IF kept # NoDraft THEN kept ELSE snapshot

\* withRecoverySnapshots
Current == IF snapshot # NoDraft THEN snapshot ELSE kept

\* recordDeployment refuses a draft that is gone, another nonce and another configuration.
Recordable(c, r) ==
    /\ Current # NoDraft
    /\ Current.record # NoRecord => Current.record.nonce = r.nonce /\ Current.config = c

\* save, and what the operation does next. Full storage is a stop before the save, or after
\* it: a collection that lacks the record is the one another tab's autosave leaves.
Save(t, r, next) ==
    LET c == tab[t].config
        draft == [config |-> c, record |-> r] IN
    IF ~Recordable(c, r)
    THEN tab' = [tab EXCEPT ![t] = Idle] /\ UNCHANGED storage
    ELSE /\ snapshot' = draft /\ kept' = draft
         /\ tab' = [tab EXCEPT ![t] = IF next = "idle" THEN Idle ELSE [@ EXCEPT !.at = next, !.record = r]]

\* update: the drafts are read, the active one changed unless it is being deployed ...
ReadDrafts(t) ==
    /\ tab[t].at = "idle" /\ Current # NoDraft
    /\ \E c \in IF Current.record = NoRecord THEN Configs ELSE {Current.config} :
        tab' = [tab EXCEPT ![t] = [Idle EXCEPT !.at = "edit", !.config = c, !.record = Current.record]]
    /\ UNCHANGED <<chain, drawn, storage>>

\* ... and the collection is written: whatever another tab saved in between is overwritten there.
WriteDrafts(t) ==
    /\ tab[t].at = "edit"
    /\ kept' = [config |-> tab[t].config, record |-> tab[t].record]
    /\ tab' = [tab EXCEPT ![t] = Idle]
    /\ UNCHANGED <<chain, drawn, snapshot>>

Deletable(r) == r.status \in {"none", "failed", "confirmed"}

\* deleteDraft: the recovery key of a record goes with it, in one step with the collection.
DeleteDraft(t) ==
    /\ tab[t].at = "idle"
    /\ \A u \in Tabs : tab[u].at # "edit"  \* Bound: an autosave under way would bring the draft back.
    /\ Current # NoDraft /\ Deletable(Current.record)
    /\ snapshot' = IF Current.record = NoRecord THEN snapshot ELSE NoDraft
    /\ kept' = NoDraft
    /\ UNCHANGED <<chain, drawn, tab>>

-----------------------------------------------------------------------------
(* deployDao, one tab at a time under the draft's Web Lock. *)

Locked == \E t \in Tabs : tab[t].at \notin {"idle", "edit"}

Retryable(status) == status \in {"failed", "rejected", "expired"}

\* The configuration the user reviewed must be the one that is stored, after rehydration.
Begin(t) ==
    /\ tab[t].at = "idle" /\ ~Locked
    /\ Current # NoDraft /\ Current.record.status # "confirmed"
    /\ \E c \in Configs, again \in BOOLEAN :
        /\ c = Current.config
        /\ again => Current.record.hash # 0
        /\ tab' = [tab EXCEPT ![t] =
             [Idle EXCEPT !.at = IF Current.record = NoRecord THEN "build" ELSE "reconcile",
                          !.config = c, !.again = again, !.record = Current.record]]
    /\ UNCHANGED <<chain, drawn, storage>>

Goes(t, step) ==
    /\ tab' = [tab EXCEPT ![t] = IF step = "idle" THEN Idle ELSE [@ EXCEPT !.at = step]]
    /\ UNCHANGED storage

Finish(t) == Save(t, [tab[t].record EXCEPT !.status = "confirmed"], "idle")

\* reconcilePending, and what follows when the Manager holds no such DAO.
Found(t) == tab[t].record.predicted /\ tab[t].record.nonce \in pending

Reconcile(t) ==
    /\ tab[t].at = "reconcile"
    /\ \/ Found(t) /\ Finish(t)
       \/ ~Found(t) /\ Goes(t, IF tab[t].record.hash # 0 THEN "inspect" ELSE "build")
    /\ UNCHANGED <<chain, drawn>>

Outcome(r) ==
    LET e == envelopes[r.hash] IN
    IF e.state \in {"succeeded", "failed"} THEN e.state ELSE IF e.late THEN "expired" ELSE "pending"

Inspect(t) ==
    LET r == tab[t].record
        out == Outcome(r) IN
    /\ tab[t].at = "inspect"
    /\ \/ out = "succeeded" /\ Finish(t)
       \/ out = "failed" /\ r.status # "failed" /\ Save(t, [r EXCEPT !.status = "failed"], "idle")
       \/ out = "expired" /\ ~Retryable(r.status) /\ Goes(t, "expire")
       \/ out = "pending" /\ ~Retryable(r.status) /\ tab[t].again /\ Goes(t, "resend")
       \/ out = "pending" /\ ~Retryable(r.status) /\ ~tab[t].again
          /\ Goes(t, IF r.status = "submitted" THEN "confirm" ELSE "idle")
       \/ out # "succeeded" /\ (out = "failed" => r.status = "failed") /\ Retryable(r.status) /\ Goes(t, "retry")
    /\ UNCHANGED <<chain, drawn>>

\* The envelope expired: the Manager is asked once more, then a retry is allowed.
GiveUp(t) ==
    /\ tab[t].at = "expire"
    /\ \/ Found(t) /\ Finish(t)
       \/ ~Found(t) /\ Save(t, [tab[t].record EXCEPT !.status = "expired"], "idle")
    /\ UNCHANGED <<chain, drawn>>

\* The Manager is asked again before the saved bytes are sent again, or a new envelope is built.
AskAgain(t) ==
    /\ tab[t].at \in {"resend", "retry"}
    /\ \/ Found(t) /\ Finish(t)
       \/ ~Found(t) /\ Goes(t, IF tab[t].at = "resend" THEN "send" ELSE "build")
    /\ UNCHANGED <<chain, drawn>>

\* The nonce is drawn once for the draft.
Nonce(r) == IF r = NoRecord THEN drawn + 1 ELSE r.nonce

Build(t) ==
    LET r == tab[t].record IN
    /\ tab[t].at = "build" /\ Nonce(r) <= MaxNonces
    /\ drawn' = IF Nonce(r) > drawn THEN Nonce(r) ELSE drawn
    /\ Save(t, [NoRecord EXCEPT !.nonce = Nonce(r), !.predicted = r.predicted, !.status = "prepared"], "predict")
    /\ UNCHANGED chain

Predict(t) ==
    /\ tab[t].at = "predict"
    /\ Save(t, [tab[t].record EXCEPT !.predicted = TRUE], "simulate")
    /\ UNCHANGED <<chain, drawn>>

\* create_dao with the account's sequence number; a simulation that fails ends the attempt.
Simulate(t) ==
    /\ tab[t].at = "simulate"
    /\ tab' = [tab EXCEPT ![t] =
         IF @.record.nonce \in Created THEN Idle ELSE [@ EXCEPT !.at = "sign", !.seq = sequence]]
    /\ UNCHANGED <<chain, drawn, storage>>

\* signPrepared: the signed bytes are stored before they are sent.
Sign(t) ==
    LET e == [seq |-> tab[t].seq, nonce |-> tab[t].record.nonce, config |-> tab[t].config,
              state |-> "held", late |-> FALSE, accepted |-> FALSE] IN
    /\ tab[t].at = "sign" /\ Len(envelopes) < MaxSigned
    /\ envelopes' = Append(envelopes, e)
    /\ Save(t, [tab[t].record EXCEPT !.hash = Len(envelopes) + 1, !.status = "signed", !.accepted = FALSE], "send")
    /\ UNCHANGED <<sequence, pending, drawn>>

Decline(t) ==
    /\ tab[t].at = "sign"
    /\ Goes(t, "idle") /\ UNCHANGED <<chain, drawn>>

\* broadcastCreationEnvelope: the RPC accepts the envelope, refuses it, or nobody knows.
Send(t) ==
    LET i == tab[t].record.hash
        e == envelopes[i]
        fits == e.state = "held" /\ ~e.late /\ e.seq = sequence IN
    /\ tab[t].at = "send"
    /\ \/ fits /\ envelopes' = [envelopes EXCEPT ![i].state = "sent"]
          /\ \E a \in {"accepted", "unknown"} : tab' = [tab EXCEPT ![t].at = "answer", ![t].answer = a]
       \/ e.state \in {"sent", "succeeded"} /\ UNCHANGED envelopes
          /\ tab' = [tab EXCEPT ![t].at = "answer", ![t].answer = "accepted"]
       \/ UNCHANGED envelopes
          /\ \E a \in {"error", "unknown"} : tab' = [tab EXCEPT ![t].at = "answer", ![t].answer = a]
    /\ UNCHANGED <<sequence, pending, drawn, storage>>

FaultyRefuses(r) == TRUE

\* An error of one node does not undo what another has accepted.
Refuses(r) == ~r.accepted /\ r.status # "submitted"

Answer(t) ==
    LET r == tab[t].record
        a == tab[t].answer IN
    /\ tab[t].at = "answer"
    /\ \/ a = "accepted" /\ Save(t, [r EXCEPT !.status = "submitted", !.accepted = TRUE], "confirm")
          /\ envelopes' = [envelopes EXCEPT ![r.hash].accepted = snapshot'.record.accepted]
       \/ a = "error" /\ Refuses(r) /\ Save(t, [r EXCEPT !.status = "rejected"], "idle") /\ UNCHANGED envelopes
       \/ (a = "unknown" \/ (a = "error" /\ ~Refuses(r))) /\ Goes(t, "idle") /\ UNCHANGED envelopes
    /\ UNCHANGED <<sequence, pending, drawn>>

\* confirmCreationTransaction, within its minute.
Confirm(t) ==
    LET r == tab[t].record
        out == Outcome(r) IN
    /\ tab[t].at = "confirm"
    /\ \/ out = "succeeded" /\ Finish(t)
       \/ out = "failed" /\ Save(t, [r EXCEPT !.status = "failed"], "idle")
       \/ out \in {"pending", "expired"} /\ Goes(t, "idle")
    /\ UNCHANGED <<chain, drawn>>

\* A read or a save fails, or the tab is closed.
Stop(t) ==
    /\ tab[t].at # "idle"
    /\ tab' = [tab EXCEPT ![t] = Idle]
    /\ UNCHANGED <<chain, drawn, storage>>

-----------------------------------------------------------------------------

Ledger ==
    \/ \E i \in DOMAIN envelopes : Include(i) \/ Expire(i)
    \/ SpendSequence
    \/ \E n \in 1 .. MaxNonces : Launch(n)

Deploys(t) ==
    \/ Reconcile(t) \/ Inspect(t) \/ GiveUp(t) \/ AskAgain(t)
    \/ Build(t) \/ Predict(t) \/ Simulate(t) \/ Sign(t) \/ Decline(t)
    \/ Send(t) \/ Answer(t) \/ Confirm(t)

Next ==
    \/ Ledger
    \/ \E t \in Tabs :
        \/ ReadDrafts(t) \/ WriteDrafts(t) \/ DeleteDraft(t)
        \/ Begin(t) \/ Deploys(t) \/ Stop(t)

Spec == Init /\ [][Next]_vars

\* The user keeps coming back, first to check, then to send again or to retry what is saved;
\* the RPC answers; a transaction of this account is in the next ledgers.
Fairness(t) ==
    WF_vars(Deploys(t) \/ WriteDrafts(t)) /\ SF_vars(Begin(t))

FairSpec ==
    /\ Spec
    /\ \A t \in Tabs : Fairness(t)
    /\ <>[][\A t \in Tabs : Stop(t) => Deploys(t)]_vars

-----------------------------------------------------------------------------
(* Properties *)

\* A draft creates one DAO however often it is retried, from whichever tab: the nonce is
\* drawn once and survives rejections, expiries, crashes and another tab's autosave.
OneDao == Cardinality(Created) <= 1

\* The draft shows the configuration that was signed, although other tabs go on saving
\* the drafts they read earlier (the recovery key is written by the deployment alone).
ShownAsSigned ==
    \A e \in ToSet(envelopes) :
        (e.state \in {"sent", "succeeded"} /\ Current # NoDraft) => Current.config = e.config

\* No envelope can land, and no DAO is waiting in Setup, that the browser has forgotten:
\* its nonce and predicted addresses are saved, so that it will be found on the Manager.
NothingForgotten ==
    \A e \in ToSet(envelopes) :
        Landable(e) => Current.record.nonce = e.nonce /\ Current.record.predicted

\* A deployment that is shown as confirmed has created its DAO, and one shown as failed has not.
ConfirmedExists ==
    /\ Current.record.status = "confirmed" => Current.record.nonce \in Created
    /\ Current.record.status = "failed" => Current.record.nonce \notin Created

\* What the browser and the account never get wrong together.
CreationInv ==
    TypeOK /\ OneDao /\ ShownAsSigned /\ NothingForgotten /\ ConfirmedExists

\* The wallet is not asked to sign again while an envelope recorded as accepted may still
\* land (submitted ones are checked or sent again, never rebuilt).
NoSecondSignature ==
    [][Len(envelopes') > Len(envelopes) => \A e \in ToSet(envelopes) : ~(Landable(e) /\ e.accepted)]_vars

\* A DAO that was created is found: its draft ends as confirmed (or is gone).
Resolves ==
    \A n \in 1 .. MaxNonces : n \in Created ~> (Current = NoDraft \/ Current.record.status = "confirmed")
=============================================================================
