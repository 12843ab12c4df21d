----------------------------- MODULE WebProofs ------------------------------
(***************************************************************************)
(* Theorems about the web application and the index it reads: the two      *)
(* protocols that bind what a member signs to what was reviewed,           *)
(* DaoCreation and ResaleTrade, the way from the chain's events to the     *)
(* pages, Indexer, and the rules a proposal is drafted by, ProposalDraft.  *)
(* The four parts share nothing but this module.                           *)
(***************************************************************************)
EXTENDS DaoCreation, ResaleTrade, Indexer, ProposalDraft,
        FiniteSetTheorems, NaturalsInduction, SequenceTheorems, TLAPS

-----------------------------------------------------------------------------
(* Creating a DAO. The invariant has three parts, each about what one      *)
(* actor knows of another: what the ledger holds of the account's          *)
(* envelopes, what the saved draft says of them, and what a tab in the     *)
(* middle of a deployment remembers of the draft.                          *)

Envelopes ==
    [seq : 1 .. MaxSeq, nonce : 1 .. MaxNonces, config : Configs,
     state : {"held", "sent", "succeeded", "failed"}, late : BOOLEAN, accepted : BOOLEAN]
Drafts == [config : Configs \cup {"none"}, record : Records]
TabStates ==
    [at : Steps, config : Configs \cup {"none"}, again : BOOLEAN, record : Records,
     seq : 0 .. MaxSeq, answer : {"none", "accepted", "error", "unknown"}]

-----------------------------------------------------------------------------
(* The invariant. *)

\* The account's envelopes are all of one nonce and one configuration, signed in the order of
\* their sequence numbers; once one created the DAO the rest are too late, and the one signed
\* last has not failed.
ChainInv ==
    /\ sequence \in 1 .. MaxSeq /\ drawn \in 0 .. MaxNonces
    /\ envelopes \in Seq(Envelopes) /\ Len(envelopes) <= MaxSigned
    /\ pending \subseteq Created
    /\ \A i \in DOMAIN envelopes :
        /\ envelopes[i].nonce <= drawn
        /\ envelopes[i].seq <= sequence
        /\ envelopes[i].state \in {"succeeded", "failed"} => envelopes[i].seq < sequence
    /\ \A i, j \in DOMAIN envelopes :
        /\ envelopes[i].nonce = envelopes[j].nonce /\ envelopes[i].config = envelopes[j].config
        /\ i <= j => envelopes[i].seq <= envelopes[j].seq
    /\ Created # {} =>
        /\ \A i \in DOMAIN envelopes : envelopes[i].seq < sequence
        /\ envelopes[Len(envelopes)].state # "failed"

\* The record of a draft knows its envelopes: its nonce and its configuration are theirs, its hash
\* is the last one's, its status is not ahead of the ledger, and no earlier envelope that the RPC
\* accepted can land.
Fits(d) ==
    LET r == d.record
        n == Len(envelopes) IN
    /\ d.config \in Configs /\ r \in Records /\ r.nonce \in 1 .. drawn /\ r.status # "none"
    /\ \A i \in DOMAIN envelopes :
        /\ envelopes[i].nonce = r.nonce /\ envelopes[i].config = d.config /\ r.predicted
        /\ envelopes[i].accepted /\ Landable(envelopes[i]) => i = n /\ r.hash = n
    /\ r.hash \in {0, n}
    /\ r.hash # 0 => r.accepted = envelopes[n].accepted
    /\ r.status = "rejected" => r.hash # 0 /\ ~r.accepted
    /\ r.status = "expired" => r.hash # 0 /\ envelopes[n].late
    /\ r.status = "failed" => r.hash # 0 /\ envelopes[n].state = "failed"
    /\ r.status = "confirmed" => r.nonce \in Created

\* What the browser keeps: the draft under the recovery key fits; without one nothing was signed
\* yet, or the draft is gone and nothing can land.
StorageInv ==
    /\ kept \in Drafts /\ snapshot \in Drafts
    /\ kept # NoDraft => kept.config \in Configs
    /\ snapshot # NoDraft => Fits(snapshot)
    /\ snapshot = NoDraft =>
        /\ kept.record = NoRecord
        /\ \A i \in DOMAIN envelopes : kept = NoDraft /\ ~Landable(envelopes[i])

\* The steps at which the draft cannot have been deleted.
Midway == {"predict", "simulate", "sign", "send", "answer", "confirm", "expire", "resend"}

Known(s) == snapshot = [config |-> s.config, record |-> s.record] /\ snapshot # NoDraft

\* What a tab remembers is what is saved, unless the draft is gone.
Fine(s) ==
    /\ s.at # "idle" => s.config \in Configs
    /\ s.at = "edit" => Current # NoDraft /\ (s.record # NoRecord => snapshot # NoDraft)
    /\ s.at \in Midway => Known(s) /\ ~Deletable(s.record)
    /\ s.at \in {"reconcile", "inspect", "retry", "build"} =>
        \/ Current = NoDraft /\ (s.at = "build" \/ s.record.status = "failed")
        \/ Known(s)
        \/ s.at = "build" /\ s.record = NoRecord /\ snapshot = NoDraft
    /\ s.at \in {"reconcile", "inspect"} => s.record.status \notin {"none", "confirmed"}
    /\ s.at \in {"predict", "simulate", "sign"} => s.record.hash = 0
    /\ s.at \in {"simulate", "sign"} => s.record.predicted
    /\ s.at \in {"inspect", "retry", "send", "answer", "confirm", "expire", "resend"} =>
        s.record.hash # 0
    /\ s.at = "retry" => Retryable(s.record.status)
    /\ s.at = "build" => s.record.hash = 0 \/ Retryable(s.record.status)
    /\ s.at = "expire" => envelopes[Len(envelopes)].late
    /\ s.at = "sign" =>
        /\ s.seq \in 1 .. sequence
        /\ Created # {} => s.seq < sequence
        /\ \A i \in DOMAIN envelopes : envelopes[i].seq <= s.seq

Deploying(t) == tab[t].at \notin {"idle", "edit"}

\* One tab deploys at a time, and every tab is fine.
TabsInv ==
    /\ tab \in [Tabs -> TabStates]
    /\ \A t, u \in Tabs : Deploying(t) /\ Deploying(u) => t = u
    /\ \A t \in Tabs : Fine(tab[t])

IInv == ChainInv /\ StorageInv /\ TabsInv

-----------------------------------------------------------------------------
(* What follows from the invariant. *)

\* A nonce was created if one of its envelopes succeeded.
LEMMA CreatedBy ==
    ASSUME NEW c
    PROVE  c \in Created <=> \E i \in DOMAIN envelopes :
                                envelopes[i].state = "succeeded" /\ envelopes[i].nonce = c
  BY DEF Created, ToSet

\* One nonce, so at most one DAO.
LEMMA AtMostOne == ASSUME IInv PROVE OneDao
  <1>1. CASE Created = {}
    <2>1. Cardinality(Created) = 0
      BY <1>1, FS_EmptySet
    <2> QED BY <2>1 DEF OneDao
  <1>2. CASE Created # {}
    <2>1. PICK c : c \in Created
      BY <1>2
    <2>2. Created = {c}
      BY <2>1, CreatedBy DEF IInv, ChainInv
    <2>3. Cardinality(Created) = 1
      BY <2>2, FS_Singleton
    <2> QED BY <2>3 DEF OneDao
  <1> QED BY <1>1, <1>2

\* Types, as the steps below use them.
LEMMA EnvelopeTypes ==
    ASSUME IInv
    PROVE  /\ sequence \in Nat /\ drawn \in Nat /\ Len(envelopes) \in Nat
           /\ DOMAIN envelopes = 1 .. Len(envelopes)
           /\ \A i \in DOMAIN envelopes :
                /\ envelopes[i] \in Envelopes
                /\ envelopes[i].seq \in 1 .. sequence /\ envelopes[i].seq \in 1 .. MaxSeq
                /\ envelopes[i].nonce \in 1 .. drawn /\ envelopes[i].nonce \in 1 .. MaxNonces
                /\ envelopes[i].config \in Configs
                /\ envelopes[i].state \in {"held", "sent", "succeeded", "failed"}
                /\ envelopes[i].late \in BOOLEAN /\ envelopes[i].accepted \in BOOLEAN
  <1>1. /\ sequence \in 1 .. MaxSeq /\ drawn \in 0 .. MaxNonces /\ envelopes \in Seq(Envelopes)
        /\ \A i \in DOMAIN envelopes : envelopes[i].nonce <= drawn /\ envelopes[i].seq <= sequence
    BY DEF IInv, ChainInv
  <1>2. \A i \in DOMAIN envelopes : envelopes[i] \in Envelopes
    BY <1>1
  <1>3. \A e \in Envelopes :
            /\ e.seq \in 1 .. MaxSeq /\ e.nonce \in 1 .. MaxNonces /\ e.config \in Configs
            /\ e.state \in {"held", "sent", "succeeded", "failed"}
            /\ e.late \in BOOLEAN /\ e.accepted \in BOOLEAN
    BY DEF Envelopes
  <1>4. MaxSeq \in Nat /\ MaxNonces \in Nat
    BY CreationAssumption
  <1>5. DOMAIN envelopes = 1 .. Len(envelopes) /\ Len(envelopes) \in Nat
    BY <1>1
  <1>6. sequence \in Nat /\ drawn \in Nat
    BY <1>1, <1>4
  <1>7. ASSUME NEW i \in DOMAIN envelopes
        PROVE  envelopes[i].seq \in 1 .. sequence /\ envelopes[i].nonce \in 1 .. drawn
    BY <1>1, <1>2, <1>3, <1>4, <1>6, <1>7
  <1> QED BY <1>2, <1>3, <1>5, <1>6, <1>7

\* An envelope that can land has the account's next sequence number.
LEMMA LandsNext ==
    ASSUME IInv, NEW i \in DOMAIN envelopes, Landable(envelopes[i])
    PROVE  envelopes[i].seq = sequence /\ Created = {}
  BY EnvelopeTypes DEF IInv, ChainInv, Landable

\* What the draft shows is the recovery key's, once anything was signed.
LEMMA CurrentIs ==
    ASSUME IInv
    PROVE  /\ Current # NoDraft => Current.config \in Configs
           /\ snapshot # NoDraft => Current = snapshot
           /\ Current # NoDraft /\ envelopes # <<>> => Current = snapshot /\ snapshot # NoDraft
           /\ Current.record # NoRecord => Current = snapshot /\ snapshot # NoDraft
  <1>1. envelopes # <<>> => 1 \in DOMAIN envelopes
    BY DEF IInv, ChainInv
  <1>2. snapshot = NoDraft => Current = kept
    BY DEF Current
  <1>3. snapshot # NoDraft => Current = snapshot /\ snapshot.config \in Configs
    BY DEF Current, IInv, StorageInv, Fits
  <1> QED BY <1>1, <1>2, <1>3 DEF IInv, StorageInv

\* A draft that may be deleted has no envelope that can land.
LEMMA DeletableIsSafe ==
    ASSUME IInv, Current # NoDraft, Deletable(Current.record)
    PROVE  \A i \in DOMAIN envelopes : ~Landable(envelopes[i])
  <1>1. CASE snapshot = NoDraft
    BY <1>1 DEF IInv, StorageInv
  <1>2. CASE snapshot # NoDraft
    <2> DEFINE n == Len(envelopes)
    <2>1. Current = snapshot /\ Fits(snapshot)
      BY <1>2 DEF Current, IInv, StorageInv
    <2>2. snapshot.record.status \in {"failed", "confirmed"}
      BY <2>1 DEF Deletable, Fits
    <2>3. CASE snapshot.record.status = "confirmed"
      BY <2>1, <2>3, LandsNext DEF Fits
    <2>4. CASE snapshot.record.status = "failed"
      <3>1. n # 0 /\ envelopes[n].state = "failed"
        BY <2>1, <2>4 DEF Fits
      <3>2. n \in DOMAIN envelopes
        BY <3>1 DEF IInv, ChainInv
      <3>3. envelopes[n].seq < sequence
        BY <3>1, <3>2 DEF IInv, ChainInv
      <3>4. ASSUME NEW i \in DOMAIN envelopes, Landable(envelopes[i]) PROVE FALSE
        <4>1. envelopes[i].seq = sequence
          BY <3>4, LandsNext
        <4>2. envelopes[i].seq <= envelopes[n].seq
          BY <3>2 DEF IInv, ChainInv
        <4>3. envelopes[n].seq \in Nat /\ sequence \in Nat
          BY <3>2, EnvelopeTypes
        <4> QED BY <4>1, <4>2, <4>3, <3>3
      <3> QED BY <3>4
    <2> QED BY <2>2, <2>3, <2>4
  <1> QED BY <1>1, <1>2

\* The properties follow.
LEMMA InvariantGives == ASSUME IInv PROVE CreationInv
  <1>1. OneDao
    BY AtMostOne
  <1>2. TypeOK
    <2>1. pending \subseteq 1 .. drawn
      BY CreatedBy, EnvelopeTypes DEF IInv, ChainInv
    <2>2. \A e \in ToSet(envelopes) :
            /\ e.seq \in 1 .. MaxSeq /\ e.nonce \in 1 .. drawn /\ e.config \in Configs
            /\ e.state \in {"held", "sent", "succeeded", "failed"}
      BY EnvelopeTypes DEF ToSet
    <2>3. sequence \in 1 .. MaxSeq /\ drawn \in 0 .. MaxNonces
      BY DEF IInv, ChainInv
    <2>4. \A d \in {kept, snapshot} : d.config \in Configs \cup {"none"} /\ d.record \in Records
      BY DEF IInv, StorageInv, Drafts
    <2>5. \A t \in Tabs : tab[t].at \in Steps /\ tab[t].record \in Records
      BY DEF IInv, TabsInv, TabStates
    <2> QED BY <2>1, <2>2, <2>3, <2>4, <2>5 DEF TypeOK
  <1>3. ASSUME NEW i \in DOMAIN envelopes, Current # NoDraft
        PROVE  /\ Current.config = envelopes[i].config
               /\ Current.record.nonce = envelopes[i].nonce /\ Current.record.predicted
    <2>1. Current = snapshot /\ snapshot # NoDraft
      BY <1>3, CurrentIs
    <2> QED BY <2>1 DEF IInv, StorageInv, Fits
  <1>4. ShownAsSigned
    BY <1>3 DEF ShownAsSigned, ToSet
  <1>5. Current = NoDraft => \A i \in DOMAIN envelopes : ~Landable(envelopes[i])
    BY DEF IInv, StorageInv, Current
  <1>6. NothingForgotten
    BY <1>3, <1>5 DEF NothingForgotten, ToSet
  <1>7. ConfirmedExists
    <2>1. CASE snapshot = NoDraft
      <3>1. Current.record = NoRecord
        BY <2>1 DEF IInv, StorageInv, Current
      <3> QED BY <3>1 DEF ConfirmedExists, NoRecord
    <2>2. CASE snapshot # NoDraft
      <3>1. Current = snapshot /\ Fits(snapshot)
        BY <2>2 DEF IInv, StorageInv, Current
      <3>2. snapshot.record.status = "failed" => Created = {}
        BY <3>1 DEF Fits, IInv, ChainInv
      <3> QED BY <3>1, <3>2 DEF ConfirmedExists, Fits
    <2> QED BY <2>1, <2>2
  <1> QED BY <1>1, <1>2, <1>4, <1>6, <1>7 DEF CreationInv

-----------------------------------------------------------------------------
(* The kinds of steps. *)

\* A step that leaves the ledger and the storage leaves what is said of them.
LEMMA NothingElse ==
    ASSUME UNCHANGED <<chain, drawn, storage>>
    PROVE  /\ ChainInv' <=> ChainInv
           /\ StorageInv' <=> StorageInv
           /\ \A s : Fine(s)' <=> Fine(s)
  <1>1. /\ sequence' = sequence /\ envelopes' = envelopes /\ pending' = pending
        /\ drawn' = drawn /\ kept' = kept /\ snapshot' = snapshot
    BY DEF chain, storage
  <1>2. ChainInv' <=> ChainInv
    BY <1>1 DEF ChainInv, Created
  <1>3. StorageInv' <=> StorageInv
    BY <1>1 DEF StorageInv, Fits, Landable, Created
  <1>4. ASSUME NEW s PROVE Fine(s)' <=> Fine(s)
    BY <1>1 DEF Fine, Known, Current, Created
  <1> QED BY <1>2, <1>3, <1>4

Alone(t) == \A u \in Tabs : Deploying(u) => u = t

\* A tab moves on.
LEMMA TabMoves ==
    ASSUME IInv, NEW t \in Tabs, NEW s \in TabStates, tab' = [tab EXCEPT ![t] = s],
           UNCHANGED <<chain, drawn, storage>>,
           s.at \in {"idle", "edit"} \/ Alone(t), Fine(s)
    PROVE  IInv'
  <1>1. tab \in [Tabs -> TabStates]
    BY DEF IInv, TabsInv
  <1>2. \A u \in Tabs : tab'[u] = IF u = t THEN s ELSE tab[u]
    BY <1>1
  <1>3. tab' \in [Tabs -> TabStates]
    BY <1>1
  <1>4. \A u, v \in Tabs : Deploying(u)' /\ Deploying(v)' => u = v
    BY <1>2 DEF Deploying, Alone, IInv, TabsInv
  <1>5. \A u \in Tabs : Fine(tab'[u])
    BY <1>2 DEF IInv, TabsInv
  <1>6. \A u \in Tabs : Fine(tab[u])'
    <2> SUFFICES ASSUME NEW u \in Tabs PROVE Fine(tab[u])'
      OBVIOUS
    <2>1. /\ sequence' = sequence /\ envelopes' = envelopes /\ pending' = pending
          /\ drawn' = drawn /\ kept' = kept /\ snapshot' = snapshot
      BY DEF chain, storage
    <2>2. Fine(tab'[u])
      BY <1>5
    <2> QED BY <2>1, <2>2 DEF Fine, Known, Current, Created
  <1>7. ChainInv' /\ StorageInv'
    BY NothingElse DEF IInv
  <1> QED BY <1>3, <1>4, <1>6, <1>7 DEF IInv, TabsInv

\* A tab stops, or has nothing left to do.
LEMMA TabStops ==
    ASSUME IInv, NEW t \in Tabs, tab' = [tab EXCEPT ![t] = Idle], UNCHANGED <<chain, drawn, storage>>
    PROVE  IInv'
  <1>1. Idle \in TabStates
    BY CreationAssumption DEF Idle, TabStates, Steps, Records, NoRecord, Statuses
  <1>2. Fine(Idle)
    BY DEF Fine, Idle, Midway
  <1>3. Idle.at = "idle"
    BY DEF Idle
  <1> QED BY <1>1, <1>2, <1>3, TabMoves

\* The ledger moves on: envelopes keep their order and what was signed, and none comes alive again.
LEMMA LedgerMoves ==
    ASSUME IInv, ChainInv', UNCHANGED <<drawn, storage, tab>>,
           Len(envelopes') = Len(envelopes), sequence' >= sequence,
           Created \subseteq Created', Created' = Created \/ sequence' > sequence,
           \A i \in DOMAIN envelopes :
              LET e == envelopes[i]  f == envelopes'[i] IN
              /\ f.nonce = e.nonce /\ f.seq = e.seq /\ f.config = e.config
              /\ f.accepted = e.accepted
              /\ e.late => f.late
              /\ e.state = "failed" => f.state = "failed"
              /\ Landable(envelopes[i])' => Landable(e)
    PROVE  IInv'
  <1>1. /\ drawn' = drawn /\ kept' = kept /\ snapshot' = snapshot /\ tab' = tab
    BY DEF storage
  <1>2. DOMAIN envelopes' = DOMAIN envelopes /\ Len(envelopes) \in Nat
        /\ DOMAIN envelopes = 1 .. Len(envelopes)
    BY DEF IInv, ChainInv
  <1>3. Fits(snapshot) => Fits(snapshot)'
    <2> SUFFICES ASSUME Fits(snapshot) PROVE Fits(snapshot)'
      OBVIOUS
    <2> DEFINE r == snapshot.record
               n == Len(envelopes)
    <2>1. /\ snapshot.config \in Configs /\ r \in Records /\ r.nonce \in 1 .. drawn
          /\ r.status # "none" /\ r.hash \in {0, n}
      BY DEF Fits
    <2>2. ASSUME NEW i \in DOMAIN envelopes
          PROVE  /\ envelopes'[i].nonce = r.nonce /\ envelopes'[i].config = snapshot.config
                 /\ r.predicted
                 /\ envelopes'[i].accepted /\ Landable(envelopes[i])' => i = n /\ r.hash = n
      BY DEF Fits
    <2>3. r.hash # 0 => n \in DOMAIN envelopes
      BY <1>2, <2>1
    <2>4. /\ r.hash # 0 => r.accepted = envelopes'[n].accepted
          /\ r.status = "rejected" => r.hash # 0 /\ ~r.accepted
          /\ r.status = "expired" => r.hash # 0 /\ envelopes'[n].late
          /\ r.status = "failed" => r.hash # 0 /\ envelopes'[n].state = "failed"
          /\ r.status = "confirmed" => r.nonce \in Created'
      BY <2>3 DEF Fits
    <2> QED BY <1>1, <1>2, <2>1, <2>2, <2>4 DEF Fits
  <1>4. StorageInv'
    <2>1. ASSUME snapshot = NoDraft, NEW i \in DOMAIN envelopes
          PROVE  kept = NoDraft /\ ~Landable(envelopes[i])'
      BY <2>1 DEF IInv, StorageInv
    <2> QED BY <1>1, <1>2, <1>3, <2>1 DEF IInv, StorageInv
  <1>5. ASSUME NEW t \in Tabs PROVE Fine(tab[t])'
    <2> DEFINE s == tab[t]
    <2> HIDE DEF s
    <2>0. Fine(s) /\ Current' = Current /\ (Known(s)' <=> Known(s))
      BY <1>1 DEF IInv, TabsInv, s, Known, Current
    <2>1. s.at = "expire" => envelopes'[Len(envelopes)].late
      <3> SUFFICES ASSUME s.at = "expire" PROVE envelopes'[Len(envelopes)].late
        OBVIOUS
      <3>1. envelopes[Len(envelopes)].late /\ Known(s) /\ s.record.hash # 0
        BY <2>0 DEF Fine, Midway
      <3>2. Fits(snapshot) /\ snapshot.record.hash # 0
        BY <3>1 DEF Known, IInv, StorageInv
      <3>3. Len(envelopes) \in DOMAIN envelopes
        BY <3>2, <1>2 DEF Fits
      <3> QED BY <3>1, <3>3
    <2>2. s.at = "sign" =>
            /\ s.seq \in 1 .. sequence'
            /\ Created' # {} => s.seq < sequence'
            /\ \A i \in DOMAIN envelopes : envelopes'[i].seq <= s.seq
      <3> SUFFICES ASSUME s.at = "sign"
                   PROVE  /\ s.seq \in 1 .. sequence'
                          /\ Created' # {} => s.seq < sequence'
                          /\ \A i \in DOMAIN envelopes : envelopes'[i].seq <= s.seq
        OBVIOUS
      <3>1. /\ s.seq \in 1 .. sequence /\ (Created # {} => s.seq < sequence)
            /\ \A i \in DOMAIN envelopes : envelopes[i].seq <= s.seq
        BY <2>0 DEF Fine
      <3>2. sequence \in Nat /\ sequence' \in Nat
        BY CreationAssumption DEF IInv, ChainInv
      <3> QED BY <3>1, <3>2
    <2>3. Fine(s)'
      <3>1. s' = s
        BY <1>1 DEF s
      <3> QED BY <1>1, <1>2, <2>0, <2>1, <2>2, <3>1 DEF Fine
    <2> QED BY <2>3 DEF s
  <1>6. TabsInv'
    BY <1>1, <1>5 DEF IInv, TabsInv, Deploying
  <1> QED BY <1>4, <1>6 DEF IInv

\* A deployment saves its record, whatever else it does.
LEMMA TabSaves ==
    ASSUME IInv, NEW t \in Tabs, Alone(t), NEW c \in Configs, NEW r \in Records, NEW s \in TabStates,
           tab' = [tab EXCEPT ![t] = s],
           snapshot' = [config |-> c, record |-> r], kept' \in {kept, snapshot'},
           ChainInv', Fits(snapshot)', Fine(s)'
    PROVE  IInv'
  <1>1. snapshot' # NoDraft /\ Current' # NoDraft
    <2>1. c # "none"
      BY CreationAssumption
    <2> QED BY <2>1 DEF NoDraft, Current
  <1>2. StorageInv'
    <2>1. snapshot' \in Drafts /\ snapshot'.config \in Configs
      BY DEF Drafts
    <2>2. kept' \in Drafts /\ (kept' # NoDraft => kept'.config \in Configs)
      BY <2>1 DEF IInv, StorageInv
    <2> QED BY <1>1, <2>1, <2>2 DEF StorageInv
  <1>3. tab \in [Tabs -> TabStates]
    BY DEF IInv, TabsInv
  <1>4. \A u \in Tabs : tab'[u] = IF u = t THEN s ELSE tab[u]
    BY <1>3
  <1>5. tab' \in [Tabs -> TabStates]
    BY <1>3
  <1>6. \A u, v \in Tabs : Deploying(u)' /\ Deploying(v)' => u = v
    BY <1>4 DEF Deploying, Alone
  <1>7. ASSUME NEW u \in Tabs PROVE Fine(tab[u])'
    <2>1. CASE u = t
      <3>1. tab'[u] = s
        BY <1>4, <2>1
      <3> QED BY <3>1 DEF Fine, Known, Current
    <2>2. CASE u # t
      <3>1. tab'[u] = tab[u] /\ tab[u].at \in {"idle", "edit"}
        BY <1>4, <2>2 DEF Alone, Deploying
      <3>2. tab[u].at # "idle" => tab[u].config \in Configs
        BY DEF IInv, TabsInv, Fine
      <3> QED BY <1>1, <3>1, <3>2 DEF Fine, Midway
    <2> QED BY <2>1, <2>2
  <1> QED BY <1>2, <1>5, <1>6, <1>7 DEF IInv, TabsInv

\* A tab that goes on with what it saved is fine.
LEMMA DraftSaved ==
    ASSUME IInv, NEW t \in Tabs, Alone(t), NEW c \in Configs, NEW r \in Records, NEW s \in TabStates,
           tab' = [tab EXCEPT ![t] = s],
           snapshot' = [config |-> c, record |-> r], kept' \in {kept, snapshot'},
           ChainInv', Fits(snapshot)',
           s.config = c, s.record = r, ~Deletable(r),
           \/ s.at = "predict" /\ r.hash = 0
           \/ s.at = "simulate" /\ r.hash = 0 /\ r.predicted
           \/ s.at \in {"send", "answer", "confirm"} /\ r.hash # 0
    PROVE  IInv'
  <1>1. snapshot' # NoDraft
    <2>1. c # "none" /\ snapshot'.config = c
      BY CreationAssumption
    <2> QED BY <2>1 DEF NoDraft
  <1>2. Known(s)'
    BY <1>1 DEF Known
  <1>3. Fine(s)'
    BY <1>2 DEF Fine, Midway
  <1> QED BY <1>3, TabSaves

\* What is known of a tab in the middle of a deployment.
LEMMA DeployingTab ==
    ASSUME IInv, NEW t \in Tabs, Deploying(t)
    PROVE  /\ Alone(t) /\ tab[t] \in TabStates /\ Fine(tab[t]) /\ tab[t].config \in Configs
           /\ tab[t].record \in Records
           /\ Known(tab[t]) =>
                /\ Current = snapshot /\ Current # NoDraft /\ Fits(snapshot)
                /\ snapshot.config = tab[t].config /\ snapshot.record = tab[t].record
  <1>1. tab[t] \in TabStates /\ Fine(tab[t]) /\ Alone(t)
    BY DEF IInv, TabsInv, Alone
  <1>2. tab[t].config \in Configs /\ tab[t].record \in Records
    BY <1>1 DEF Deploying, Fine, TabStates
  <1>3. Known(tab[t]) =>
                /\ Current = snapshot /\ Current # NoDraft /\ Fits(snapshot)
                /\ snapshot.config = tab[t].config /\ snapshot.record = tab[t].record
    BY DEF Known, Current, IInv, StorageInv
  <1> QED BY <1>1, <1>2, <1>3

\* A deployment whose draft is gone saves nothing.
LEMMA SaveRefused ==
    ASSUME IInv, NEW t \in Tabs, Current = NoDraft, NEW r, NEW next, Save(t, r, next)
    PROVE  tab' = [tab EXCEPT ![t] = Idle] /\ UNCHANGED storage
  BY DEF Save, Recordable

\* A tab that saved a record and goes on.
Saved(x, next, r) == [x EXCEPT !.at = next, !.record = r]

\* One that knows the draft saves a record of its nonce.
LEMMA SaveTaken ==
    ASSUME IInv, NEW t \in Tabs, Deploying(t), Known(tab[t]), NEW r \in Records,
           r.nonce = tab[t].record.nonce, NEW next, Save(t, r, next)
    PROVE  /\ snapshot' = [config |-> tab[t].config, record |-> r]
           /\ kept' = [config |-> tab[t].config, record |-> r]
           /\ next = "idle" => tab' = [tab EXCEPT ![t] = Idle]
           /\ next # "idle" => tab' = [tab EXCEPT ![t] = Saved(tab[t], next, r)]
  <1>1. Recordable(tab[t].config, r)
    BY DeployingTab DEF Recordable
  <1>2. tab \in [Tabs -> TabStates]
    BY DEF IInv, TabsInv
  <1> QED BY <1>1, <1>2 DEF Save, Saved

\* A new status is recorded, and the attempt ends.
LEMMA StatusSaved ==
    ASSUME IInv, NEW t \in Tabs, Deploying(t), Known(tab[t]) \/ Current = NoDraft,
           NEW st \in Statuses \ {"none"},
           Save(t, [tab[t].record EXCEPT !.status = st], "idle"), UNCHANGED <<chain, drawn>>,
           Known(tab[t]) =>
              LET r == tab[t].record  n == Len(envelopes) IN
              /\ st = "rejected" => r.hash # 0 /\ ~r.accepted
              /\ st = "expired" => r.hash # 0 /\ envelopes[n].late
              /\ st = "failed" => r.hash # 0 /\ envelopes[n].state = "failed"
              /\ st = "confirmed" => r.nonce \in Created
    PROVE  IInv'
  <1>1. CASE Current = NoDraft
    BY <1>1, SaveRefused, TabStops
  <1>2. CASE Known(tab[t])
    <2> DEFINE c == tab[t].config
               o == tab[t].record
               r == [o EXCEPT !.status = st]
    <2>1. o \in Records /\ c \in Configs /\ Alone(t) /\ Fits(snapshot)
          /\ snapshot.config = c /\ snapshot.record = o
      BY <1>2, DeployingTab
    <2>2. /\ r \in Records /\ r.nonce = o.nonce /\ r.predicted = o.predicted /\ r.hash = o.hash
          /\ r.accepted = o.accepted /\ r.status = st
      BY <2>1 DEF Records
    <2>3. /\ snapshot' = [config |-> c, record |-> r] /\ kept' = [config |-> c, record |-> r]
          /\ tab' = [tab EXCEPT ![t] = Idle]
      BY <1>2, <2>2, SaveTaken
    <2>4. /\ sequence' = sequence /\ envelopes' = envelopes /\ pending' = pending
          /\ drawn' = drawn
      BY DEF chain
    <2> HIDE DEF r
    <2>5. Fits(snapshot)'
      <3>1. snapshot'.config = c /\ snapshot'.record = r
        BY <2>3
      <3> QED BY <1>2, <2>1, <2>2, <3>1, <2>4 DEF Fits, Landable, Created
    <2>6. ChainInv'
      BY <2>4 DEF IInv, ChainInv, Created
    <2>7. Idle \in TabStates
      BY CreationAssumption DEF Idle, TabStates, Steps, Records, NoRecord, Statuses
    <2>8. Fine(Idle)'
      BY DEF Fine, Idle, Midway
    <2> QED BY <2>1, <2>2, <2>3, <2>5, <2>6, <2>7, <2>8, TabSaves
  <1> QED BY <1>1, <1>2

-----------------------------------------------------------------------------
(* The ledger's steps. *)

\* What a nonce was created by, after a step.
LEMMA CreatedThen ==
    ASSUME NEW c
    PROVE  c \in Created' <=> \E i \in DOMAIN envelopes' :
                                envelopes'[i].state = "succeeded" /\ envelopes'[i].nonce = c
  BY DEF Created, ToSet

\* The same nonces were created if no envelope changes its nonce or its state.
LEMMA SameCreated ==
    ASSUME DOMAIN envelopes' = DOMAIN envelopes,
           \A j \in DOMAIN envelopes :
              envelopes'[j].nonce = envelopes[j].nonce /\ envelopes'[j].state = envelopes[j].state
    PROVE  Created' = Created
  <1>1. \A x : x \in Created' <=> x \in Created
    <2> SUFFICES ASSUME NEW x PROVE x \in Created' <=> x \in Created
      OBVIOUS
    <2>1. x \in Created <=> \E j \in DOMAIN envelopes :
                              envelopes[j].state = "succeeded" /\ envelopes[j].nonce = x
      BY CreatedBy
    <2>2. x \in Created' <=> \E j \in DOMAIN envelopes' :
                              envelopes'[j].state = "succeeded" /\ envelopes'[j].nonce = x
      BY CreatedThen
    <2> QED BY <2>1, <2>2
  <1> QED BY <1>1

\* One envelope changes.
LEMMA EnvelopeChanges ==
    ASSUME IInv, NEW i \in DOMAIN envelopes, NEW f \in Envelopes,
           envelopes' = [envelopes EXCEPT ![i] = f]
    PROVE  /\ DOMAIN envelopes' = DOMAIN envelopes /\ Len(envelopes') = Len(envelopes)
           /\ envelopes' \in Seq(Envelopes)
           /\ \A j \in DOMAIN envelopes : envelopes'[j] = IF j = i THEN f ELSE envelopes[j]
  <1>1. envelopes \in Seq(Envelopes)
    BY DEF IInv, ChainInv
  <1> QED BY <1>1

\* An envelope lands: only while nothing was created, and the sequence number passes every
\* other.
LEMMA IncludeKeeps ==
    ASSUME IInv, NEW i \in DOMAIN envelopes, Include(i)
    PROVE  IInv'
  <1> DEFINE e == envelopes[i]
             n == Len(envelopes)
  <1>1. e.seq = sequence /\ Created = {} /\ e.state = "sent"
    BY LandsNext DEF Include, Landable
  <1>2. PICK ok \in BOOLEAN :
            /\ envelopes' = [envelopes EXCEPT ![i].state = IF ok THEN "succeeded" ELSE "failed"]
            /\ pending' = IF ok THEN pending \cup {e.nonce} ELSE pending
    BY DEF Include
  <1> DEFINE st == IF ok THEN "succeeded" ELSE "failed"
  <1>3. /\ sequence' = sequence + 1 /\ sequence < MaxSeq
        /\ drawn' = drawn /\ UNCHANGED <<storage, tab>>
    BY DEF Include
  <1>4. /\ sequence \in Nat /\ sequence \in 1 .. MaxSeq /\ MaxSeq \in Nat
        /\ envelopes \in Seq(Envelopes) /\ n \in Nat /\ DOMAIN envelopes = 1 .. n
        /\ n <= MaxSigned /\ pending \subseteq Created /\ drawn \in 0 .. MaxNonces
    BY EnvelopeTypes, CreationAssumption DEF IInv, ChainInv
  <1>5. /\ DOMAIN envelopes' = 1 .. n /\ Len(envelopes') = n
        /\ \A j \in 1 .. n : envelopes'[j] = IF j = i THEN [e EXCEPT !.state = st] ELSE envelopes[j]
    BY <1>2, <1>4
  <1>6. \A j \in 1 .. n :
            /\ envelopes'[j].seq = envelopes[j].seq /\ envelopes'[j].nonce = envelopes[j].nonce
            /\ envelopes'[j].config = envelopes[j].config /\ envelopes'[j].late = envelopes[j].late
            /\ envelopes'[j].accepted = envelopes[j].accepted
            /\ envelopes'[j].state = IF j = i THEN st ELSE envelopes[j].state
            /\ envelopes'[j] \in Envelopes
    <2> DEFINE g == [e EXCEPT !.state = st]
    <2>1. i \in 1 .. n /\ \A j \in 1 .. n : envelopes[j] \in Envelopes
      BY <1>4, EnvelopeTypes
    <2>2. e \in Envelopes /\ st \in {"succeeded", "failed"}
      BY <2>1
    <2>3. \A j \in 1 .. n : IF j = i THEN envelopes'[j] = g ELSE envelopes'[j] = envelopes[j]
      BY <1>5
    <2> HIDE DEF st
    <2>4. /\ g \in Envelopes /\ g.seq = e.seq /\ g.nonce = e.nonce /\ g.config = e.config
          /\ g.late = e.late /\ g.accepted = e.accepted /\ g.state = st
      <3> HIDE DEF e
      <3> QED BY <2>2 DEF Envelopes
    <2> HIDE DEF g, n
    <2> QED BY <2>1, <2>3, <2>4
  <1>7. envelopes' \in Seq(Envelopes)
    BY <1>2, <1>4, <1>6, <1>5
  <1>8. \A j \in 1 .. n : envelopes[j].state # "succeeded"
    BY <1>1, <1>4, CreatedBy
  <1> HIDE DEF e, n, st
  <1>9. \A c : c \in Created' <=> ok /\ c = e.nonce
    BY <1>4, <1>5, <1>6, <1>8, CreatedThen DEF e, st
  <1>10. pending' \subseteq Created'
    BY <1>1, <1>2, <1>4, <1>9
  <1>11. \A j \in 1 .. n : envelopes[j].seq < sequence' /\ envelopes[j].seq \in Nat
    BY <1>3, <1>4, EnvelopeTypes
  <1>12. Created' # {} => envelopes'[n].state # "failed"
    <2> SUFFICES ASSUME ok, envelopes'[n].state = "failed" PROVE FALSE
      BY <1>9
    <2>1. n \in 1 .. n /\ i \in 1 .. n /\ i <= n
      BY <1>4
    <2>2. n # i /\ envelopes[n].state = "failed"
      BY <1>6, <2>1 DEF st
    <2>3. envelopes[n].seq < sequence /\ e.seq <= envelopes[n].seq
      BY <1>4, <2>1, <2>2 DEF IInv, ChainInv, e
    <2> QED BY <1>1, <1>4, <1>11, <2>1, <2>3
  <1>13. ChainInv'
    <2>1. \A j \in 1 .. n : envelopes[j].nonce <= drawn
      BY <1>4 DEF IInv, ChainInv
    <2>2. \A j, k \in 1 .. n :
            /\ envelopes[j].nonce = envelopes[k].nonce /\ envelopes[j].config = envelopes[k].config
            /\ j <= k => envelopes[j].seq <= envelopes[k].seq
      BY <1>4 DEF IInv, ChainInv
    <2>3. sequence' \in 1 .. MaxSeq
      BY <1>3, <1>4
    <2>4. \A j \in 1 .. n : envelopes[j].seq <= sequence'
      BY <1>3, <1>4, <1>11
    <2> QED BY <1>3, <1>4, <1>5, <1>6, <1>7, <1>10, <1>11, <1>12, <2>1, <2>2, <2>3, <2>4 DEF ChainInv
  <1>14. Created \subseteq Created' /\ sequence' >= sequence /\ sequence' > sequence
    BY <1>1, <1>3, <1>4
  <1>15. ASSUME NEW j \in DOMAIN envelopes
         PROVE  /\ envelopes[j].state = "failed" => envelopes'[j].state = "failed"
                /\ Landable(envelopes[j])' => Landable(envelopes[j])
    <2>1. envelopes[j].state = "failed" => j # i
      BY <1>1 DEF e
    <2>2. envelopes'[j].seq < sequence'
      BY <1>4, <1>6, <1>11
    <2>3. ~Landable(envelopes[j])'
      BY <1>3, <1>4, <1>6, <1>11, <2>2 DEF Landable
    <2> QED BY <1>4, <1>6, <2>1, <2>3
  <1>16. UNCHANGED <<drawn, storage, tab>>
    BY <1>3
  <1>17. Len(envelopes') = Len(envelopes)
    BY <1>5 DEF n
  <1>18. \A j \in DOMAIN envelopes :
              LET a == envelopes[j]  b == envelopes'[j] IN
              /\ b.nonce = a.nonce /\ b.seq = a.seq /\ b.config = a.config
              /\ b.accepted = a.accepted
              /\ a.late => b.late
              /\ a.state = "failed" => b.state = "failed"
              /\ Landable(envelopes[j])' => Landable(a)
    BY <1>4, <1>6, <1>15
  <1> QED BY <1>13, <1>14, <1>16, <1>17, <1>18, LedgerMoves

\* A ledger closes too late for an envelope.
LEMMA ExpireKeeps ==
    ASSUME IInv, NEW i \in DOMAIN envelopes, Expire(i)
    PROVE  IInv'
  <1> DEFINE n == Len(envelopes)
             f == [envelopes[i] EXCEPT !.late = TRUE]
  <1>1. /\ envelopes' = [envelopes EXCEPT ![i].late = TRUE]
        /\ sequence' = sequence /\ pending' = pending /\ UNCHANGED <<drawn, storage, tab>>
    BY DEF Expire
  <1>2. /\ sequence \in Nat /\ envelopes \in Seq(Envelopes) /\ n \in Nat /\ DOMAIN envelopes = 1 .. n
        /\ n <= MaxSigned
    BY EnvelopeTypes DEF IInv, ChainInv
  <1>3. /\ DOMAIN envelopes' = 1 .. n /\ Len(envelopes') = n
        /\ \A j \in 1 .. n : envelopes'[j] = IF j = i THEN f ELSE envelopes[j]
        /\ envelopes' \in Seq(Envelopes)
    <2>1. f \in Envelopes
      BY EnvelopeTypes DEF Envelopes
    <2>2. envelopes' = [envelopes EXCEPT ![i] = f]
      BY <1>1
    <2> HIDE DEF f
    <2> QED BY <1>2, <2>1, <2>2, EnvelopeChanges
  <1>4. \A j \in 1 .. n :
            /\ envelopes'[j].seq = envelopes[j].seq /\ envelopes'[j].nonce = envelopes[j].nonce
            /\ envelopes'[j].config = envelopes[j].config
            /\ envelopes'[j].accepted = envelopes[j].accepted
            /\ envelopes'[j].state = envelopes[j].state
            /\ envelopes[j].late => envelopes'[j].late
    <2>1. \A j \in 1 .. n : envelopes[j] \in Envelopes
      BY <1>2, EnvelopeTypes
    <2>2. \A e \in Envelopes :
            LET g == [e EXCEPT !.late = TRUE] IN
            /\ g.seq = e.seq /\ g.nonce = e.nonce /\ g.config = e.config
            /\ g.accepted = e.accepted /\ g.state = e.state /\ g.late
      BY DEF Envelopes
    <2>3. /\ f.seq = envelopes[i].seq /\ f.nonce = envelopes[i].nonce
          /\ f.config = envelopes[i].config /\ f.accepted = envelopes[i].accepted
          /\ f.state = envelopes[i].state /\ f.late
      BY <1>2, <2>1, <2>2
    <2> HIDE DEF f
    <2> QED BY <1>3, <2>3
  <1> HIDE DEF n, f
  <1>6. Created' = Created
    BY <1>2, <1>3, <1>4, SameCreated
  <1>7. ChainInv'
    <2>1. \A j, k \in 1 .. n :
            /\ envelopes[j].nonce = envelopes[k].nonce /\ envelopes[j].config = envelopes[k].config
            /\ j <= k => envelopes[j].seq <= envelopes[k].seq
      BY <1>2 DEF IInv, ChainInv
    <2>2. \A j \in 1 .. n :
            /\ envelopes[j].nonce <= drawn
            /\ envelopes[j].seq <= sequence
            /\ envelopes[j].state \in {"succeeded", "failed"} => envelopes[j].seq < sequence
      BY <1>2 DEF IInv, ChainInv
    <2>3. Created # {} =>
            /\ \A j \in 1 .. n : envelopes[j].seq < sequence
            /\ envelopes[n].state # "failed" /\ n \in 1 .. n
      <3>1. Created # {} => n \in 1 .. n
        BY <1>2, CreatedBy
      <3> QED BY <1>2, <3>1 DEF IInv, ChainInv, n
    <2>4. /\ sequence \in 1 .. MaxSeq /\ drawn \in 0 .. MaxNonces /\ pending \subseteq Created
      BY DEF IInv, ChainInv
    <2> QED BY <1>1, <1>2, <1>3, <1>4, <1>6, <2>1, <2>2, <2>3, <2>4 DEF ChainInv
  <1>8. \A j \in DOMAIN envelopes :
              LET a == envelopes[j]  b == envelopes'[j] IN
              /\ b.nonce = a.nonce /\ b.seq = a.seq /\ b.config = a.config
              /\ b.accepted = a.accepted
              /\ a.late => b.late
              /\ a.state = "failed" => b.state = "failed"
              /\ Landable(envelopes[j])' => Landable(a)
    BY <1>1, <1>2, <1>4 DEF Landable
  <1>9. Len(envelopes') = Len(envelopes) /\ sequence' >= sequence /\ UNCHANGED <<drawn, storage, tab>>
    BY <1>1, <1>2, <1>3 DEF n
  <1>10. Created \subseteq Created' /\ (Created' = Created \/ sequence' > sequence)
    BY <1>6
  <1> QED BY <1>7, <1>8, <1>9, <1>10, LedgerMoves

\* Another transaction takes a sequence number; a DAO is launched.
LEMMA SpendSequenceKeeps == ASSUME IInv, SpendSequence PROVE IInv'
  <1>1. /\ sequence' = sequence + 1 /\ sequence < MaxSeq /\ envelopes' = envelopes
        /\ pending' = pending /\ UNCHANGED <<drawn, storage, tab>>
    BY DEF SpendSequence
  <1>2. Created' = Created
    BY <1>1 DEF Created
  <1>3. sequence \in Nat /\ \A j \in DOMAIN envelopes : envelopes[j].seq \in Nat
    BY EnvelopeTypes
  <1>4. ChainInv'
    <2>1. sequence' \in 1 .. MaxSeq
      BY <1>1, <1>3, CreationAssumption DEF IInv, ChainInv
    <2>2. \A j \in DOMAIN envelopes : envelopes[j].seq <= sequence' /\ envelopes[j].seq < sequence'
      BY <1>1, <1>3 DEF IInv, ChainInv
    <2> QED BY <1>1, <1>2, <2>1, <2>2 DEF IInv, ChainInv
  <1>5. \A j \in DOMAIN envelopes : Landable(envelopes[j])' => Landable(envelopes[j])
    BY <1>1, <1>3 DEF Landable
  <1>6. Len(envelopes') = Len(envelopes) /\ sequence' >= sequence /\ UNCHANGED <<drawn, storage, tab>>
    BY <1>1, <1>3
  <1> QED BY <1>1, <1>2, <1>4, <1>5, <1>6, LedgerMoves

\* A launch takes a DAO from the Manager's list; it stays created.
LEMMA LaunchKeeps == ASSUME IInv, NEW m, Launch(m) PROVE IInv'
  <1>1. /\ pending' \subseteq pending /\ sequence' = sequence /\ envelopes' = envelopes
        /\ UNCHANGED <<drawn, storage, tab>>
    BY DEF Launch
  <1>2. Created' = Created
    BY <1>1 DEF Created
  <1>3. sequence \in Nat
    BY EnvelopeTypes
  <1>4. ChainInv'
    BY <1>1, <1>2 DEF IInv, ChainInv
  <1>5. \A j \in DOMAIN envelopes : Landable(envelopes[j])' => Landable(envelopes[j])
    BY <1>1 DEF Landable
  <1>6. Len(envelopes') = Len(envelopes) /\ sequence' >= sequence /\ UNCHANGED <<drawn, storage, tab>>
    BY <1>1, <1>3
  <1> QED BY <1>1, <1>2, <1>4, <1>5, <1>6, LedgerMoves

-----------------------------------------------------------------------------
(* The drafts store. *)

\* A tab that starts from nothing.
LEMMA FreshTab ==
    ASSUME NEW a \in Steps, NEW c \in Configs, NEW b \in BOOLEAN, NEW r \in Records
    PROVE  /\ [Idle EXCEPT !.at = a, !.config = c, !.record = r] \in TabStates
           /\ [Idle EXCEPT !.at = a, !.config = c, !.again = b, !.record = r] \in TabStates
  <1>1. Idle \in TabStates
    BY CreationAssumption DEF Idle, TabStates, Steps, Records, NoRecord, Statuses
  <1>2. \A x \in TabStates :
          /\ [x EXCEPT !.at = a] \in TabStates /\ [x EXCEPT !.config = c] \in TabStates
          /\ [x EXCEPT !.again = b] \in TabStates /\ [x EXCEPT !.record = r] \in TabStates
    BY DEF TabStates
  <1> HIDE DEF TabStates, Idle
  <1> QED BY <1>1, <1>2

\* An autosave reads what is saved.
LEMMA ReadDraftsKeeps == ASSUME IInv, NEW t \in Tabs, ReadDrafts(t) PROVE IInv'
  <1>1. PICK c \in IF Current.record = NoRecord THEN Configs ELSE {Current.config} :
          tab' = [tab EXCEPT ![t] =
                    [Idle EXCEPT !.at = "edit", !.config = c, !.record = Current.record]]
    BY DEF ReadDrafts
  <1> DEFINE s == [Idle EXCEPT !.at = "edit", !.config = c, !.record = Current.record]
  <1>2. Current # NoDraft /\ UNCHANGED <<chain, drawn, storage>>
    BY DEF ReadDrafts
  <1>3. c \in Configs
    BY <1>1, <1>2, CurrentIs
  <1>4. Current.record \in Records
    BY DEF Current, IInv, StorageInv, Drafts
  <1>5. s.at = "edit" /\ s.config = c /\ s.record = Current.record
    BY DEF Idle
  <1>6. s \in TabStates
    <2>1. "edit" \in Steps
      BY DEF Steps
    <2> QED BY <1>3, <1>4, <2>1, FreshTab
  <1>7. Fine(s)
    BY <1>2, <1>3, <1>5, CurrentIs DEF Fine, Midway
  <1> HIDE DEF s
  <1> QED BY <1>1, <1>2, <1>5, <1>6, <1>7, TabMoves DEF s

\* An autosave writes the collection only: the recovery key it may contradict is read first.
LEMMA WriteDraftsKeeps == ASSUME IInv, NEW t \in Tabs, WriteDrafts(t) PROVE IInv'
  <1> DEFINE k == [config |-> tab[t].config, record |-> tab[t].record]
  <1>1. /\ tab[t].at = "edit" /\ kept' = k /\ tab' = [tab EXCEPT ![t] = Idle]
        /\ snapshot' = snapshot /\ drawn' = drawn
        /\ sequence' = sequence /\ envelopes' = envelopes /\ pending' = pending
    BY DEF WriteDrafts, chain
  <1>2. /\ tab[t].config \in Configs /\ tab[t].record \in Records
        /\ Current # NoDraft /\ (tab[t].record # NoRecord => snapshot # NoDraft)
    BY <1>1 DEF IInv, TabsInv, Fine, TabStates
  <1>3. k \in Drafts /\ k # NoDraft /\ k.config \in Configs /\ k.record = tab[t].record
    BY <1>2, CreationAssumption DEF Drafts, NoDraft
  <1> HIDE DEF k
  <1>4. Created' = Created
    BY <1>1 DEF Created
  <1>5. ChainInv'
    BY <1>1, <1>4 DEF IInv, ChainInv
  <1>6. \A i \in DOMAIN envelopes : snapshot # NoDraft
    BY <1>2, CurrentIs
  <1>7. StorageInv'
    <2>1. Fits(snapshot)' <=> Fits(snapshot)
      BY <1>1, <1>4 DEF Fits, Landable
    <2> QED BY <1>1, <1>2, <1>3, <1>6, <2>1 DEF IInv, StorageInv
  <1>8. Current' # NoDraft /\ (snapshot # NoDraft => Current' = Current)
    BY <1>1, <1>3 DEF Current
  <1>9. tab \in [Tabs -> TabStates] /\ Idle \in TabStates
    BY CreationAssumption
       DEF IInv, TabsInv, Idle, TabStates, Steps, Records, NoRecord, Statuses
  <1>10. \A u \in Tabs : tab'[u] = IF u = t THEN Idle ELSE tab[u]
    BY <1>1, <1>9
  <1>11. ASSUME NEW u \in Tabs PROVE Fine(tab[u])'
    <2>1. CASE u = t
      <3>1. tab'[u].at = "idle"
        BY <1>10, <2>1 DEF Idle
      <3> QED BY <3>1 DEF Fine, Midway
    <2>2. CASE u # t
      <3>1. tab'[u] = tab[u]
        BY <1>10, <2>2
      <3>2. Fine(tab[u])
        BY DEF IInv, TabsInv
      <3> QED BY <1>1, <1>2, <1>4, <1>8, <3>1, <3>2 DEF Fine, Known
    <2> QED BY <2>1, <2>2
  <1>12. TabsInv'
    <2>1. tab' \in [Tabs -> TabStates]
      BY <1>1, <1>9
    <2>2. \A u, v \in Tabs : Deploying(u)' /\ Deploying(v)' => u = v
      BY <1>10 DEF Deploying, IInv, TabsInv, Idle
    <2> QED BY <1>11, <2>1, <2>2 DEF TabsInv
  <1> QED BY <1>5, <1>7, <1>12 DEF IInv

\* A draft is deleted only when no envelope of it can land any more; a deployment that was about
\* to retry a failed one then saves nothing.
LEMMA DeleteDraftKeeps == ASSUME IInv, NEW t \in Tabs, DeleteDraft(t) PROVE IInv'
  <1>1. /\ \A u \in Tabs : tab[u].at # "edit"
        /\ Current # NoDraft /\ Deletable(Current.record)
        /\ snapshot' = (IF Current.record = NoRecord THEN snapshot ELSE NoDraft)
        /\ kept' = NoDraft /\ drawn' = drawn /\ tab' = tab
        /\ sequence' = sequence /\ envelopes' = envelopes /\ pending' = pending
    BY DEF DeleteDraft, chain
  <1>2. Current.record = NoRecord => snapshot = NoDraft
    <2> SUFFICES ASSUME snapshot # NoDraft PROVE Current.record # NoRecord
      OBVIOUS
    <2>1. Current = snapshot /\ snapshot.record.status # "none"
      BY DEF Current, IInv, StorageInv, Fits
    <2> QED BY <2>1 DEF NoRecord
  <1>3. snapshot' = NoDraft /\ Current' = NoDraft
    BY <1>1, <1>2 DEF Current
  <1>4. Created' = Created
    BY <1>1 DEF Created
  <1>5. ChainInv'
    BY <1>1, <1>4 DEF IInv, ChainInv
  <1>6. StorageInv'
    <2>1. NoDraft \in Drafts /\ NoDraft.record = NoRecord
      BY CreationAssumption DEF NoDraft, Drafts, Records, NoRecord, Statuses
    <2>2. \A i \in DOMAIN envelopes : ~Landable(envelopes[i])'
      BY <1>1, DeletableIsSafe DEF Landable
    <2> QED BY <1>1, <1>3, <2>1, <2>2 DEF StorageInv
  <1>7. ASSUME NEW u \in Tabs PROVE Fine(tab[u])'
    <2> DEFINE s == tab[u]
    <2> HIDE DEF s
    <2>1. Fine(s) /\ s.at # "edit"
      BY <1>1 DEF IInv, TabsInv, s
    <2>2. Known(s) => Current.record = s.record
      BY DEF Known, Current
    <2>3. s.at \notin Midway
      BY <1>1, <2>1, <2>2 DEF Fine
    <2>4. s.at \in {"reconcile", "inspect", "retry", "build"} =>
            s.at = "build" \/ s.record.status = "failed"
      <3> SUFFICES ASSUME s.at \in {"reconcile", "inspect", "retry"} PROVE s.record.status = "failed"
        OBVIOUS
      <3>1. Known(s)
        BY <1>1, <2>1 DEF Fine
      <3>2. s.record.status \in {"none", "failed", "confirmed"}
        BY <1>1, <2>2, <3>1 DEF Deletable
      <3>3. s.at = "retry" => s.record.status \in {"failed", "rejected", "expired"}
        BY <2>1 DEF Fine, Retryable
      <3>4. s.at \in {"reconcile", "inspect"} => s.record.status \notin {"none", "confirmed"}
        BY <2>1 DEF Fine
      <3> QED BY <3>2, <3>3, <3>4
    <2>5. s' = s
      BY <1>1 DEF s
    <2>6. Fine(s)'
      BY <1>1, <1>3, <1>4, <2>1, <2>3, <2>4, <2>5 DEF Fine, Midway
    <2> QED BY <2>6 DEF s
  <1>8. TabsInv'
    BY <1>1, <1>7 DEF IInv, TabsInv, Deploying
  <1> QED BY <1>5, <1>6, <1>8 DEF IInv

-----------------------------------------------------------------------------
(* Deployment. *)

\* A deployment begins from what is saved, with no other under way.
LEMMA BeginKeeps == ASSUME IInv, NEW t \in Tabs, Begin(t) PROVE IInv'
  <1>1. PICK c \in Configs, again \in BOOLEAN :
          /\ c = Current.config
          /\ tab' = [tab EXCEPT ![t] =
               [Idle EXCEPT !.at = IF Current.record = NoRecord THEN "build" ELSE "reconcile",
                            !.config = c, !.again = again, !.record = Current.record]]
    BY DEF Begin
  <1> DEFINE r == Current.record
             s == [Idle EXCEPT !.at = IF r = NoRecord THEN "build" ELSE "reconcile",
                               !.config = c, !.again = again, !.record = r]
  <1>2. /\ Current # NoDraft /\ r.status # "confirmed" /\ ~Locked
        /\ UNCHANGED <<chain, drawn, storage>>
    BY DEF Begin
  <1>3. r \in Records /\ Current \in Drafts
    BY DEF Current, IInv, StorageInv, Drafts
  <1>4. /\ s.at = (IF r = NoRecord THEN "build" ELSE "reconcile")
        /\ s.config = c /\ s.record = r
    BY DEF Idle
  <1>5. s \in TabStates
    <2>1. (IF r = NoRecord THEN "build" ELSE "reconcile") \in Steps
      BY DEF Steps
    <2> QED BY <1>3, <2>1, FreshTab
  <1>6. Alone(t)
    BY <1>2 DEF Locked, Alone, Deploying
  <1>7. r # NoRecord => Known(s) /\ r.status # "none"
    <2> SUFFICES ASSUME r # NoRecord PROVE Known(s) /\ r.status # "none"
      OBVIOUS
    <2>1. Current = snapshot /\ snapshot # NoDraft
      BY CurrentIs
    <2>2. snapshot = [config |-> Current.config, record |-> r]
      BY <1>3, <2>1 DEF Drafts
    <2> QED BY <1>1, <1>4, <2>1, <2>2 DEF Known, IInv, StorageInv, Fits
  <1>8. r = NoRecord => snapshot = NoDraft /\ r.hash = 0
    <2>1. r = NoRecord => r.status = "none" /\ r.hash = 0
      BY DEF NoRecord
    <2>2. snapshot # NoDraft => Current = snapshot /\ snapshot.record.status # "none"
      BY DEF Current, IInv, StorageInv, Fits
    <2> QED BY <2>1, <2>2
  <1> HIDE DEF r, s
  <1>9. Fine(s)
    BY <1>1, <1>2, <1>4, <1>7, <1>8 DEF Fine, Midway
  <1>10. tab' = [tab EXCEPT ![t] = s]
    BY <1>1 DEF s, r
  <1> QED BY <1>2, <1>5, <1>6, <1>9, <1>10, TabMoves

\* A tab goes on to a step that suits what it remembers.
LEMMA GoesKeeps ==
    ASSUME IInv, NEW t \in Tabs, Deploying(t), NEW step \in Steps, Goes(t, step),
           UNCHANGED <<chain, drawn>>, step # "idle" => Fine([tab[t] EXCEPT !.at = step])
    PROVE  IInv'
  <1>1. UNCHANGED <<chain, drawn, storage>>
    BY DEF Goes
  <1>2. tab \in [Tabs -> TabStates] /\ tab[t] \in TabStates /\ Alone(t)
    BY DeployingTab DEF IInv, TabsInv
  <1>3. CASE step = "idle"
    BY <1>1, <1>3, TabStops DEF Goes
  <1>4. CASE step # "idle"
    <2>1. [tab[t] EXCEPT !.at = step] \in TabStates
      BY <1>2 DEF TabStates
    <2>2. tab' = [tab EXCEPT ![t] = [tab[t] EXCEPT !.at = step]]
      BY <1>2, <1>4 DEF Goes
    <2> QED BY <1>1, <1>2, <1>4, <2>1, <2>2, TabMoves
  <1> QED BY <1>3, <1>4

\* A deployment ends as confirmed only when its nonce was created.
LEMMA FinishKeeps ==
    ASSUME IInv, NEW t \in Tabs, Deploying(t), Known(tab[t]) \/ Current = NoDraft,
           Known(tab[t]) => tab[t].record.nonce \in Created, Finish(t), UNCHANGED <<chain, drawn>>
    PROVE  IInv'
  <1>1. "confirmed" \in Statuses \ {"none"}
    BY DEF Statuses
  <1> QED BY <1>1, StatusSaved DEF Finish

\* A DAO on the Manager is one that was created.
LEMMA FoundIsCreated ==
    ASSUME IInv, NEW t \in Tabs, Found(t)
    PROVE  tab[t].record.nonce \in Created
  BY DEF Found, IInv, ChainInv

\* The fields of a tab that goes on.
LEMMA GoesFields ==
    ASSUME IInv, NEW t \in Tabs, NEW step
    PROVE  LET s == [tab[t] EXCEPT !.at = step] IN
           /\ s.at = step /\ s.config = tab[t].config /\ s.record = tab[t].record /\ s.seq = tab[t].seq
           /\ Known(s) <=> Known(tab[t])
  <1>1. tab[t] \in TabStates
    BY DEF IInv, TabsInv
  <1> QED BY <1>1 DEF TabStates, Known

\* The Manager is asked before anything else.
LEMMA ReconcileKeeps == ASSUME IInv, NEW t \in Tabs, Reconcile(t) PROVE IInv'
  <1>1. tab[t].at = "reconcile" /\ UNCHANGED <<chain, drawn>>
    BY DEF Reconcile
  <1>2. Deploying(t) /\ Fine(tab[t])
    BY <1>1, DeployingTab DEF Deploying
  <1>3. Known(tab[t]) \/ (Current = NoDraft /\ tab[t].record.status = "failed")
    BY <1>1, <1>2 DEF Fine
  <1>4. CASE Found(t) /\ Finish(t)
    BY <1>1, <1>2, <1>3, <1>4, FoundIsCreated, FinishKeeps
  <1>5. CASE Goes(t, IF tab[t].record.hash # 0 THEN "inspect" ELSE "build")
    <2> DEFINE step == IF tab[t].record.hash # 0 THEN "inspect" ELSE "build"
               s == [tab[t] EXCEPT !.at = step]
    <2>1. /\ s.at = step /\ s.config = tab[t].config /\ s.record = tab[t].record
          /\ Known(s) <=> Known(tab[t])
      BY GoesFields
    <2>2. step \in Steps
      BY DEF Steps
    <2> HIDE DEF s
    <2>3. Fine(s)
      BY <1>1, <1>2, <1>3, <2>1 DEF Fine, Midway
    <2> QED BY <1>1, <1>2, <1>5, <2>2, <2>3, GoesKeeps DEF s
  <1> QED BY <1>4, <1>5 DEF Reconcile

\* What the ledger says of the envelope a record names.
LEMMA OutcomeIs ==
    ASSUME IInv, NEW t \in Tabs, Deploying(t), Known(tab[t]), tab[t].record.hash # 0
    PROVE  LET r == tab[t].record  n == Len(envelopes) IN
           /\ r.hash = n /\ n \in DOMAIN envelopes
           /\ Outcome(r) = "succeeded" => r.nonce \in Created
           /\ Outcome(r) = "failed" => envelopes[n].state = "failed"
           /\ Outcome(r) = "expired" => envelopes[n].late
           /\ Outcome(r) \in {"succeeded", "failed", "expired", "pending"}
  <1> DEFINE r == tab[t].record
             n == Len(envelopes)
  <1>1. Fits(snapshot) /\ snapshot.record = r
    BY DeployingTab
  <1>2. r.hash = n
    BY <1>1 DEF Fits
  <1>3. n \in DOMAIN envelopes
    BY <1>2, EnvelopeTypes
  <1>4. envelopes[n].nonce = r.nonce
    BY <1>1, <1>3 DEF Fits
  <1>5. envelopes[n].state = "succeeded" => r.nonce \in Created
    BY <1>3, <1>4, CreatedBy
  <1> HIDE DEF n, r
  <1> QED BY <1>2, <1>3, <1>5 DEF Outcome, n, r

\* What the ledger says of the envelope decides how the attempt goes on.
LEMMA InspectKeeps == ASSUME IInv, NEW t \in Tabs, Inspect(t) PROVE IInv'
  <1> DEFINE r == tab[t].record
             out == Outcome(r)
  <1>1. tab[t].at = "inspect" /\ UNCHANGED <<chain, drawn>>
    BY DEF Inspect
  <1>2. Deploying(t) /\ Fine(tab[t]) /\ r \in Records
    BY <1>1, DeployingTab DEF Deploying
  <1>3. Known(tab[t]) \/ (Current = NoDraft /\ r.status = "failed")
    BY <1>1, <1>2 DEF Fine
  <1>4. r.hash # 0 /\ r.status \notin {"none", "confirmed"}
    BY <1>1, <1>2 DEF Fine
  <1>5. Known(tab[t]) =>
           /\ r.hash = Len(envelopes)
           /\ out = "succeeded" => r.nonce \in Created
           /\ out = "failed" => envelopes[Len(envelopes)].state = "failed"
           /\ out = "expired" => envelopes[Len(envelopes)].late
    BY <1>2, <1>4, OutcomeIs
  <1>6. \A step : LET s == [tab[t] EXCEPT !.at = step] IN
           /\ s.at = step /\ s.config = tab[t].config /\ s.record = r
           /\ Known(s) <=> Known(tab[t])
    BY GoesFields
  <1>7. ~Retryable(r.status) => Known(tab[t]) /\ ~Deletable(r)
    BY <1>3, <1>4 DEF Retryable, Deletable
  <1> HIDE DEF out
  <1>8. CASE out = "succeeded" /\ Finish(t)
    BY <1>1, <1>2, <1>3, <1>5, <1>8, FinishKeeps
  <1>9. CASE out = "failed" /\ r.status # "failed" /\ Save(t, [r EXCEPT !.status = "failed"], "idle")
    <2>1. "failed" \in Statuses \ {"none"}
      BY DEF Statuses
    <2>2. Known(tab[t]) \/ Current = NoDraft
      BY <1>3
    <2>3. Known(tab[t]) => r.hash # 0 /\ envelopes[Len(envelopes)].state = "failed"
      BY <1>4, <1>5, <1>9
    <2> QED BY <1>1, <1>2, <1>9, <2>1, <2>2, <2>3, StatusSaved
  <1>10. ASSUME NEW step \in Steps, Goes(t, step),
                \/ step = "idle"
                \/ step = "expire" /\ out = "expired" /\ ~Retryable(r.status)
                \/ step \in {"resend", "confirm"} /\ ~Retryable(r.status)
                \/ step = "retry" /\ Retryable(r.status)
         PROVE  IInv'
    <2> DEFINE s == [tab[t] EXCEPT !.at = step]
    <2>1. s.at = step /\ s.config = tab[t].config /\ s.record = r /\ (Known(s) <=> Known(tab[t]))
      BY <1>6
    <2> HIDE DEF s
    <2>2. tab[t].config \in Configs
      BY <1>2, DeployingTab
    <2>3. CASE step = "retry"
      <3>1. Fine(s)
        BY <1>3, <1>4, <1>10, <2>1, <2>2, <2>3 DEF Fine, Midway
      <3> QED BY <1>1, <1>2, <1>10, <3>1, GoesKeeps DEF s
    <2>4. CASE step \in {"expire", "resend", "confirm"}
      <3>1. Known(tab[t]) /\ ~Deletable(r)
        BY <1>7, <1>10, <2>4
      <3>2. step = "expire" => envelopes[Len(envelopes)].late
        BY <1>5, <1>10, <3>1
      <3>3. Fine(s)
        BY <1>4, <2>1, <2>2, <2>4, <3>1, <3>2 DEF Fine, Midway
      <3> QED BY <1>1, <1>2, <1>10, <3>3, GoesKeeps DEF s
    <2>5. CASE step = "idle"
      BY <1>1, <1>2, <1>10, <2>5, GoesKeeps
    <2> QED BY <1>10, <2>3, <2>4, <2>5
  <1>11. {"idle", "expire", "resend", "confirm", "retry"} \subseteq Steps
    BY DEF Steps
  <1>12. CASE out = "expired" /\ ~Retryable(r.status) /\ Goes(t, "expire")
    BY <1>10, <1>11, <1>12
  <1>13. CASE out = "pending" /\ ~Retryable(r.status) /\ tab[t].again /\ Goes(t, "resend")
    BY <1>10, <1>11, <1>13
  <1>14. CASE out = "pending" /\ ~Retryable(r.status) /\ ~tab[t].again
              /\ Goes(t, IF r.status = "submitted" THEN "confirm" ELSE "idle")
    <2>1. CASE r.status = "submitted"
      BY <1>10, <1>11, <1>14, <2>1
    <2>2. CASE r.status # "submitted"
      BY <1>10, <1>11, <1>14, <2>2
    <2> QED BY <2>1, <2>2
  <1>15. CASE Retryable(r.status) /\ Goes(t, "retry")
    BY <1>10, <1>11, <1>15
  <1> QED BY <1>8, <1>9, <1>12, <1>13, <1>14, <1>15 DEF Inspect, out

\* An expired envelope is given up only after the Manager was asked again.
LEMMA GiveUpKeeps == ASSUME IInv, NEW t \in Tabs, GiveUp(t) PROVE IInv'
  <1>1. tab[t].at = "expire" /\ UNCHANGED <<chain, drawn>>
    BY DEF GiveUp
  <1>2. Deploying(t) /\ Fine(tab[t])
    BY <1>1, DeployingTab DEF Deploying
  <1>3. /\ Known(tab[t]) /\ tab[t].record.hash # 0 /\ envelopes[Len(envelopes)].late
    BY <1>1, <1>2 DEF Fine, Midway
  <1>4. "expired" \in Statuses \ {"none"}
    BY DEF Statuses
  <1>5. CASE Found(t) /\ Finish(t)
    BY <1>1, <1>2, <1>3, <1>5, FoundIsCreated, FinishKeeps
  <1>6. CASE Save(t, [tab[t].record EXCEPT !.status = "expired"], "idle")
    BY <1>1, <1>2, <1>3, <1>4, <1>6, StatusSaved
  <1> QED BY <1>5, <1>6 DEF GiveUp

\* The saved bytes are sent again, or a new envelope built, only if the Manager holds no such DAO.
LEMMA AskAgainKeeps == ASSUME IInv, NEW t \in Tabs, AskAgain(t) PROVE IInv'
  <1>1. tab[t].at \in {"resend", "retry"} /\ UNCHANGED <<chain, drawn>>
    BY DEF AskAgain
  <1>2. Deploying(t) /\ Fine(tab[t]) /\ tab[t].config \in Configs
    BY <1>1, DeployingTab DEF Deploying
  <1>3. Known(tab[t]) \/ Current = NoDraft
    BY <1>1, <1>2 DEF Fine, Midway
  <1>4. CASE Found(t) /\ Finish(t)
    BY <1>1, <1>2, <1>3, <1>4, FoundIsCreated, FinishKeeps
  <1>5. CASE Goes(t, IF tab[t].at = "resend" THEN "send" ELSE "build")
    <2> DEFINE step == IF tab[t].at = "resend" THEN "send" ELSE "build"
               s == [tab[t] EXCEPT !.at = step]
    <2>1. /\ s.at = step /\ s.config = tab[t].config /\ s.record = tab[t].record
          /\ Known(s) <=> Known(tab[t])
      BY GoesFields
    <2>2. step \in Steps
      BY DEF Steps
    <2> HIDE DEF s
    <2>3. Fine(s)
      BY <1>1, <1>2, <1>3, <2>1 DEF Fine, Midway
    <2> QED BY <1>1, <1>2, <1>5, <2>2, <2>3, GoesKeeps DEF s
  <1> QED BY <1>4, <1>5 DEF AskAgain

\* Nothing is signed for a DAO that exists.
LEMMA SimulateKeeps == ASSUME IInv, NEW t \in Tabs, Simulate(t) PROVE IInv'
  <1>1. tab[t].at = "simulate" /\ UNCHANGED <<chain, drawn, storage>>
    BY DEF Simulate
  <1>2. Deploying(t) /\ Fine(tab[t]) /\ tab[t].config \in Configs /\ tab[t] \in TabStates /\ Alone(t)
    BY <1>1, DeployingTab DEF Deploying
  <1>3. tab \in [Tabs -> TabStates]
    BY DEF IInv, TabsInv
  <1>4. CASE tab[t].record.nonce \in Created
    <2>1. tab' = [tab EXCEPT ![t] = Idle]
      BY <1>3, <1>4 DEF Simulate
    <2> QED BY <1>1, <2>1, TabStops
  <1>5. CASE tab[t].record.nonce \notin Created
    <2> DEFINE s == [tab[t] EXCEPT !.at = "sign", !.seq = sequence]
    <2>1. tab' = [tab EXCEPT ![t] = s]
      BY <1>3, <1>5 DEF Simulate
    <2>2. sequence \in 1 .. MaxSeq /\ MaxSeq \in Nat
      BY CreationAssumption DEF IInv, ChainInv
    <2>3. s \in TabStates
      <3>1. \A x \in TabStates :
              [x EXCEPT !.at = "sign"] \in TabStates /\ [x EXCEPT !.seq = sequence] \in TabStates
        BY <2>2 DEF TabStates, Steps
      <3> HIDE DEF TabStates
      <3> QED BY <1>2, <3>1
    <2>4. /\ s.at = "sign" /\ s.config = tab[t].config /\ s.record = tab[t].record
          /\ s.seq = sequence
      BY <1>2 DEF TabStates
    <2>5. Known(tab[t])
      BY <1>1, <1>2 DEF Fine, Midway
    <2>6. Created = {}
      <3>1. Fits(snapshot) /\ snapshot.record = tab[t].record
        BY <1>2, <2>5, DeployingTab
      <3> QED BY <1>5, <3>1, CreatedBy DEF Fits
    <2>7. \A i \in DOMAIN envelopes : envelopes[i].seq <= sequence
      BY DEF IInv, ChainInv
    <2> HIDE DEF s
    <2>8. Fine(s)
      BY <1>1, <1>2, <2>2, <2>4, <2>5, <2>6, <2>7 DEF Fine, Midway, Known
    <2> QED BY <1>1, <1>2, <2>1, <2>3, <2>8, TabMoves
  <1> QED BY <1>4, <1>5

\* The user declines to sign.
LEMMA DeclineKeeps == ASSUME IInv, NEW t \in Tabs, Decline(t) PROVE IInv'
  <1>1. tab' = [tab EXCEPT ![t] = Idle] /\ UNCHANGED <<chain, drawn, storage>>
    BY DEF Decline, Goes
  <1> QED BY <1>1, TabStops

\* A tab may stop anywhere.
LEMMA StopKeeps == ASSUME IInv, NEW t \in Tabs, Stop(t) PROVE IInv'
  BY TabStops DEF Stop

\* What the confirmation reads is recorded.
LEMMA ConfirmKeeps == ASSUME IInv, NEW t \in Tabs, Confirm(t) PROVE IInv'
  <1> DEFINE r == tab[t].record
  <1>1. tab[t].at = "confirm" /\ UNCHANGED <<chain, drawn>>
    BY DEF Confirm
  <1>2. Deploying(t) /\ Fine(tab[t])
    BY <1>1, DeployingTab DEF Deploying
  <1>3. Known(tab[t]) /\ r.hash # 0
    BY <1>1, <1>2 DEF Fine, Midway
  <1>4. /\ Outcome(r) = "succeeded" => r.nonce \in Created
        /\ Outcome(r) = "failed" => envelopes[Len(envelopes)].state = "failed"
    BY <1>2, <1>3, OutcomeIs
  <1>5. CASE Outcome(r) = "succeeded" /\ Finish(t)
    BY <1>1, <1>2, <1>3, <1>4, <1>5, FinishKeeps
  <1>6. CASE Outcome(r) = "failed" /\ Save(t, [r EXCEPT !.status = "failed"], "idle")
    <2>1. "failed" \in Statuses \ {"none"}
      BY DEF Statuses
    <2> QED BY <1>1, <1>2, <1>3, <1>4, <1>6, <2>1, StatusSaved
  <1>7. CASE Goes(t, "idle")
    <2>1. tab' = [tab EXCEPT ![t] = Idle] /\ UNCHANGED <<chain, drawn, storage>>
      BY <1>1, <1>7 DEF Goes
    <2> QED BY <2>1, TabStops
  <1> QED BY <1>5, <1>6, <1>7 DEF Confirm

\* A tab that saved goes on with what it saved.
LEMMA SavedFields ==
    ASSUME NEW x \in TabStates, NEW next \in Steps, NEW r \in Records
    PROVE  /\ Saved(x, next, r) \in TabStates
           /\ Saved(x, next, r).at = next
           /\ Saved(x, next, r).config = x.config
           /\ Saved(x, next, r).record = r
  <1>1. [x EXCEPT !.at = next] \in TabStates
    BY DEF TabStates
  <1>2. \A y \in TabStates : [y EXCEPT !.record = r] \in TabStates
    BY DEF TabStates
  <1>3. Saved(x, next, r) \in TabStates
    <2> HIDE DEF TabStates
    <2> QED BY <1>1, <1>2 DEF Saved
  <1> QED BY <1>3 DEF TabStates, Saved

\* A nonce is drawn only if nothing was signed; a new attempt of the same draft keeps its nonce,
\* and leaves no envelope that was accepted and can land.
LEMMA BuildKeeps == ASSUME IInv, NEW t \in Tabs, Build(t) PROVE IInv'
  <1> DEFINE o == tab[t].record
             c == tab[t].config
             m == Nonce(o)
             r == [NoRecord EXCEPT !.nonce = m, !.predicted = o.predicted, !.status = "prepared"]
             s == Saved(tab[t], "predict", r)
  <1>1. /\ tab[t].at = "build" /\ m <= MaxNonces /\ drawn' = (IF m > drawn THEN m ELSE drawn)
        /\ Save(t, r, "predict")
        /\ sequence' = sequence /\ envelopes' = envelopes /\ pending' = pending
    BY DEF Build, chain
  <1>2. Deploying(t) /\ Fine(tab[t]) /\ c \in Configs /\ o \in Records /\ tab[t] \in TabStates
        /\ Alone(t)
    BY <1>1, DeployingTab DEF Deploying
  <1>3. Created' = Created
    BY <1>1 DEF Created
  <1>4. drawn \in Nat /\ MaxNonces \in Nat /\ drawn <= MaxNonces
    BY CreationAssumption DEF IInv, ChainInv
  <1>5. m \in Nat
    BY <1>2, <1>4 DEF Nonce, Records
  <1>6. drawn' \in 0 .. MaxNonces /\ drawn' >= drawn /\ m <= drawn'
    BY <1>1, <1>4, <1>5
  <1>7. ChainInv'
    <2>1. \A i \in DOMAIN envelopes : envelopes[i].nonce <= drawn'
      BY <1>4, <1>6, EnvelopeTypes
    <2> QED BY <1>1, <1>3, <1>6, <2>1 DEF IInv, ChainInv
  <1>8. r \in Records /\ r.nonce = m /\ r.predicted = o.predicted /\ r.status = "prepared"
        /\ r.hash = 0 /\ ~r.accepted
    <2>1. m \in 0 .. MaxNonces /\ o.predicted \in BOOLEAN
      BY <1>1, <1>2, <1>4, <1>5 DEF Records
    <2>2. 0 \in 0 .. MaxSigned
      BY CreationAssumption
    <2> QED BY <2>1, <2>2 DEF Records, NoRecord, Statuses
  <1>9. s \in TabStates /\ s.at = "predict" /\ s.config = c /\ s.record = r
    <2>1. "predict" \in Steps
      BY DEF Steps
    <2> HIDE DEF r
    <2> QED BY <1>2, <1>8, <2>1, SavedFields
  <1>10. tab \in [Tabs -> TabStates]
    BY DEF IInv, TabsInv
  <1> HIDE DEF r, s, m
  <1>11. CASE Current = NoDraft
    <2>1. tab' = [tab EXCEPT ![t] = Idle] /\ kept' = kept /\ snapshot' = snapshot
      BY <1>1, <1>11, SaveRefused DEF storage
    <2>2. snapshot = NoDraft
      BY <1>11 DEF Current
    <2>3. StorageInv'
      BY <1>1, <2>1, <2>2 DEF IInv, StorageInv, Landable
    <2>4. Idle \in TabStates
      BY CreationAssumption DEF Idle, TabStates, Steps, Records, NoRecord, Statuses
    <2>5. \A u \in Tabs : tab'[u] = IF u = t THEN Idle ELSE tab[u]
      BY <1>10, <2>1
    <2>6. ASSUME NEW u \in Tabs PROVE Fine(tab[u])'
      <3>1. CASE u = t
        <4>1. tab'[u].at = "idle"
          BY <2>5, <3>1 DEF Idle
        <4> QED BY <4>1 DEF Fine, Midway
      <3>2. CASE u # t
        <4>1. tab'[u] = tab[u] /\ Fine(tab[u])
          BY <2>5, <3>2 DEF IInv, TabsInv
        <4> QED BY <1>1, <1>3, <2>1, <4>1 DEF Fine, Known, Current
      <3> QED BY <3>1, <3>2
    <2>7. tab' \in [Tabs -> TabStates]
      BY <1>10, <2>1, <2>4
    <2>8. \A u, v \in Tabs : Deploying(u)' /\ Deploying(v)' => u = v
      BY <1>2, <2>5 DEF Deploying, Alone, Idle
    <2> QED BY <1>7, <2>3, <2>6, <2>7, <2>8 DEF IInv, TabsInv
  <1>12. ASSUME snapshot' = [config |-> c, record |-> r], kept' = snapshot',
                tab' = [tab EXCEPT ![t] = s],
                m >= 1,
                \A i \in DOMAIN envelopes :
                   /\ envelopes[i].nonce = m /\ envelopes[i].config = c /\ o.predicted
                   /\ ~(envelopes[i].accepted /\ Landable(envelopes[i]))
         PROVE  IInv'
    <2>1. snapshot'.config = c /\ snapshot'.record = r
      BY <1>12
    <2>2. r.nonce \in 1 .. drawn'
      BY <1>5, <1>6, <1>8, <1>12
    <2>3. \A i \in DOMAIN envelopes : Landable(envelopes[i])' <=> Landable(envelopes[i])
      BY <1>1 DEF Landable
    <2>4. Fits(snapshot)'
      BY <1>1, <1>2, <1>8, <1>12, <2>1, <2>2, <2>3 DEF Fits
    <2>5. ~Deletable(r)
      BY <1>8 DEF Deletable
    <2> QED BY <1>2, <1>7, <1>8, <1>9, <1>12, <2>4, <2>5, DraftSaved
  <1>13. CASE Known(tab[t])
    <2> DEFINE n == Len(envelopes)
    <2>1. Fits(snapshot) /\ snapshot.config = c /\ snapshot.record = o
      BY <1>2, <1>13, DeployingTab
    <2>2. o.nonce >= 1 /\ o # NoRecord
      BY <2>1 DEF Fits, NoRecord
    <2>3. m = o.nonce
      BY <2>2 DEF m, Nonce
    <2>4. /\ snapshot' = [config |-> c, record |-> r] /\ kept' = snapshot'
          /\ tab' = [tab EXCEPT ![t] = s]
      <3>1. r.nonce = tab[t].record.nonce
        BY <1>8, <2>3
      <3>2. /\ snapshot' = [config |-> c, record |-> r] /\ kept' = [config |-> c, record |-> r]
            /\ tab' = [tab EXCEPT ![t] = Saved(tab[t], "predict", r)]
        <4> HIDE DEF m
        <4> QED BY <1>1, <1>2, <1>8, <1>13, <3>1, SaveTaken
      <3> QED BY <3>2 DEF s
    <2>5. ASSUME NEW i \in DOMAIN envelopes
          PROVE  /\ envelopes[i].nonce = m /\ envelopes[i].config = c /\ o.predicted
                 /\ ~(envelopes[i].accepted /\ Landable(envelopes[i]))
      <3>1. envelopes[i].nonce = m /\ envelopes[i].config = c /\ o.predicted
        BY <2>1, <2>3 DEF Fits
      <3>2. SUFFICES ASSUME envelopes[i].accepted, Landable(envelopes[i]) PROVE FALSE
        BY <3>1
      <3>3. i = n /\ o.hash = n
        BY <2>1, <3>2 DEF Fits
      <3>4. o.hash # 0
        BY <3>3, EnvelopeTypes
      <3>5. o.status \in {"failed", "rejected", "expired"}
        BY <1>1, <1>2, <3>4 DEF Fine, Retryable
      <3> QED BY <2>1, <3>2, <3>3, <3>4, <3>5 DEF Fits, Landable
    <2> QED BY <1>12, <2>2, <2>3, <2>4, <2>5
  <1>14. CASE Current # NoDraft /\ o = NoRecord /\ snapshot = NoDraft
    <2>1. m = drawn + 1
      BY <1>14 DEF m, Nonce
    <2>2. Current.record = NoRecord /\ \A i \in DOMAIN envelopes : FALSE
      BY <1>14 DEF Current, IInv, StorageInv
    <2>3. Recordable(c, r)
      BY <1>14, <2>2 DEF Recordable
    <2>4. /\ snapshot' = [config |-> c, record |-> r] /\ kept' = snapshot'
          /\ tab' = [tab EXCEPT ![t] = s]
      BY <1>1, <1>10, <2>3 DEF Save, s, Saved
    <2> QED BY <1>4, <1>12, <2>1, <2>2, <2>4
  <1> QED
    <2>1. Current = NoDraft \/ Known(tab[t]) \/ (o = NoRecord /\ snapshot = NoDraft)
      BY <1>1, <1>2 DEF Fine
    <2> QED BY <1>11, <1>13, <1>14, <2>1

\* The addresses are predicted, once the nonce is saved.
LEMMA PredictKeeps == ASSUME IInv, NEW t \in Tabs, Predict(t) PROVE IInv'
  <1> DEFINE o == tab[t].record
             c == tab[t].config
             r == [o EXCEPT !.predicted = TRUE]
             s == Saved(tab[t], "simulate", r)
  <1>1. /\ tab[t].at = "predict" /\ Save(t, r, "simulate")
        /\ sequence' = sequence /\ envelopes' = envelopes /\ pending' = pending /\ drawn' = drawn
    BY DEF Predict, chain
  <1>2. Deploying(t) /\ Fine(tab[t]) /\ c \in Configs /\ o \in Records /\ tab[t] \in TabStates
        /\ Alone(t)
    BY <1>1, DeployingTab DEF Deploying
  <1>3. Known(tab[t]) /\ ~Deletable(o) /\ o.hash = 0
    BY <1>1, <1>2 DEF Fine, Midway
  <1>4. Fits(snapshot) /\ snapshot.config = c /\ snapshot.record = o
    BY <1>2, <1>3, DeployingTab
  <1>5. /\ r \in Records /\ r.nonce = o.nonce /\ r.predicted /\ r.status = o.status /\ r.hash = o.hash
        /\ r.accepted = o.accepted
    BY <1>2 DEF Records
  <1>6. s \in TabStates /\ s.at = "simulate" /\ s.config = c /\ s.record = r
    <2>1. "simulate" \in Steps
      BY DEF Steps
    <2> HIDE DEF r
    <2> QED BY <1>2, <1>5, <2>1, SavedFields
  <1> HIDE DEF r
  <1>7. /\ snapshot' = [config |-> c, record |-> r] /\ kept' = snapshot' /\ tab' = [tab EXCEPT ![t] = s]
    <2>1. /\ snapshot' = [config |-> c, record |-> r] /\ kept' = [config |-> c, record |-> r]
          /\ tab' = [tab EXCEPT ![t] = Saved(tab[t], "simulate", r)]
      BY <1>1, <1>2, <1>3, <1>5, SaveTaken
    <2> QED BY <2>1
  <1> HIDE DEF s
  <1>8. ChainInv'
    BY <1>1 DEF IInv, ChainInv, Created
  <1>9. Fits(snapshot)'
    <2>1. snapshot'.config = c /\ snapshot'.record = r
      BY <1>7
    <2> QED BY <1>1, <1>2, <1>4, <1>5, <2>1 DEF Fits, Landable, Created
  <1>10. ~Deletable(r) /\ r.hash = 0
    BY <1>3, <1>5 DEF Deletable
  <1> QED BY <1>2, <1>5, <1>6, <1>7, <1>8, <1>9, <1>10, DraftSaved

\* The RPC takes a held envelope of the account's sequence number, or changes nothing.
LEMMA SendKeeps == ASSUME IInv, NEW t \in Tabs, Send(t) PROVE IInv'
  <1> DEFINE c == tab[t].config
             r == tab[t].record
             n == Len(envelopes)
             e == envelopes[n]
             s(a) == [tab[t] EXCEPT !.at = "answer", !.answer = a]
  <1>1. /\ tab[t].at = "send" /\ sequence' = sequence /\ pending' = pending /\ drawn' = drawn
        /\ kept' = kept /\ snapshot' = snapshot
    BY DEF Send, storage
  <1>2. Deploying(t) /\ Fine(tab[t]) /\ c \in Configs /\ r \in Records /\ tab[t] \in TabStates
        /\ Alone(t)
    BY <1>1, DeployingTab DEF Deploying
  <1>3. Known(tab[t]) /\ ~Deletable(r) /\ r.hash # 0
    BY <1>1, <1>2 DEF Fine, Midway
  <1>4. Fits(snapshot) /\ snapshot = [config |-> c, record |-> r] /\ snapshot.config = c
        /\ snapshot.record = r
    BY <1>2, <1>3, DeployingTab DEF Known
  <1>5. r.hash = n /\ n \in DOMAIN envelopes
    BY <1>2, <1>3, OutcomeIs
  <1>6. tab \in [Tabs -> TabStates]
    BY DEF IInv, TabsInv
  <1>7. PICK a \in {"accepted", "unknown", "error"} :
          /\ tab' = [tab EXCEPT ![t].at = "answer", ![t].answer = a]
          /\ \/ envelopes' = envelopes
             \/ /\ envelopes' = [envelopes EXCEPT ![n].state = "sent"]
                /\ e.state = "held" /\ ~e.late /\ e.seq = sequence
    BY <1>5 DEF Send
  <1>8. /\ s(a) \in TabStates /\ s(a).at = "answer" /\ s(a).config = c /\ s(a).record = r
    <2>1. "answer" \in Steps
      BY DEF Steps
    <2>2. \A x \in TabStates : [x EXCEPT !.at = "answer"] \in TabStates /\ [x EXCEPT !.answer = a] \in TabStates
      BY <2>1 DEF TabStates
    <2>3. s(a) \in TabStates
      <3> HIDE DEF TabStates
      <3> QED BY <1>2, <2>2
    <2> QED BY <1>2, <2>3 DEF TabStates
  <1>9. tab' = [tab EXCEPT ![t] = s(a)]
    BY <1>6, <1>7
  <1> HIDE DEF s
  <1>10. ASSUME ChainInv', Fits(snapshot)' PROVE IInv'
    BY <1>1, <1>2, <1>3, <1>4, <1>8, <1>9, <1>10, DraftSaved
  <1>11. CASE envelopes' = envelopes
    <2>1. ChainInv'
      BY <1>1, <1>11 DEF IInv, ChainInv, Created
    <2>2. Fits(snapshot)'
      BY <1>1, <1>4, <1>11 DEF Fits, Landable, Created
    <2> QED BY <1>10, <2>1, <2>2
  <1>12. CASE /\ envelopes' = [envelopes EXCEPT ![n].state = "sent"]
              /\ e.state = "held" /\ ~e.late /\ e.seq = sequence
    <2> DEFINE f == [e EXCEPT !.state = "sent"]
    <2>1. /\ f \in Envelopes /\ f.seq = e.seq /\ f.nonce = e.nonce /\ f.config = e.config
          /\ f.late = e.late /\ f.accepted = e.accepted /\ f.state = "sent"
      <3>1. e \in Envelopes
        BY <1>5, EnvelopeTypes
      <3> HIDE DEF e
      <3> QED BY <3>1 DEF Envelopes
    <2>2. envelopes' = [envelopes EXCEPT ![n] = f]
      BY <1>12
    <2> HIDE DEF f
    <2>3. /\ DOMAIN envelopes' = DOMAIN envelopes /\ Len(envelopes') = n /\ envelopes' \in Seq(Envelopes)
          /\ \A j \in DOMAIN envelopes : envelopes'[j] = IF j = n THEN f ELSE envelopes[j]
      BY <1>5, <2>1, <2>2, EnvelopeChanges
    <2>4. \A j \in DOMAIN envelopes :
            /\ envelopes'[j].seq = envelopes[j].seq /\ envelopes'[j].nonce = envelopes[j].nonce
            /\ envelopes'[j].config = envelopes[j].config /\ envelopes'[j].late = envelopes[j].late
            /\ envelopes'[j].accepted = envelopes[j].accepted
            /\ envelopes'[j].state = (IF j = n THEN "sent" ELSE envelopes[j].state)
      BY <2>1, <2>3
    <2>5. \A x : x \in Created' <=> x \in Created
      BY <1>12, <2>3, <2>4, CreatedBy, CreatedThen
    <2>6. Created' = Created
      BY <2>5
    <2>7. \A j \in DOMAIN envelopes : j # n => (Landable(envelopes[j])' <=> Landable(envelopes[j]))
      BY <1>1, <2>4 DEF Landable
    <2> HIDE DEF e
    <2>8. ChainInv'
      BY <1>1, <1>5, <2>3, <2>4, <2>6 DEF IInv, ChainInv
    <2>9. Fits(snapshot)'
      <3>1. \A i \in DOMAIN envelopes :
              /\ envelopes'[i].nonce = r.nonce /\ envelopes'[i].config = c /\ r.predicted
              /\ envelopes'[i].accepted /\ Landable(envelopes[i])' => i = n /\ r.hash = n
        BY <1>4, <1>5, <2>4, <2>7 DEF Fits
      <3>2. /\ c \in Configs /\ r \in Records /\ r.nonce \in 1 .. drawn /\ r.status # "none"
        BY <1>4 DEF Fits
      <3>3. /\ r.accepted = envelopes'[n].accepted
            /\ r.status = "rejected" => r.hash # 0 /\ ~r.accepted
            /\ r.status = "expired" => r.hash # 0 /\ envelopes'[n].late
            /\ r.status # "failed"
            /\ r.status = "confirmed" => r.nonce \in Created
        BY <1>3, <1>4, <1>5, <2>4 DEF Fits, Deletable
      <3> QED BY <1>1, <1>4, <1>5, <2>3, <2>6, <3>1, <3>2, <3>3 DEF Fits
    <2> QED BY <1>10, <2>8, <2>9
  <1> QED BY <1>7, <1>11, <1>12

\* What the RPC answered is recorded; a refusal only of an envelope no node has accepted.
LEMMA AnswerKeeps == ASSUME IInv, NEW t \in Tabs, Answer(t) PROVE IInv'
  <1> DEFINE c == tab[t].config
             o == tab[t].record
             n == Len(envelopes)
             e == envelopes[n]
             r == [o EXCEPT !.status = "submitted", !.accepted = TRUE]
             s == Saved(tab[t], "confirm", r)
  <1>1. /\ tab[t].at = "answer" /\ sequence' = sequence /\ pending' = pending /\ drawn' = drawn
    BY DEF Answer
  <1>2. Deploying(t) /\ Fine(tab[t]) /\ c \in Configs /\ o \in Records /\ tab[t] \in TabStates
        /\ Alone(t)
    BY <1>1, DeployingTab DEF Deploying
  <1>3. Known(tab[t]) /\ ~Deletable(o) /\ o.hash # 0
    BY <1>1, <1>2 DEF Fine, Midway
  <1>4. o.hash = n /\ n \in DOMAIN envelopes
    BY <1>2, <1>3, OutcomeIs
  <1>5. Fits(snapshot) /\ snapshot.config = c /\ snapshot.record = o
    BY <1>2, <1>3, DeployingTab
  <1>6. CASE /\ Save(t, r, "confirm")
             /\ envelopes' = [envelopes EXCEPT ![o.hash].accepted = snapshot'.record.accepted]
    <2>1. /\ r \in Records /\ r.nonce = o.nonce /\ r.predicted = o.predicted /\ r.hash = o.hash
          /\ r.status = "submitted" /\ r.accepted = TRUE
      BY <1>2 DEF Records, Statuses
    <2>2. s \in TabStates /\ s.at = "confirm" /\ s.config = c /\ s.record = r
      <3>1. "confirm" \in Steps
        BY DEF Steps
      <3> HIDE DEF r
      <3> QED BY <1>2, <2>1, <3>1, SavedFields
    <2> HIDE DEF r
    <2>3. /\ snapshot' = [config |-> c, record |-> r] /\ kept' = snapshot'
          /\ tab' = [tab EXCEPT ![t] = s]
      <3>1. /\ snapshot' = [config |-> c, record |-> r] /\ kept' = [config |-> c, record |-> r]
            /\ tab' = [tab EXCEPT ![t] = Saved(tab[t], "confirm", r)]
        BY <1>2, <1>3, <1>6, <2>1, SaveTaken
      <3> QED BY <3>1
    <2> HIDE DEF s
    <2> DEFINE f == [e EXCEPT !.accepted = TRUE]
    <2>4. /\ f \in Envelopes /\ f.seq = e.seq /\ f.nonce = e.nonce /\ f.config = e.config
          /\ f.late = e.late /\ f.accepted = TRUE /\ f.state = e.state
      <3>1. e \in Envelopes
        BY <1>4, EnvelopeTypes
      <3> HIDE DEF e
      <3> QED BY <3>1 DEF Envelopes
    <2>5. envelopes' = [envelopes EXCEPT ![n] = f]
      <3>1. snapshot'.record.accepted = TRUE
        BY <2>1, <2>3
      <3> QED BY <1>4, <1>6, <3>1
    <2> HIDE DEF f
    <2>6. /\ DOMAIN envelopes' = DOMAIN envelopes /\ Len(envelopes') = n /\ envelopes' \in Seq(Envelopes)
          /\ \A j \in DOMAIN envelopes : envelopes'[j] = IF j = n THEN f ELSE envelopes[j]
      BY <1>4, <2>4, <2>5, EnvelopeChanges
    <2>7. \A j \in DOMAIN envelopes :
            /\ envelopes'[j].seq = envelopes[j].seq /\ envelopes'[j].nonce = envelopes[j].nonce
            /\ envelopes'[j].config = envelopes[j].config /\ envelopes'[j].late = envelopes[j].late
            /\ envelopes'[j].state = envelopes[j].state
      BY <2>4, <2>6
    <2>8. /\ \A j \in DOMAIN envelopes : j # n => envelopes'[j].accepted = envelopes[j].accepted
          /\ envelopes'[n].accepted = TRUE
      BY <1>4, <2>4, <2>6
    <2>9. Created' = Created
      BY <2>6, <2>7, SameCreated
    <2>10. \A j \in DOMAIN envelopes : Landable(envelopes[j])' <=> Landable(envelopes[j])
      BY <1>1, <2>7 DEF Landable
    <2> HIDE DEF e
    <2>11. ChainInv'
      <3> HIDE DEF n
      <3>1. /\ sequence \in 1 .. MaxSeq /\ drawn \in 0 .. MaxNonces /\ n <= MaxSigned
            /\ pending \subseteq Created
            /\ Created # {} => envelopes[n].state # "failed"
        BY DEF n, IInv, ChainInv
      <3>2. \A i \in DOMAIN envelopes :
              /\ envelopes[i].nonce <= drawn /\ envelopes[i].seq <= sequence
              /\ envelopes[i].state \in {"succeeded", "failed"} => envelopes[i].seq < sequence
              /\ Created # {} => envelopes[i].seq < sequence
        BY DEF IInv, ChainInv
      <3>3. \A i, j \in DOMAIN envelopes :
              /\ envelopes[i].nonce = envelopes[j].nonce /\ envelopes[i].config = envelopes[j].config
              /\ i <= j => envelopes[i].seq <= envelopes[j].seq
        BY DEF IInv, ChainInv
      <3> QED BY <1>1, <1>4, <2>6, <2>7, <2>9, <3>1, <3>2, <3>3 DEF ChainInv
    <2>12. Fits(snapshot)'
      <3>1. \A i \in DOMAIN envelopes :
              /\ envelopes'[i].nonce = r.nonce /\ envelopes'[i].config = c /\ r.predicted
              /\ envelopes'[i].accepted /\ Landable(envelopes[i])' => i = n /\ r.hash = n
        <4>1. \A i \in DOMAIN envelopes :
                /\ envelopes[i].nonce = o.nonce /\ envelopes[i].config = c /\ o.predicted
                /\ envelopes[i].accepted /\ Landable(envelopes[i]) => i = n
          BY <1>5 DEF Fits
        <4> HIDE DEF n, c, o
        <4>2. /\ r.nonce = o.nonce /\ r.predicted = o.predicted /\ r.hash = n
          BY <1>4, <2>1
        <4> QED BY <2>7, <2>8, <2>10, <4>1, <4>2
      <3>2. r.nonce \in 1 .. drawn
        BY <1>5, <2>1 DEF Fits
      <3>3. snapshot'.config = c /\ snapshot'.record = r
        BY <2>3
      <3>4. r.accepted = envelopes'[n].accepted
        BY <2>1, <2>8
      <3> QED BY <1>1, <1>2, <1>4, <2>1, <2>6, <3>1, <3>2, <3>3, <3>4 DEF Fits
    <2>13. ~Deletable(r) /\ r.hash # 0
      BY <1>3, <2>1 DEF Deletable
    <2> QED BY <1>2, <2>1, <2>2, <2>3, <2>11, <2>12, <2>13, DraftSaved
  <1>7. CASE /\ tab[t].answer = "error" /\ Refuses(o)
             /\ Save(t, [o EXCEPT !.status = "rejected"], "idle") /\ UNCHANGED envelopes
    <2>1. "rejected" \in Statuses \ {"none"}
      BY DEF Statuses
    <2>2. ~o.accepted
      BY <1>7 DEF Refuses
    <2>3. UNCHANGED <<chain, drawn>>
      BY <1>1, <1>7 DEF chain
    <2> QED BY <1>2, <1>3, <1>7, <2>1, <2>2, <2>3, StatusSaved
  <1>8. CASE Goes(t, "idle") /\ UNCHANGED envelopes
    <2>1. tab' = [tab EXCEPT ![t] = Idle] /\ UNCHANGED <<chain, drawn, storage>>
      BY <1>1, <1>8 DEF Goes, chain
    <2> QED BY <2>1, TabStops
  <1> QED BY <1>6, <1>7, <1>8 DEF Answer

\* One more envelope is signed.
LEMMA SignAdds ==
    ASSUME IInv, NEW t \in Tabs, Sign(t)
    PROVE  LET c == tab[t].config
               o == tab[t].record
               n == Len(envelopes)
               r == [o EXCEPT !.hash = n + 1, !.status = "signed", !.accepted = FALSE] IN
           /\ tab[t].at = "sign" /\ sequence' = sequence /\ pending' = pending /\ drawn' = drawn
           /\ Len(envelopes') = n + 1 /\ n + 1 <= MaxSigned /\ n \in Nat
           /\ Save(t, r, "send")
           /\ envelopes' = Append(envelopes, [seq |-> tab[t].seq, nonce |-> o.nonce, config |-> c,
                                              state |-> "held", late |-> FALSE, accepted |-> FALSE])
  <1>1. envelopes \in Seq(Envelopes) /\ Len(envelopes) \in Nat /\ MaxSigned \in Nat
    BY CreationAssumption DEF IInv, ChainInv
  <1> QED BY <1>1 DEF Sign

\* The wallet signs only what nothing has been created by, under a record without an envelope.
LEMMA SignKeeps ==
    ASSUME IInv, NEW t \in Tabs, Sign(t)
    PROVE  IInv' /\ \A i \in DOMAIN envelopes : ~(envelopes[i].accepted /\ Landable(envelopes[i]))
  <1> DEFINE c == tab[t].config
             o == tab[t].record
             n == Len(envelopes)
             e == [seq |-> tab[t].seq, nonce |-> o.nonce, config |-> c,
                   state |-> "held", late |-> FALSE, accepted |-> FALSE]
             r == [o EXCEPT !.hash = n + 1, !.status = "signed", !.accepted = FALSE]
             s == Saved(tab[t], "send", r)
  <1>1. /\ tab[t].at = "sign" /\ sequence' = sequence /\ pending' = pending /\ drawn' = drawn
        /\ n + 1 <= MaxSigned /\ n \in Nat /\ Save(t, r, "send")
        /\ envelopes' = Append(envelopes, e)
    BY SignAdds
  <1>2. Deploying(t) /\ Fine(tab[t]) /\ c \in Configs /\ o \in Records /\ tab[t] \in TabStates
        /\ Alone(t)
    BY <1>1, DeployingTab DEF Deploying
  <1>3. Known(tab[t]) /\ ~Deletable(o) /\ o.hash = 0 /\ o.predicted
    BY <1>1, <1>2 DEF Fine, Midway
  <1>4. Fits(snapshot) /\ snapshot.config = c /\ snapshot.record = o
    BY <1>2, <1>3, DeployingTab
  <1>5. \A i \in DOMAIN envelopes :
          /\ envelopes[i].nonce = o.nonce /\ envelopes[i].config = c
          /\ ~(envelopes[i].accepted /\ Landable(envelopes[i]))
    <2> SUFFICES ASSUME NEW i \in DOMAIN envelopes
                 PROVE  /\ envelopes[i].nonce = o.nonce /\ envelopes[i].config = c
                        /\ ~(envelopes[i].accepted /\ Landable(envelopes[i]))
      OBVIOUS
    <2>1. /\ envelopes[i].nonce = o.nonce /\ envelopes[i].config = c
          /\ envelopes[i].accepted /\ Landable(envelopes[i]) => i = n /\ o.hash = n
      BY <1>4 DEF Fits
    <2>2. n # 0
      BY EnvelopeTypes
    <2> QED BY <1>3, <2>1, <2>2
  <1>6. /\ tab[t].seq \in 1 .. sequence /\ (Created # {} => tab[t].seq < sequence)
        /\ \A i \in DOMAIN envelopes : envelopes[i].seq <= tab[t].seq
    BY <1>1, <1>2 DEF Fine
  <1>7. /\ sequence \in Nat /\ sequence <= MaxSeq /\ MaxSeq \in Nat /\ envelopes \in Seq(Envelopes)
        /\ DOMAIN envelopes = 1 .. n /\ drawn \in Nat /\ drawn <= MaxNonces /\ MaxNonces \in Nat
    BY EnvelopeTypes, CreationAssumption DEF IInv, ChainInv
  <1>8. o.nonce \in 1 .. drawn /\ o.nonce \in 1 .. MaxNonces /\ tab[t].seq \in 1 .. MaxSeq
    <2>1. o.nonce \in 1 .. drawn
      BY <1>4 DEF Fits
    <2> QED BY <1>6, <1>7, <2>1
  <1>9. e \in Envelopes
    BY <1>2, <1>8 DEF Envelopes
  <1>10. /\ e.seq = tab[t].seq /\ e.nonce = o.nonce /\ e.config = c /\ e.state = "held"
         /\ ~e.late /\ e.accepted = FALSE
    OBVIOUS
  <1>11. /\ r \in Records /\ r.nonce = o.nonce /\ r.predicted = o.predicted /\ r.hash = n + 1
         /\ r.status = "signed" /\ r.accepted = FALSE
    <2>1. n + 1 \in 0 .. MaxSigned
      BY <1>1, CreationAssumption
    <2> HIDE DEF n
    <2> QED BY <1>2, <2>1 DEF Records, Statuses
  <1>12. s \in TabStates /\ s.at = "send" /\ s.config = c /\ s.record = r
    <2>1. "send" \in Steps
      BY DEF Steps
    <2> HIDE DEF r
    <2> QED BY <1>2, <1>11, <2>1, SavedFields
  <1> HIDE DEF r, e
  <1>13. /\ snapshot' = [config |-> c, record |-> r] /\ kept' = snapshot'
         /\ tab' = [tab EXCEPT ![t] = s]
    <2>1. /\ snapshot' = [config |-> c, record |-> r] /\ kept' = [config |-> c, record |-> r]
          /\ tab' = [tab EXCEPT ![t] = Saved(tab[t], "send", r)]
      BY <1>1, <1>2, <1>3, <1>11, SaveTaken
    <2> QED BY <2>1
  <1> HIDE DEF s
  <1>14. /\ DOMAIN envelopes' = 1 .. n + 1 /\ Len(envelopes') = n + 1 /\ envelopes' \in Seq(Envelopes)
         /\ envelopes'[n + 1] = e
         /\ \A j \in 1 .. n : envelopes'[j] = envelopes[j]
    BY <1>1, <1>7, <1>9
  <1> HIDE DEF n
  <1>15. \A j \in 1 .. n + 1 : j \in 1 .. n \/ j = n + 1
    BY <1>1
  <1>16. Created' = Created
    <2>1. \A x : x \in Created' <=> x \in Created
      BY <1>1, <1>7, <1>10, <1>14, <1>15, CreatedBy, CreatedThen
    <2> QED BY <2>1
  <1>17. ChainInv'
    <2>1. \A j \in 1 .. n + 1 :
            /\ envelopes'[j].nonce = o.nonce /\ envelopes'[j].config = c
            /\ envelopes'[j].seq <= tab[t].seq /\ envelopes'[j].seq \in Nat
      BY <1>5, <1>6, <1>7, <1>8, <1>10, <1>14, <1>15, EnvelopeTypes
    <2>2. \A j \in 1 .. n + 1 :
            envelopes'[j].state \in {"succeeded", "failed"} => envelopes'[j].seq < sequence
      <3>1. \A j \in 1 .. n :
              envelopes[j].state \in {"succeeded", "failed"} => envelopes[j].seq < sequence
        BY <1>7 DEF IInv, ChainInv
      <3> QED BY <1>10, <1>14, <1>15, <3>1
    <2>3. \A i, j \in 1 .. n + 1 : i <= j => envelopes'[i].seq <= envelopes'[j].seq
      <3> SUFFICES ASSUME NEW i \in 1 .. n + 1, NEW j \in 1 .. n + 1, i <= j
                   PROVE  envelopes'[i].seq <= envelopes'[j].seq
        OBVIOUS
      <3>1. CASE j = n + 1
        BY <1>10, <1>14, <2>1, <3>1
      <3>2. CASE j \in 1 .. n
        <4>1. i \in 1 .. n
          BY <1>1, <3>2
        <4>2. envelopes[i].seq <= envelopes[j].seq
          BY <1>7, <3>2, <4>1 DEF IInv, ChainInv
        <4> QED BY <1>14, <3>2, <4>1, <4>2
      <3> QED BY <1>15, <3>1, <3>2
    <2>4. Created # {} => \A j \in 1 .. n + 1 : envelopes'[j].seq < sequence
      BY <1>6, <1>7, <1>8, <2>1
    <2>5. \A j \in 1 .. n + 1 : envelopes'[j].nonce <= drawn /\ envelopes'[j].seq <= sequence
      <3>1. o.nonce <= drawn /\ tab[t].seq <= sequence /\ tab[t].seq \in Nat /\ sequence \in Nat
        BY <1>6, <1>7, <1>8
      <3> HIDE DEF o
      <3> QED BY <2>1, <3>1
    <2>6. /\ sequence \in 1 .. MaxSeq /\ drawn \in 0 .. MaxNonces /\ pending \subseteq Created
      BY DEF IInv, ChainInv
    <2>7. envelopes'[n + 1].state # "failed"
      BY <1>10, <1>14
    <2>8. \A i, j \in 1 .. n + 1 :
            envelopes'[i].nonce = envelopes'[j].nonce /\ envelopes'[i].config = envelopes'[j].config
      BY <2>1
    <2> QED BY <1>1, <1>14, <1>16, <2>2, <2>3, <2>4, <2>5, <2>6, <2>7, <2>8 DEF ChainInv
  <1>18. Fits(snapshot)'
    <2>1. snapshot'.config = c /\ snapshot'.record = r
      BY <1>13
    <2>2. ASSUME NEW i \in 1 .. n + 1
          PROVE  /\ envelopes'[i].nonce = r.nonce /\ envelopes'[i].config = c /\ r.predicted
                 /\ envelopes'[i].accepted /\ Landable(envelopes[i])' => i = n + 1 /\ r.hash = n + 1
      <3>1. CASE i = n + 1
        BY <1>3, <1>10, <1>11, <1>14, <3>1
      <3>2. CASE i \in 1 .. n
        <4>1. envelopes'[i] = envelopes[i] /\ i \in DOMAIN envelopes
          BY <1>7, <1>14, <3>2
        <4>2. Landable(envelopes[i])' => Landable(envelopes[i])
          BY <1>1, <4>1 DEF Landable
        <4> QED BY <1>3, <1>5, <1>11, <4>1, <4>2
      <3> QED BY <1>15, <3>1, <3>2
    <2>3. r.accepted = envelopes'[n + 1].accepted
      BY <1>10, <1>11, <1>14
    <2> QED BY <1>1, <1>2, <1>8, <1>11, <1>14, <2>1, <2>2, <2>3 DEF Fits
  <1>19. ~Deletable(r) /\ r.hash # 0
    BY <1>1, <1>11 DEF Deletable
  <1>20. IInv'
    BY <1>2, <1>11, <1>12, <1>13, <1>17, <1>18, <1>19, DraftSaved
  <1> QED BY <1>5, <1>20

-----------------------------------------------------------------------------
(* The theorems. *)

\* A browser with one draft and no deployment has nothing to remember.
LEMMA InitHolds == Init => IInv
  <1> SUFFICES ASSUME Init PROVE IInv
    OBVIOUS
  <1>1. /\ sequence = 1 /\ envelopes = <<>> /\ pending = {} /\ drawn = 0
        /\ snapshot = NoDraft /\ tab = [t \in Tabs |-> Idle]
    BY DEF Init
  <1>2. PICK c \in Configs : kept = [config |-> c, record |-> NoRecord]
    BY DEF Init
  <1>3. NoRecord \in Records
    BY CreationAssumption DEF NoRecord, Records, Statuses
  <1>4. DOMAIN envelopes = {} /\ Len(envelopes) = 0 /\ envelopes \in Seq(Envelopes)
    BY <1>1
  <1>5. Created = {}
    <2>1. \A x : x \notin Created
      BY <1>4, CreatedBy
    <2> QED BY <2>1
  <1>6. ChainInv
    BY <1>1, <1>4, <1>5, CreationAssumption DEF ChainInv
  <1>7. StorageInv
    <2>1. kept \in Drafts /\ snapshot \in Drafts
      BY <1>1, <1>2, <1>3 DEF Drafts, NoDraft
    <2> QED BY <1>1, <1>2, <1>4, <2>1 DEF StorageInv
  <1>8. TabsInv
    <2>1. Idle \in TabStates
      BY <1>3, CreationAssumption DEF Idle, TabStates, Steps, NoRecord
    <2>2. Fine(Idle) /\ Idle.at = "idle"
      BY DEF Fine, Idle, Midway
    <2>3. \A t \in Tabs : tab[t] = Idle
      BY <1>1
    <2>4. \A t \in Tabs : ~Deploying(t)
      BY <2>2, <2>3 DEF Deploying
    <2>5. tab \in [Tabs -> TabStates]
      BY <1>1, <2>1
    <2> QED BY <2>2, <2>3, <2>4, <2>5 DEF TabsInv
  <1> QED BY <1>6, <1>7, <1>8 DEF IInv

\* Every step keeps the invariant.
LEMMA InvNext == ASSUME IInv, [Next]_vars PROVE IInv'
  <1>1. CASE Ledger
    <2>1. CASE \E i \in DOMAIN envelopes : Include(i) \/ Expire(i)
      BY <2>1, IncludeKeeps, ExpireKeeps
    <2>2. CASE SpendSequence
      BY <2>2, SpendSequenceKeeps
    <2>3. CASE \E n \in 1 .. MaxNonces : Launch(n)
      BY <2>3, LaunchKeeps
    <2> QED BY <1>1, <2>1, <2>2, <2>3 DEF Ledger
  <1>2. ASSUME NEW t \in Tabs, ReadDrafts(t) \/ WriteDrafts(t) \/ DeleteDraft(t) \/ Begin(t) \/ Stop(t)
        PROVE  IInv'
    BY <1>2, ReadDraftsKeeps, WriteDraftsKeeps, DeleteDraftKeeps, BeginKeeps, StopKeeps
  <1>3. ASSUME NEW t \in Tabs, Deploys(t)
        PROVE  IInv'
    <2>1. CASE Reconcile(t) \/ Inspect(t) \/ GiveUp(t) \/ AskAgain(t)
      BY <2>1, ReconcileKeeps, InspectKeeps, GiveUpKeeps, AskAgainKeeps
    <2>2. CASE Build(t) \/ Predict(t) \/ Simulate(t) \/ Sign(t)
      BY <2>2, BuildKeeps, PredictKeeps, SimulateKeeps, SignKeeps
    <2>3. CASE Decline(t) \/ Send(t) \/ Answer(t) \/ Confirm(t)
      BY <2>3, DeclineKeeps, SendKeeps, AnswerKeeps, ConfirmKeeps
    <2> QED BY <1>3, <2>1, <2>2, <2>3 DEF Deploys
  <1>4. CASE UNCHANGED vars
    <2>1. UNCHANGED <<chain, drawn, storage>> /\ tab' = tab
      BY <1>4 DEF vars
    <2>2. ChainInv' /\ StorageInv' /\ \A s : Fine(s)' <=> Fine(s)
      BY <2>1, NothingElse DEF IInv
    <2>3. \A t \in Tabs : Fine(tab[t])
      BY DEF IInv, TabsInv
    <2>4. \A t \in Tabs : Fine(tab[t])'
      <3> SUFFICES ASSUME NEW t \in Tabs PROVE Fine(tab[t])'
        OBVIOUS
      <3>1. /\ sequence' = sequence /\ envelopes' = envelopes
            /\ kept' = kept /\ snapshot' = snapshot
        BY <2>1 DEF chain, storage
      <3> QED BY <2>1, <2>3, <3>1 DEF Fine, Known, Current, Created
    <2>5. /\ tab' \in [Tabs -> TabStates]
          /\ \A t, u \in Tabs : Deploying(t)' /\ Deploying(u)' => t = u
      BY <2>1 DEF IInv, TabsInv, Deploying
    <2> QED BY <2>2, <2>4, <2>5 DEF IInv, TabsInv
  <1> QED BY <1>1, <1>2, <1>3, <1>4 DEF Next

\* What ledger, browser and tabs know of one another holds in every order of their steps.
THEOREM CreationInvariant == Spec => []IInv
  <1>1. IInv /\ [Next]_vars => IInv'
    BY InvNext
  <1> QED BY <1>1, InitHolds, PTL DEF Spec

\* What the browser and the account never get wrong together: however often, from whichever tab
\* and after whatever stop a draft is deployed, it creates one DAO, shows the configuration that
\* was signed, and remembers whatever can still land.
THEOREM CreationHolds == Spec => []CreationInv
  <1>1. IInv => CreationInv
    BY InvariantGives
  <1> QED BY <1>1, CreationInvariant, PTL

\* Only the wallet adds an envelope.
LEMMA OnlySignAdds ==
    ASSUME IInv, [Next]_vars, \A t \in Tabs : ~Sign(t)
    PROVE  Len(envelopes') = Len(envelopes)
  <1>1. envelopes \in Seq(Envelopes) /\ envelopes' \in Seq(Envelopes)
    BY InvNext DEF IInv, ChainInv
  <1>2. DOMAIN envelopes' = DOMAIN envelopes
    <2>1. CASE Ledger
      BY <2>1 DEF Ledger, Include, Expire, SpendSequence, Launch
    <2>2. ASSUME NEW t \in Tabs, ReadDrafts(t) \/ WriteDrafts(t) \/ DeleteDraft(t) \/ Begin(t) \/ Stop(t)
          PROVE  DOMAIN envelopes' = DOMAIN envelopes
      BY <2>2 DEF ReadDrafts, WriteDrafts, DeleteDraft, Begin, Stop, chain
    <2>3. ASSUME NEW t \in Tabs, Deploys(t)
          PROVE  DOMAIN envelopes' = DOMAIN envelopes
      <3>1. CASE Send(t)
        BY <3>1 DEF Send
      <3>2. CASE Answer(t)
        BY <3>2 DEF Answer
      <3>3. CASE ~Send(t) /\ ~Answer(t)
        BY <2>3, <3>3 DEF Deploys, Reconcile, Inspect, GiveUp, AskAgain, Build, Predict, Simulate,
                          Decline, Confirm, chain
      <3> QED BY <3>1, <3>2, <3>3
    <2>4. CASE UNCHANGED vars
      BY <2>4 DEF vars, chain
    <2> QED BY <2>1, <2>2, <2>3, <2>4 DEF Next
  <1> QED BY <1>1, <1>2

\* The wallet is not asked to sign again while an envelope recorded as accepted may still land.
THEOREM NeverSignsTwice == Spec => NoSecondSignature
  <1>1. ASSUME IInv, [Next]_vars
        PROVE  Len(envelopes') > Len(envelopes) =>
                  \A e \in ToSet(envelopes) : ~(Landable(e) /\ e.accepted)
    <2>1. ASSUME NEW t \in Tabs, Sign(t)
          PROVE  \A e \in ToSet(envelopes) : ~(Landable(e) /\ e.accepted)
      <3>1. \A i \in DOMAIN envelopes : ~(envelopes[i].accepted /\ Landable(envelopes[i]))
        BY <1>1, <2>1, SignKeeps
      <3> QED BY <3>1 DEF ToSet
    <2>2. CASE \A t \in Tabs : ~Sign(t)
      <3>1. Len(envelopes') = Len(envelopes) /\ Len(envelopes) \in Nat
        BY <1>1, <2>2, OnlySignAdds, EnvelopeTypes
      <3> QED BY <3>1
    <2> QED BY <2>1, <2>2
  <1> QED BY <1>1, CreationInvariant, PTL DEF Spec, NoSecondSignature

-----------------------------------------------------------------------------
(* Trading a resale. The invariant follows a listing from the creation the *)
(* index shows to the entry a closed ledger shows, the dialog that read    *)
(* both, the transaction it leads to, and what that transaction did.       *)

Settings == [fee : Fees, asset : Assets, paused : BOOLEAN, changes : Nat]
Creations ==
    [price : Prices, asset : Assets, fee : Fees, seller : Accounts, expires : Nat,
     ledger : Nat, at : Nat, ended : Nat]
Snapshots == [listing : Listings \cup {None}, config : Settings, events : Nat]
Checked ==
    [step : {"simulated", "proven"}, buy : {TRUE}, creation : Nat, row : Nat, at : Nat, until : Nat]

\* A listing is that of its creation, on the same terms.
Wrote(x) ==
    /\ x \in Listings /\ x.creation \in DOMAIN created
    /\ TermsOf(x) = Row(x.creation) /\ x.modified = created[x.creation].ledger

\* The contract, and what the closed ledgers show of it.
LedgerInv ==
    /\ ledger \in 1 .. MaxLedger /\ events \in Nat /\ indexedTo \in 0 .. events
    /\ config \in Settings /\ owner \in Accounts \cup {Market} /\ (listing = None <=> owner # Market)
    /\ created \in Seq(Creations)
    /\ \A i \in DOMAIN created : created[i].at <= events /\ created[i].ended <= events
    /\ listing # None => Wrote(listing) /\ created[listing.creation].ended = 0
    /\ past \in Seq(Snapshots) /\ Len(past) = ledger - 1
    /\ \A l \in DOMAIN past :
        past[l].events <= events /\ (past[l].listing # None => Wrote(past[l].listing))

\* A purchase allows the payments of the listing that was reviewed, and no other.
Signable(tx) ==
    /\ tx.by \in Traders /\ tx.until \in Nat /\ tx.buy \in BOOLEAN
    /\ tx.buy => tx.creation \in DOMAIN created /\ tx.authorized = Payments(created[tx.creation])
    /\ ~tx.buy => tx.price \in Prices /\ tx.expires \in Nat

\* What a dialog knows at each step.
Sound(t) ==
    /\ t.step = "asked" => t.buy \in BOOLEAN
    /\ t.step = "asked" /\ t.buy => t.creation \in DOMAIN created
    /\ t.step = "asked" /\ ~t.buy => t.price \in Prices /\ t.expires \in Nat
    /\ t.step = "read" => t.buy /\ t.creation \in DOMAIN created /\ t.row = t.creation
    /\ t.step \in {"simulated", "proven"} =>
        /\ t \in Checked /\ t.creation \in DOMAIN created /\ t.row = t.creation
        /\ t.at \in DOMAIN past /\ past[t.at].listing # None
    /\ t.step = "proven" => past[t.at].listing.creation = t.creation
    /\ t.step = "prepared" => Signable(t.tx)
    /\ t.step = "prepared" /\ t.tx.buy =>
        t.at \in DOMAIN past /\ past[t.at].listing.creation = t.creation

DoneInv ==
    done # None =>
        /\ done.tx.buy =>
            done.tx.creation \in DOMAIN created /\ done.paid \subseteq Payments(created[done.tx.creation])
        /\ ~done.tx.buy =>
            /\ done.listed \in DOMAIN created
            /\ created[done.listed].fee <= done.tx.fee
            /\ created[done.listed].asset = done.tx.asset
            /\ created[done.listed].price = done.tx.price

TInv ==
    /\ LedgerInv
    /\ trade = [a \in Traders |-> trade[a]] /\ \A a \in Traders : Sound(trade[a])
    /\ \A tx \in txs : Signable(tx) /\ tx.until >= ledger
    /\ DoneInv
-----------------------------------------------------------------------------
(* What follows from the invariant, and what a step keeps. *)

\* The payments of a listing depend on its terms alone.
LEMMA PaymentsOfTerms ==
    ASSUME NEW x, NEW y, TermsOf(x) = TermsOf(y) PROVE Payments(x) = Payments(y)
  <1>1. x.price = y.price /\ x.asset = y.asset /\ x.fee = y.fee /\ x.seller = y.seller
    BY DEF TermsOf
  <1>2. FeeOf(x) = FeeOf(y)
    BY <1>1 DEF FeeOf
  <1> QED BY <1>1, <1>2 DEF Payments

\* The invariant implies the run's.
LEMMA TradeInvFollows == ASSUME TInv PROVE TradeInv
  <1>1. TradeTypes
    <2>1. listing # None => TermsOf(listing) \in Terms
      BY DEF TInv, LedgerInv, Wrote, Listings, TermsOf, Terms
    <2> QED
      BY <2>1, TradeAssumption DEF TInv, LedgerInv, Wrote, TradeTypes, Open, Signable
  <1>2. PreparedIsReviewed
    BY DEF TInv, Sound, PreparedIsReviewed
  <1>3. PaidAsReviewed /\ ListedAsBound
    BY DEF TInv, DoneInv, PaidAsReviewed, ListedAsBound
  <1> QED BY <1>1, <1>2, <1>3 DEF TradeInv

\* Creations and closed ledgers are kept: only the end of a creation is still written.
Keeps ==
    /\ DOMAIN created \subseteq DOMAIN created'
    /\ \A i \in DOMAIN created : Row(i)' = Row(i) /\ created'[i].ledger = created[i].ledger
    /\ DOMAIN past \subseteq DOMAIN past' /\ \A l \in DOMAIN past : past'[l] = past[l]

\* What is kept stays reviewed, signable and done.
LEMMA WroteKept == ASSUME Keeps, NEW x, Wrote(x) PROVE Wrote(x)'
  BY DEF Keeps, Wrote

\* The same of what can be signed.
LEMMA SignableKept == ASSUME Keeps, NEW tx, Signable(tx) PROVE Signable(tx)'
  <1>1. ASSUME tx.buy PROVE Payments(created'[tx.creation]) = Payments(created[tx.creation])
    BY <1>1, PaymentsOfTerms DEF Keeps, Row, Signable
  <1> QED BY <1>1 DEF Signable, Keeps

\* The same of a dialog.
LEMMA SoundKept == ASSUME Keeps, NEW t, Sound(t) PROVE Sound(t)'
  <1>1. t.step = "prepared" => Signable(t.tx)'
    BY SignableKept DEF Sound
  <1> QED BY <1>1 DEF Sound, Keeps

\* The same of what was done.
LEMMA DoneKept == ASSUME Keeps, DoneInv, UNCHANGED done PROVE DoneInv'
  <1>1. ASSUME NEW i \in DOMAIN created
        PROVE  /\ Payments(created'[i]) = Payments(created[i]) /\ i \in DOMAIN created'
               /\ created'[i].fee = created[i].fee /\ created'[i].asset = created[i].asset
               /\ created'[i].price = created[i].price
    <2>1. TermsOf(created'[i]) = TermsOf(created[i]) /\ i \in DOMAIN created'
      BY DEF Keeps, Row
    <2> QED BY <2>1, PaymentsOfTerms DEF TermsOf
  <1> QED BY <1>1 DEF DoneInv

\* Steps that leave the chain alone.
LEMMA SetKeeps ==
    ASSUME TInv, UNCHANGED <<onChain, indexedTo, txs, done>>,
           NEW a \in Traders, NEW t, trade' = [trade EXCEPT ![a] = t], Sound(t)
    PROVE  TInv'
  <1>1. LedgerInv'
    BY DEF TInv, LedgerInv, Wrote, Row, onChain
  <1>2. Keeps
    BY DEF Keeps, Row, onChain
  <1>3. trade' = [u \in Traders |-> trade'[u]] /\ \A u \in Traders : Sound(trade[u])'
    <2>1. \A x : Sound(x) => Sound(x)'
      BY <1>2, SoundKept
    <2>2. trade' = [u \in Traders |-> IF u = a THEN t ELSE trade[u]]
      BY DEF TInv
    <2>3. \A u \in Traders : Sound(trade[u])'
      <3>1. SUFFICES ASSUME NEW u \in Traders PROVE Sound(trade[u])'
        OBVIOUS
      <3>2. PICK x : x = trade'[u]
        OBVIOUS
      <3>3. Sound(x)'
        BY <2>1, <2>2, <3>2 DEF TInv
      <3> QED BY <3>2, <3>3 DEF Sound
    <2> QED BY <2>2, <2>3
  <1>4. \A tx \in txs' : Signable(tx)' /\ (tx.until >= ledger)'
    BY <1>2, SignableKept DEF TInv, onChain
  <1>5. DoneInv'
    BY <1>2, DoneKept DEF TInv
  <1> QED BY <1>1, <1>3, <1>4, <1>5 DEF TInv

\* A dialog that is left, or that ends.
LEMMA NoTradeSound == Sound(NoTrade)
  BY DEF Sound, NoTrade

\* Steps of the chain that keep the dialogs and what was signed.
LEMMA ChainKeeps ==
    ASSUME TInv, LedgerInv', Keeps, UNCHANGED trade, txs' \subseteq txs, DoneInv',
           \A tx \in txs' : tx.until >= ledger'
    PROVE  TInv'
  <1>1. \A u \in Traders : Sound(trade[u])'
    BY SoundKept DEF TInv
  <1>2. \A tx \in txs' : Signable(tx)'
    BY SignableKept DEF TInv
  <1> QED BY <1>1, <1>2 DEF TInv

-----------------------------------------------------------------------------
(* The chain. *)

\* A creation whose end is written.
LEMMA Ended ==
    ASSUME NEW x \in Creations, NEW e \in Nat
    PROVE  LET y == [x EXCEPT !.ended = e] IN
           y \in Creations /\ TermsOf(y) = TermsOf(x) /\ y.ledger = x.ledger /\ y.at = x.at /\ y.ended = e
  BY DEF Creations, TermsOf

\* A closed listing.
LEMMA ClosingKeeps ==
    ASSUME TInv, listing # None, NEW o \in Accounts, Closing(o),
           UNCHANGED <<ledger, config, past, indexedTo>>
    PROVE  LedgerInv' /\ Keeps
  <1> DEFINE c == listing.creation
  <1>1. c \in DOMAIN created /\ created \in Seq(Creations) /\ events \in Nat
    BY DEF TInv, LedgerInv, Wrote
  <1>2. /\ created' \in Seq(Creations) /\ DOMAIN created' = DOMAIN created
        /\ \A i \in DOMAIN created :
            created'[i] = IF i = c THEN [created[i] EXCEPT !.ended = events + 1] ELSE created[i]
    <2>1. created[c] \in Creations
      BY <1>1
    <2>2. [created[c] EXCEPT !.ended = events + 1] \in Creations
      BY <1>1, <2>1, Ended
    <2>3. created' = [created EXCEPT ![c] = [created[c] EXCEPT !.ended = events + 1]]
      BY DEF Closing
    <2> QED BY <1>1, <2>2, <2>3
  <1>3. \A i \in DOMAIN created : created[i] \in Creations
    BY <1>1
  <1>4. \A i \in DOMAIN created :
            /\ Row(i)' = Row(i) /\ created'[i].ledger = created[i].ledger
            /\ created'[i].at = created[i].at /\ created'[i].ended \in {created[i].ended, events + 1}
    <2>1. SUFFICES ASSUME NEW i \in DOMAIN created
                   PROVE  /\ TermsOf(created'[i]) = TermsOf(created[i])
                          /\ created'[i].ledger = created[i].ledger /\ created'[i].at = created[i].at
                          /\ created'[i].ended \in {created[i].ended, events + 1}
      BY DEF Row, TermsOf
    <2>2. CASE i = c
      <3>1. created'[i] = [created[i] EXCEPT !.ended = events + 1]
        BY <1>2, <2>2
      <3>2. created[i] \in Creations /\ events + 1 \in Nat
        BY <1>1, <1>3
      <3>3. PICK x : x = created[i]
        OBVIOUS
      <3>4. created'[i] = [x EXCEPT !.ended = events + 1] /\ x \in Creations
        BY <3>1, <3>2, <3>3
      <3>5. /\ TermsOf([x EXCEPT !.ended = events + 1]) = TermsOf(x)
            /\ [x EXCEPT !.ended = events + 1].ledger = x.ledger
            /\ [x EXCEPT !.ended = events + 1].at = x.at
            /\ [x EXCEPT !.ended = events + 1].ended = events + 1
        BY <3>2, <3>4, Ended
      <3> QED BY <3>3, <3>4, <3>5
    <2>3. CASE i # c
      BY <1>2, <2>3
    <2> QED BY <2>2, <2>3
  <1>5. Keeps
    BY <1>2, <1>4 DEF Keeps
  <1>6. \A l \in DOMAIN past' : past'[l].events <= events' /\ (past'[l].listing # None => Wrote(past[l].listing)')
    <2>1. \A l \in DOMAIN past : past[l].events \in Nat
      <3>1. past \in Seq(Snapshots)
        BY DEF TInv, LedgerInv
      <3>2. \A l \in DOMAIN past : past[l] \in Snapshots
        BY <3>1
      <3> QED BY <3>2 DEF Snapshots
    <2> QED BY <1>1, <1>5, <2>1, WroteKept DEF TInv, LedgerInv, Closing
  <1>7. \A i \in DOMAIN created' : created'[i].at <= events' /\ created'[i].ended <= events'
    <2>1. \A i \in DOMAIN created : created[i].at \in Nat /\ created[i].ended \in Nat
      BY <1>3 DEF Creations
    <2> QED BY <1>1, <1>2, <1>4, <2>1 DEF TInv, LedgerInv, Closing
  <1>8. owner' \in Accounts \cup {Market} /\ (listing' = None <=> owner' # Market)
    BY TradeAssumption DEF Closing
  <1>9. events' \in Nat /\ indexedTo' \in 0 .. events' /\ listing' = None
    BY DEF TInv, LedgerInv, Closing
  <1>10. ledger' \in 1 .. MaxLedger /\ config' \in Settings /\ past' \in Seq(Snapshots) /\ Len(past') = ledger' - 1
    BY DEF TInv, LedgerInv
  <1> HIDE DEF c
  <1> QED BY <1>2, <1>5, <1>6, <1>7, <1>8, <1>9, <1>10 DEF LedgerInv

\* A token that is listed.
LEMMA ListingKeeps ==
    ASSUME TInv, NEW s \in Accounts, NEW p \in Prices, NEW e \in Nat, ListNow(s, p, e),
           UNCHANGED <<ledger, config, past, indexedTo>>
    PROVE  /\ LedgerInv' /\ Keeps
           /\ Len(created) + 1 \in DOMAIN created'
           /\ created'[Len(created) + 1].price = p
           /\ created'[Len(created) + 1].asset = config.asset
           /\ created'[Len(created) + 1].fee = config.fee
  <1> DEFINE n == Len(created) + 1
             x == [price |-> p, asset |-> config.asset, fee |-> config.fee, seller |-> s,
                   expires |-> e, ledger |-> ledger, at |-> events + 1, ended |-> 0]
  <1>1. created \in Seq(Creations) /\ events \in Nat /\ ledger \in Nat /\ config \in Settings
    BY TradeAssumption DEF TInv, LedgerInv
  <1>2. x \in Creations
    BY <1>1 DEF Creations, Settings
  <1>3. created' = Append(created, x)
    BY DEF ListNow
  <1>4. /\ created' \in Seq(Creations) /\ n \in Nat \ {0} /\ DOMAIN created' = 1 .. n /\ DOMAIN created = 1 .. Len(created)
        /\ created'[n] = x /\ \A i \in DOMAIN created : created'[i] = created[i]
    <2> HIDE DEF x
    <2> QED BY <1>1, <1>2, <1>3
  <1>5. Keeps
    BY <1>4 DEF Keeps, Row
  <1>6. \A l \in DOMAIN past' : past'[l].events <= events' /\ (past'[l].listing # None => Wrote(past[l].listing)')
    <2>1. \A l \in DOMAIN past : past[l].events \in Nat
      <3>1. past \in Seq(Snapshots)
        BY DEF TInv, LedgerInv
      <3>2. \A l \in DOMAIN past : past[l] \in Snapshots
        BY <3>1
      <3> QED BY <3>2 DEF Snapshots
    <2> QED BY <1>1, <1>5, <2>1, WroteKept DEF TInv, LedgerInv, ListNow
  <1>7. \A i \in DOMAIN created' : created'[i].at <= events' /\ created'[i].ended <= events'
    <2>1. \A i \in DOMAIN created : created[i].at \in Nat /\ created[i].ended \in Nat
      <3>1. \A i \in DOMAIN created : created[i] \in Creations
        BY <1>1
      <3> QED BY <3>1 DEF Creations
    <2>2. \A i \in DOMAIN created' : i \in DOMAIN created \/ i = n
      BY <1>4
    <2>3. x.at = events + 1 /\ x.ended = 0 /\ events' = events + 1
      BY DEF ListNow
    <2> HIDE DEF x, n
    <2>4. \A i \in DOMAIN created : created'[i].at <= events' /\ created'[i].ended <= events'
      BY <1>1, <1>4, <2>1, <2>3 DEF TInv, LedgerInv
    <2>5. created'[n].at <= events' /\ created'[n].ended <= events'
      BY <1>1, <1>4, <2>3
    <2> QED BY <2>2, <2>4, <2>5
  <1>8. listing' \in Listings /\ owner' = Market
    BY <1>1, <1>4 DEF ListNow, Listings, Settings
  <1>9. Wrote(listing)' /\ created'[listing'.creation].ended = 0
    <2>1. listing'.creation = n /\ listing'.modified = ledger
      BY DEF ListNow
    <2>2. x.ledger = ledger /\ x.ended = 0
      OBVIOUS
    <2>3. TermsOf(listing') = TermsOf(x)
      BY DEF ListNow, TermsOf
    <2> HIDE DEF x, n
    <2>4. created'[listing'.creation] = x /\ listing'.creation \in DOMAIN created'
      <3>1. n \in DOMAIN created'
        BY <1>4
      <3> QED BY <1>4, <2>1, <3>1
    <2>5. TermsOf(listing)' = TermsOf(listing') /\ Row(listing.creation)' = TermsOf(created'[listing'.creation])
      BY DEF Row, TermsOf
    <2>6. TermsOf(listing)' = Row(listing.creation)'
      BY <2>3, <2>4, <2>5
    <2> QED BY <1>8, <2>1, <2>2, <2>4, <2>6 DEF Wrote
  <1>10. listing' # None
    BY <1>8, TradeAssumption
  <1>11. events' \in Nat /\ indexedTo' \in 0 .. events'
    BY DEF TInv, LedgerInv, ListNow
  <1>12. ledger' \in 1 .. MaxLedger /\ config' \in Settings /\ past' \in Seq(Snapshots) /\ Len(past') = ledger' - 1
    BY DEF TInv, LedgerInv
  <1>13. LedgerInv'
    BY <1>4, <1>6, <1>7, <1>8, <1>9, <1>10, <1>11, <1>12 DEF LedgerInv
  <1> QED BY <1>4, <1>5, <1>13

\* A ledger closes, and what expired is not taken any more.
LEMMA CloseStep == ASSUME TInv, Close PROVE TInv'
  <1> DEFINE x == [listing |-> listing, config |-> config, events |-> events]
  <1>1. /\ past \in Seq(Snapshots) /\ Len(past) = ledger - 1 /\ ledger \in Nat /\ ledger \in 1 .. MaxLedger
        /\ MaxLedger \in Nat
    BY TradeAssumption DEF TInv, LedgerInv
  <1>2. x \in Snapshots
    BY DEF TInv, LedgerInv, Wrote, Snapshots
  <1>3. past' = Append(past, x)
    BY DEF Close
  <1>4. /\ past' \in Seq(Snapshots) /\ Len(past') = ledger' - 1 /\ DOMAIN past = 1 .. Len(past)
        /\ DOMAIN past' = 1 .. Len(past) + 1 /\ Len(past) \in Nat
        /\ past'[Len(past) + 1] = x /\ \A l \in DOMAIN past : past'[l] = past[l]
    <2> HIDE DEF x
    <2> QED BY <1>1, <1>2, <1>3 DEF Close
  <1>5. Keeps
    BY <1>4 DEF Keeps, Row, Close
  <1>6. \A l \in DOMAIN past' : past'[l].events <= events' /\ (past'[l].listing # None => Wrote(past[l].listing)')
    <2>1. ASSUME NEW l \in DOMAIN past
          PROVE  past'[l].events <= events' /\ (past'[l].listing # None => Wrote(past[l].listing)')
      BY <1>4, <1>5, WroteKept DEF TInv, LedgerInv, Close
    <2>2. x.events = events /\ x.listing = listing
      OBVIOUS
    <2>3. events \in Nat /\ (listing # None => Wrote(listing)') /\ events' = events
      BY <1>5, WroteKept DEF TInv, LedgerInv, Close
    <2>4. \A l \in DOMAIN past' : l \in DOMAIN past \/ l = Len(past) + 1
      BY <1>4
    <2> HIDE DEF x
    <2>5. past'[Len(past) + 1].events <= events'
      BY <1>4, <2>2, <2>3
    <2>6. ASSUME NEW l \in DOMAIN past', l = Len(past) + 1
          PROVE  past'[l].listing # None => Wrote(past[l].listing)'
      <3>1. past'[l].listing = listing /\ listing' = listing
        BY <1>4, <2>2, <2>6 DEF Close
      <3> QED BY <2>3, <3>1 DEF Wrote
    <2> QED BY <2>1, <2>4, <2>5, <2>6
  <1>7. listing' # None => Wrote(listing)' /\ created'[listing'.creation].ended = 0
    BY DEF TInv, LedgerInv, Wrote, Row, Close
  <1>8. ledger' \in 1 .. MaxLedger
    BY <1>1 DEF Close
  <1>9. LedgerInv'
    <2>1. UNCHANGED <<created, events, indexedTo, config, owner, listing>>
      BY DEF Close
    <2> QED BY <1>4, <1>6, <1>7, <1>8, <2>1 DEF TInv, LedgerInv
  <1>10. DoneInv'
    BY <1>5, DoneKept DEF TInv, Close
  <1>11. \A tx \in txs' : tx \in txs /\ tx.until >= ledger'
    BY <1>1 DEF TInv, Signable, Close
  <1> QED BY <1>5, <1>9, <1>10, <1>11, ChainKeeps DEF Close

\* Governance, and the index.
LEMMA OtherStep == ASSUME TInv, SetTerms \/ Index PROVE TInv'
  <1>1. UNCHANGED <<ledger, owner, listing, created, past, events, trade, txs, done>>
    BY DEF SetTerms, Index, onChain
  <1>2. config' \in Settings
    <2>1. CASE SetTerms
      BY <2>1 DEF SetTerms, Settings, TInv, LedgerInv
    <2>2. CASE Index
      BY <2>2 DEF Index, onChain, TInv, LedgerInv
    <2> QED BY <2>1, <2>2
  <1>3. indexedTo' \in 0 .. events
    <2>1. CASE SetTerms
      BY <2>1 DEF SetTerms, TInv, LedgerInv
    <2>2. CASE Index
      <3>1. /\ past \in Seq(Snapshots) /\ Len(past) = ledger - 1 /\ indexedTo \in Nat /\ events \in Nat
            /\ \A l \in DOMAIN past : past[l].events <= events
        BY DEF TInv, LedgerInv
      <3>2. PICK n \in indexedTo + 1 .. past[Len(past)].events : indexedTo' = n
        BY <2>2 DEF Index
      <3>3. Len(past) \in DOMAIN past
        BY <2>2, <3>1 DEF Index
      <3>4. past[Len(past)] \in Snapshots
        BY <3>1, <3>3
      <3>5. past[Len(past)].events \in Nat
        BY <3>4 DEF Snapshots
      <3> QED BY <3>1, <3>2, <3>3, <3>5
    <2> QED BY <2>1, <2>2
  <1>4. LedgerInv'
    BY <1>1, <1>2, <1>3 DEF TInv, LedgerInv, Wrote, Row
  <1>5. Keeps
    BY <1>1 DEF Keeps, Row
  <1>6. DoneInv'
    BY <1>1, <1>5, DoneKept DEF TInv
  <1> QED BY <1>1, <1>4, <1>5, <1>6, ChainKeeps DEF TInv

\* Anyone lists, cancels or buys without the application.
LEMMA OthersStep ==
    ASSUME TInv, CancelOrExpire \/ \E a \in Accounts : List(a) \/ Buy(a)
    PROVE  TInv'
  <1>1. UNCHANGED <<ledger, config, past, indexedTo, trade, txs, done>>
    BY DEF CancelOrExpire, List, Buy
  <1>2. LedgerInv' /\ Keeps
    <2>1. CASE CancelOrExpire
      <3>1. listing.seller \in Accounts
        BY <2>1 DEF CancelOrExpire, TInv, LedgerInv, Wrote, Listings
      <3> QED BY <1>1, <2>1, <3>1, ClosingKeeps DEF CancelOrExpire
    <2>2. ASSUME NEW a \in Accounts, Buy(a) PROVE LedgerInv' /\ Keeps
      BY <1>1, <2>2, ClosingKeeps DEF Buy
    <2>3. ASSUME NEW a \in Accounts, List(a) PROVE LedgerInv' /\ Keeps
      <3>1. PICK price \in Prices, life \in Lifetimes : ListNow(a, price, ledger + life)
        BY <2>3 DEF List
      <3>2. ledger + life \in Nat
        BY TradeAssumption DEF TInv, LedgerInv
      <3> QED BY <1>1, <3>1, <3>2, ListingKeeps
    <2> QED BY <2>1, <2>2, <2>3
  <1>3. DoneInv'
    BY <1>1, <1>2, DoneKept DEF TInv
  <1> QED BY <1>1, <1>2, <1>3, ChainKeeps DEF TInv

-----------------------------------------------------------------------------
(* The application. *)

\* A node answers from a closed ledger; a visible row is one that was created.
LEMMA Reads == ASSUME TInv PROVE Nodes \subseteq DOMAIN past /\ Visible \subseteq DOMAIN created
  BY DEF Nodes, Visible, TInv, LedgerInv

\* The steps that prepare a purchase.
LEMMA BuyingStep ==
    ASSUME TInv, NEW a \in Traders,
           AskToBuy(a) \/ ReadListing(a) \/ SimulateBuy(a) \/ Prove(a) \/ Recheck(a)
    PROVE  TInv'
  <1> DEFINE t == trade[a]
  <1>1. Sound(t)
    BY DEF TInv
  <1>2. CASE AskToBuy(a)
    <2>1. PICK i \in Visible : Set(a, [step |-> "asked", buy |-> TRUE, creation |-> i])
      BY <1>2 DEF AskToBuy
    <2>2. Sound([step |-> "asked", buy |-> TRUE, creation |-> i])
      BY Reads DEF Sound
    <2> QED BY <2>1, <2>2, SetKeeps DEF Set
  <1>3. CASE ReadListing(a)
    <2> DEFINE r == [step |-> "read", buy |-> TRUE, creation |-> t.creation, row |-> t.creation]
    <2>1. Set(a, r) \/ Set(a, NoTrade)
      BY <1>3 DEF ReadListing, RowFor
    <2>2. Sound(r)
      BY <1>1, <1>3 DEF Sound, ReadListing
    <2> QED BY <2>1, <2>2, NoTradeSound, SetKeeps DEF Set
  <1>4. CASE SimulateBuy(a)
    <2> DEFINE r(l) == [step |-> "simulated", buy |-> TRUE, creation |-> t.creation, row |-> t.row,
                        at |-> l, until |-> ledger + Validity]
    <2>1. PICK l \in Nodes : Set(a, NoTrade) \/ (past[l].listing # None /\ Set(a, r(l)))
      BY <1>4 DEF SimulateBuy
    <2>2. t.creation \in DOMAIN created /\ t.row = t.creation /\ l \in DOMAIN past
      BY <1>1, <1>4, Reads DEF Sound, SimulateBuy
    <2>3. r(l) \in Checked
      BY <2>2, TradeAssumption DEF Checked, TInv, LedgerInv
    <2>4. past[l].listing # None => Sound(r(l))
      BY <2>2, <2>3 DEF Sound
    <2> QED BY <2>1, <2>4, NoTradeSound, SetKeeps DEF Set
  <1>5. CASE Prove(a)
    <2> DEFINE r == [t EXCEPT !.step = "proven"]
               sim == past[t.at].listing
    <2>1. PICK history, current : \/ Set(a, NoTrade)
                                  \/ CycleProven(t.row, sim, history, current) /\ Set(a, r)
      BY <1>5 DEF Prove
    <2>2. t \in Checked /\ t.creation \in DOMAIN created /\ t.row = t.creation
          /\ t.at \in DOMAIN past /\ sim # None
      BY <1>1, <1>5 DEF Sound, Prove
    <2>3. r \in Checked /\ r.step = "proven" /\ r.creation = t.creation /\ r.row = t.row /\ r.at = t.at
      BY <2>2 DEF Checked
    <2>4. ASSUME CycleProven(t.row, sim, history, current) PROVE sim.creation = t.creation
      <3>1. Wrote(sim)
        BY <2>2 DEF TInv, LedgerInv
      <3>2. created[sim.creation].ledger = created[t.row].ledger /\ sim.creation \in DOMAIN created
        BY <2>4, <3>1 DEF CycleProven, Wrote
      <3>3. {j \in DOMAIN created : created[j].ledger = created[t.row].ledger} = {t.row}
        BY <2>4 DEF CycleProven
      <3> QED BY <2>2, <3>2, <3>3
    <2> HIDE DEF r
    <2>5. CycleProven(t.row, sim, history, current) => Sound(r)
      BY <2>2, <2>3, <2>4 DEF Sound
    <2> QED BY <2>1, <2>5, NoTradeSound, SetKeeps DEF Set
  <1>6. CASE Recheck(a)
    <2> DEFINE sim == past[t.at].listing
               tx == [by |-> a, buy |-> TRUE, creation |-> t.creation, max |-> Row(t.row).price,
                      authorized |-> Payments(sim), until |-> t.until]
               r == [step |-> "prepared", creation |-> t.creation, at |-> t.at, tx |-> tx]
    <2>1. Set(a, r) \/ Set(a, NoTrade)
      BY <1>6 DEF Recheck
    <2>2. /\ t \in Checked /\ t.creation \in DOMAIN created /\ t.at \in DOMAIN past /\ sim # None
          /\ sim.creation = t.creation
      BY <1>1, <1>6 DEF Sound, Recheck
    <2>3. Wrote(sim)
      BY <2>2 DEF TInv, LedgerInv
    <2>4. Payments(sim) = Payments(created[t.creation])
      BY <2>2, <2>3, PaymentsOfTerms DEF Wrote, Row
    <2>5. Signable(tx)
      BY <2>2, <2>4 DEF Signable, Checked
    <2>6. Sound(r)
      BY <2>2, <2>5 DEF Sound
    <2> QED BY <2>1, <2>6, NoTradeSound, SetKeeps DEF Set
  <1> QED BY <1>2, <1>3, <1>4, <1>5, <1>6

\* The steps that prepare a listing, and a dialog that is left.
LEMMA ListingStep ==
    ASSUME TInv, NEW a \in Traders, AskToList(a) \/ PrepareList(a) \/ Leave(a)
    PROVE  TInv'
  <1> DEFINE t == trade[a]
  <1>1. Sound(t) /\ ledger \in Nat
    BY DEF TInv, LedgerInv
  <1>2. CASE AskToList(a)
    <2> DEFINE r(l, p, life) == [step |-> "asked", buy |-> FALSE, price |-> p, expires |-> ledger + life,
                                 fee |-> past[l].config.fee, asset |-> past[l].config.asset]
    <2>1. PICK l \in Nodes, p \in Prices, life \in Lifetimes : Set(a, r(l, p, life))
      BY <1>2 DEF AskToList
    <2>2. Sound(r(l, p, life))
      BY <1>1, TradeAssumption DEF Sound
    <2> QED BY <2>1, <2>2, SetKeeps DEF Set
  <1>3. CASE PrepareList(a)
    <2> DEFINE tx == [by |-> a, buy |-> FALSE, price |-> t.price, expires |-> t.expires,
                      fee |-> t.fee, asset |-> t.asset, until |-> ledger + Validity]
               r == [step |-> "prepared", tx |-> tx]
    <2>1. Set(a, r) \/ Set(a, NoTrade)
      BY <1>3 DEF PrepareList
    <2>2. Signable(tx)
      BY <1>1, <1>3, TradeAssumption DEF Signable, Sound, PrepareList
    <2>3. Sound(r)
      BY <2>2 DEF Sound
    <2> QED BY <2>1, <2>3, NoTradeSound, SetKeeps DEF Set
  <1>4. CASE Leave(a)
    BY <1>4, NoTradeSound, SetKeeps DEF Leave, Set
  <1> QED BY <1>2, <1>3, <1>4

\* The wallet signs what was prepared, unless it expired.
LEMMA SigningStep == ASSUME TInv, NEW a \in Traders, SignTrade(a) PROVE TInv'
  <1>1. UNCHANGED <<onChain, indexedTo, done>> /\ trade' = [trade EXCEPT ![a] = NoTrade]
    BY DEF SignTrade
  <1>2. LedgerInv'
    BY <1>1 DEF TInv, LedgerInv, Wrote, Row, onChain
  <1>3. Keeps
    BY <1>1 DEF Keeps, Row, onChain
  <1>4. trade' = [u \in Traders |-> trade'[u]] /\ \A u \in Traders : Sound(trade[u])'
    <2>1. \A x : Sound(x) => Sound(x)'
      BY <1>3, SoundKept
    <2>2. trade' = [u \in Traders |-> IF u = a THEN NoTrade ELSE trade[u]]
      BY <1>1 DEF TInv
    <2>3. \A u \in Traders : Sound(trade[u])'
      <3>1. SUFFICES ASSUME NEW u \in Traders PROVE Sound(trade[u])'
        OBVIOUS
      <3>2. PICK x : x = trade'[u]
        OBVIOUS
      <3>3. Sound(x)'
        BY <2>1, <2>2, <3>2, NoTradeSound DEF TInv
      <3> QED BY <3>2, <3>3 DEF Sound
    <2> QED BY <2>2, <2>3
  <1>5. \A tx \in txs' : Signable(tx) /\ tx.until >= ledger
    BY DEF TInv, Sound, SignTrade
  <1>6. \A tx \in txs' : Signable(tx)' /\ (tx.until >= ledger)'
    BY <1>1, <1>3, <1>5, SignableKept DEF onChain
  <1>7. DoneInv'
    BY <1>1, <1>3, DoneKept DEF TInv
  <1> QED BY <1>2, <1>4, <1>6, <1>7 DEF TInv

\* A purchase lands, or fails.
LEMMA LandBuyStep == ASSUME TInv, NEW tx \in txs, LandBuy(tx) PROVE TInv'
  <1>1. UNCHANGED <<ledger, config, past, indexedTo, trade>> /\ txs' = txs \ {tx} /\ tx.buy
    BY DEF LandBuy
  <1>2. \A x \in txs' : x.until >= ledger'
    BY <1>1 DEF TInv
  <1>3. CASE Buyable(tx.max, tx.authorized)
    <2>1. Closing(tx.by) /\ done' = [tx |-> tx, paid |-> Payments(listing)]
      BY <1>3 DEF LandBuy
    <2>2. tx.by \in Accounts /\ listing # None /\ Signable(tx)
      BY <1>3, TradeAssumption DEF TInv, Signable, Buyable
    <2>3. LedgerInv' /\ Keeps
      BY <1>1, <2>1, <2>2, ClosingKeeps
    <2>4. Signable(tx)'
      BY <2>2, <2>3, SignableKept
    <2>5. DoneInv'
      BY <1>1, <1>3, <2>1, <2>4 DEF DoneInv, Signable, Buyable
    <2> QED BY <1>1, <1>2, <2>3, <2>5, ChainKeeps
  <1>4. CASE ~Buyable(tx.max, tx.authorized)
    <2>1. UNCHANGED <<listing, owner, created, events, done>>
      BY <1>4 DEF LandBuy
    <2>2. LedgerInv' /\ Keeps
      BY <1>1, <2>1 DEF TInv, LedgerInv, Wrote, Row, Keeps
    <2>3. DoneInv'
      BY <2>1, <2>2, DoneKept DEF TInv
    <2> QED BY <1>1, <1>2, <2>2, <2>3, ChainKeeps
  <1> QED BY <1>3, <1>4

\* A listing lands, or fails.
LEMMA LandListStep == ASSUME TInv, NEW tx \in txs, LandList(tx) PROVE TInv'
  <1>1. UNCHANGED <<ledger, config, past, indexedTo, trade>> /\ txs' = txs \ {tx} /\ ~tx.buy
    BY DEF LandList
  <1>2. \A x \in txs' : x.until >= ledger'
    BY <1>1 DEF TInv
  <1>3. CASE Listable(tx.by, tx.fee, tx.asset, tx.expires)
    <2>1. /\ ListNow(tx.by, tx.price, tx.expires)
          /\ done' = [tx |-> tx, listed |-> Len(created) + 1]
          /\ config.fee <= tx.fee /\ config.asset = tx.asset
      BY <1>3 DEF LandList, Listable
    <2>2. tx.by \in Accounts /\ tx.price \in Prices /\ tx.expires \in Nat
      BY <1>1, TradeAssumption DEF TInv, Signable
    <2>3. /\ LedgerInv' /\ Keeps
          /\ Len(created) + 1 \in DOMAIN created'
          /\ created'[Len(created) + 1].price = tx.price
          /\ created'[Len(created) + 1].asset = config.asset
          /\ created'[Len(created) + 1].fee = config.fee
      BY <1>1, <2>1, <2>2, ListingKeeps
    <2>4. DoneInv'
      BY <1>1, <2>1, <2>3 DEF DoneInv
    <2> QED BY <1>1, <1>2, <2>3, <2>4, ChainKeeps
  <1>4. CASE ~Listable(tx.by, tx.fee, tx.asset, tx.expires)
    <2>1. UNCHANGED <<listing, owner, created, events, done>>
      BY <1>4 DEF LandList
    <2>2. LedgerInv' /\ Keeps
      BY <1>1, <2>1 DEF TInv, LedgerInv, Wrote, Row, Keeps
    <2>3. DoneInv'
      BY <2>1, <2>2, DoneKept DEF TInv
    <2> QED BY <1>1, <1>2, <2>2, <2>3, ChainKeeps
  <1> QED BY <1>3, <1>4

\* The initial states.
LEMMA TradeStarts == ASSUME TradeInit PROVE TInv
  <1>1. created = <<>> /\ past = <<>> /\ DOMAIN created = {} /\ DOMAIN past = {}
    BY DEF TradeInit
  <1>2. created \in Seq(Creations) /\ past \in Seq(Snapshots) /\ Len(past) = 0
    BY <1>1
  <1>3. config \in Settings
    <2>1. PICK fee \in Fees, asset \in Assets, paused \in {FALSE}, changes \in {0} :
            config = [fee |-> fee, asset |-> asset, paused |-> paused, changes |-> changes]
      BY Zenon DEF TradeInit
    <2>2. paused \in BOOLEAN /\ changes \in Nat
      OBVIOUS
    <2> QED BY <2>1, <2>2 DEF Settings
  <1>4. LedgerInv
    BY <1>1, <1>2, <1>3, TradeAssumption DEF TradeInit, LedgerInv
  <1>5. trade = [a \in Traders |-> trade[a]] /\ \A a \in Traders : Sound(trade[a])
    BY NoTradeSound DEF TradeInit
  <1> QED BY <1>4, <1>5 DEF TradeInit, TInv, DoneInv

-----------------------------------------------------------------------------

\* A resale through the application keeps the contract, what its closed ledgers show, and what
\* each dialog, each signed transaction and the last one that landed know of them together.
THEOREM TradeInvariant == TradeSpec => []TInv
  <1>1. ASSUME TInv, [TradeNext]_tradeVars PROVE TInv'
    <2>1. CASE UNCHANGED tradeVars
      <3>1. UNCHANGED <<ledger, config, owner, listing, created, past, events, indexedTo, trade, txs, done>>
        BY <2>1 DEF tradeVars, onChain
      <3>2. LedgerInv' /\ Keeps
        BY <1>1, <3>1 DEF TInv, LedgerInv, Wrote, Row, Keeps
      <3>3. DoneInv'
        BY <1>1, <3>1, <3>2, DoneKept DEF TInv
      <3> QED BY <1>1, <3>1, <3>2, <3>3, ChainKeeps DEF TInv
    <2>2. CASE Close \/ SetTerms \/ CancelOrExpire \/ Index \/ \E a \in Accounts : List(a) \/ Buy(a)
      BY <1>1, <2>2, CloseStep, OtherStep, OthersStep
    <2>3. CASE \E a \in Traders :
                  \/ AskToBuy(a) \/ ReadListing(a) \/ SimulateBuy(a) \/ Prove(a) \/ Recheck(a)
                  \/ AskToList(a) \/ PrepareList(a) \/ SignTrade(a) \/ Leave(a)
      BY <1>1, <2>3, BuyingStep, ListingStep, SigningStep
    <2>4. CASE \E tx \in txs : LandBuy(tx) \/ LandList(tx)
      BY <1>1, <2>4, LandBuyStep, LandListStep
    <2> QED BY <1>1, <2>1, <2>2, <2>3, <2>4 DEF TradeNext
  <1> QED BY <1>1, TradeStarts, PTL DEF TradeSpec

\* What is traded is what was reviewed: whatever the nodes answered, however the token was listed,
\* sold and listed again, and whatever governance changed meanwhile.
THEOREM TradeHolds == TradeSpec => []TradeInv
  BY TradeInvariant, TradeInvFollows, PTL

-----------------------------------------------------------------------------
(* From the chain's events to the pages. The invariant has two parts. The  *)
(* story: what the log says of a DAO, a slug or a module is what the chain *)
(* holds of it, and the log is in such an order that an address is named   *)
(* by the Manager no later than in the transaction in which it first       *)
(* speaks. The pipe: the allowlists know what the events read so far name, *)
(* a row has the role its contract has for good, and nothing due is        *)
(* missing. The views then read the log itself.                            *)

\* The events by what they are about: a DAO and its slug, a module's deployment, a Token's registry,
\* and what a module itself emits.
LinkNames ==
    {"dao_created", "slug_claimed", "slug_released", "pending_slug_updated", "slug_changed",
     "assurance_opened", "dao_launched"}
HoldNames == {"slug_claimed", "slug_changed", "slug_released"}
RequestNames == {"dao_created", "pending_slug_updated"}
BuildNames == {"dao_created_module", "module_created"}
RegistryNames == {"module_registered", "module_unregistered"}
OwnNames == {"initialized", "sale"}

\* What a call emits, and what the log keeps of it.
Facts ==
    [at : {"manager"} \cup Daos \cup Modules,
     name : LinkNames \cup BuildNames \cup RegistryNames \cup OwnNames \cup {"token_initialized"},
     dao : Daos \cup {Nothing},
     what : {Nothing} \cup Daos \cup Modules \cup Slugs \cup (Slugs \X Slugs)]
Entries ==
    [tx : Nat, at : {"manager"} \cup Daos \cup Modules,
     name : LinkNames \cup BuildNames \cup RegistryNames \cup OwnNames \cup {"token_initialized"},
     dao : Daos \cup {Nothing},
     what : {Nothing} \cup Daos \cup Modules \cup Slugs \cup (Slugs \X Slugs)]

\* Who emits what about whom.
Proper(e) ==
    /\ e.name \in LinkNames => e.at = "manager" /\ e.dao \in Daos
    /\ e.name \in BuildNames => e.at = "manager" /\ e.what \in Built
    /\ e.name \in RegistryNames => e.at \in Daos /\ e.dao = e.at /\ e.what \in Modules
    /\ e.name \in OwnNames => e.at \in Modules
    /\ e.name = "token_initialized" => e.at \in Daos

Latest(S, i) == i \in S /\ \A j \in S : j <= i

Creates(i, d) == log[i].name = "dao_created" /\ log[i].dao = d
Builds(i, m) == log[i].name \in BuildNames /\ log[i].what = m

\* The log is in the order of its transactions; a Token's event comes in or after the transaction
\* that creates its DAO, and that of a module the Manager deploys in or after the one that does.
LogInv ==
    /\ log \in Seq(Entries)
    /\ \A i \in DOMAIN log : Proper(log[i])
    /\ \A i, j \in DOMAIN log : i <= j => log[i].tx <= log[j].tx
    /\ \A i \in DOMAIN log :
        /\ log[i].at \in Daos => \E k \in DOMAIN log : Creates(k, log[i].at) /\ log[k].tx <= log[i].tx
        /\ log[i].at \in Built => \E k \in DOMAIN log : Builds(k, log[i].at) /\ log[k].tx <= log[i].tx
        /\ log[i].name = "module_registered" /\ log[i].what \in Built =>
            \E k \in DOMAIN log : Builds(k, log[i].what) /\ log[k].tx <= log[i].tx

Rows(d, names) == {i \in DOMAIN log : log[i].name \in names /\ log[i].dao = d}

Target(e) == IF e.name = "slug_changed" THEN e.what[2] ELSE e.what

\* What the log says of a DAO is what the chain holds of it.
DaoInv(d) ==
    /\ stage[d] = "none" => registry[d] = {} /\ Rows(d, LinkNames) = {}
    /\ stage[d] # "none" => slug[d] \in Slugs /\ Rows(d, {"dao_created"}) # {}
    /\ stage[d] = "pending" => Rows(d, HoldNames \cup {"assurance_opened", "dao_launched"}) = {}
    /\ stage[d] \in {"driving", "live"} =>
        /\ held[slug[d]] = d
        /\ \E i \in DOMAIN log : /\ Latest(Rows(d, HoldNames), i)
                                 /\ log[i].name # "slug_released" /\ Target(log[i]) = slug[d]
    /\ stage[d] = "released" =>
        \E i \in DOMAIN log : Latest(Rows(d, HoldNames), i) /\ log[i].name = "slug_released"
    /\ stage[d] \in {"pending", "driving", "released"} =>
        \E i \in DOMAIN log : Latest(Rows(d, RequestNames), i) /\ log[i].what = slug[d]
    /\ stage[d] = "driving" =>
        /\ Rows(d, {"slug_released", "dao_launched"}) = {}
        /\ \E o \in DOMAIN log : Latest(Rows(d, {"assurance_opened"}), o)
    /\ stage[d] = "released" =>
        /\ Rows(d, {"dao_launched"}) = {}
        /\ \E o, i \in DOMAIN log : /\ Latest(Rows(d, {"assurance_opened"}), o)
                                    /\ i \in Rows(d, {"slug_released"}) /\ i > o
    /\ stage[d] = "live" => Rows(d, {"dao_launched"}) # {}

Moves(s) == {i \in DOMAIN log : log[i].name = "slug_changed" /\ log[i].what[1] = s}

\* The same of a slug.
SlugInv(s) ==
    /\ held[s] # Nothing => slug[held[s]] = s /\ stage[held[s]] \in {"driving", "live"}
    /\ moved[s] = Nothing => Moves(s) = {}
    /\ moved[s] # Nothing => \E i \in DOMAIN log : Latest(Moves(s), i) /\ log[i].dao = moved[s]

Regs(d, m) == {i \in DOMAIN log : log[i].name = "module_registered" /\ log[i].dao = d /\ log[i].what = m}
Unregs(d, m) == {i \in DOMAIN log : log[i].name = "module_unregistered" /\ log[i].dao = d /\ log[i].what = m}

\* A registration that was not undone.
Stands(d, m) == \E g \in Regs(d, m) : \A u \in Unregs(d, m) : u < g

\* One that was not undone when event i happened.
StoodAt(d, m, i) ==
    \E g \in Regs(d, m) : log[g].tx <= log[i].tx /\ \A u \in Unregs(d, m) : u > g => u > i

\* The same of modules, and of their own events.
ModuleInv ==
    /\ \A d \in Daos, m \in Modules : m \in registry[d] <=> Stands(d, m)
    /\ author \in [{i \in DOMAIN log : log[i].at \in Modules} -> SUBSET Daos]
    /\ \A i \in DOMAIN log, d \in Daos, m \in Modules :
        log[i].at = m => (d \in author[i] <=> StoodAt(d, m, i))

ChainTypes ==
    /\ stage \in [Daos -> {"none", "pending", "driving", "released", "live"}]
    /\ slug \in [Daos -> Slugs \cup {Nothing}]
    /\ held \in [Slugs -> Daos \cup {Nothing}] /\ moved \in [Slugs -> Daos \cup {Nothing}]
    /\ registry \in [Daos -> SUBSET Modules]

StoryInv ==
    /\ ChainTypes /\ LogInv /\ ModuleInv
    /\ \A d \in Daos : DaoInv(d)
    /\ \A s \in Slugs : SlugInv(s)

TablesOK(ts) ==
    /\ ts \in [Roles -> SUBSET (Daos \cup Modules)]
    /\ ts["token"] \subseteq Daos /\ ts["built"] \subseteq Built /\ ts["module"] \subseteq Modules
    /\ ts["module"] \cap Built \subseteq ts["built"]

\* The allowlists know whatever the events up to n name.
Knows(ts, n) ==
    \A k \in 1 .. n :
        /\ log[k].name = "dao_created" => log[k].dao \in ts["token"]
        /\ log[k].name \in BuildNames => log[k].what \in ts["built"]
        /\ log[k].name = "module_registered" => log[k].what \in ts["module"]

\* Whether event i is the index's business: not that of a contract nobody has registered yet.
Due(i) ==
    log[i].at \in Foreign =>
        \E g \in DOMAIN log : /\ log[g].name = "module_registered" /\ log[g].what = log[i].at
                              /\ log[g].tx <= log[i].tx

\* Rows have the role their contract has for good, and none is missing of what was read.
PipeInv ==
    /\ offset \in 0 .. Len(log)
    /\ TablesOK(tables) /\ Knows(tables, offset)
    /\ \A r \in decoded :
        r.at \in DOMAIN log /\ r.role = Role(tables, log[r.at].at) /\ r.role # "unknown"
    /\ \A r \in feed :
        /\ r.at \in DOMAIN log /\ r.role = Role(tables, log[r.at].at) /\ r.role # "unknown"
        /\ r.visibility = Visibility(log[r.at].name, r.role)
    /\ \A i \in 1 .. offset : Due(i) => (\E r \in decoded : r.at = i) /\ (\E r \in feed : r.at = i)

IndexInv == StoryInv /\ PipeInv


-----------------------------------------------------------------------------
(* The log.                                                                *)

\* The step appends es to the log as one transaction.
Adds(es) ==
    /\ es \in Seq(Facts) /\ log' \in Seq(Entries) /\ Len(log') = Len(log) + Len(es)
    /\ \A i \in DOMAIN log : log'[i] = log[i]
    /\ \A j \in DOMAIN es : LET e == log'[Len(log) + j] IN
        /\ e.tx = Txs + 1
        /\ e.at = es[j].at /\ e.name = es[j].name /\ e.dao = es[j].dao /\ e.what = es[j].what

\* The places of the log.
LEMMA Places ==
    ASSUME LogInv
    PROVE  /\ Len(log) \in Nat /\ DOMAIN log = 1 .. Len(log) /\ Txs \in Nat
           /\ \A i \in DOMAIN log : log[i] \in Entries /\ log[i].tx \in Nat /\ log[i].tx <= Txs
  <1>1. Len(log) \in Nat /\ DOMAIN log = 1 .. Len(log) /\ \A i \in DOMAIN log : log[i] \in Entries
    BY DEF LogInv
  <1>2. \A i \in DOMAIN log : log[i].tx \in Nat
    BY <1>1 DEF Entries
  <1>3. CASE log = <<>>
    BY <1>1, <1>2, <1>3 DEF Txs
  <1>4. CASE log # <<>>
    <2>1. Len(log) \in DOMAIN log
      BY <1>1, <1>4 DEF LogInv
    <2>2. Txs = log[Len(log)].tx
      BY <1>4 DEF Txs, Last
    <2> QED BY <1>1, <1>2, <2>1, <2>2 DEF LogInv
  <1> QED BY <1>3, <1>4

\* Emit appends.
LEMMA EmitAdds == ASSUME LogInv, NEW es \in Seq(Facts), Emit(es) PROVE Adds(es)
  <1> DEFINE new == [i \in 1 .. Len(es) |->
                        [tx |-> Txs + 1, at |-> es[i].at, name |-> es[i].name,
                         dao |-> es[i].dao, what |-> es[i].what]]
  <1>1. log' = log \o new
    BY DEF Emit
  <1>2. \A i \in 1 .. Len(es) : es[i] \in Facts
    OBVIOUS
  <1>3. \A i \in 1 .. Len(es) : new[i] \in Entries
    BY <1>2, Places DEF Facts, Entries
  <1>4. new \in Seq(Entries) /\ Len(new) = Len(es) /\ DOMAIN new = 1 .. Len(es)
    <2>1. Len(es) \in Nat
      OBVIOUS
    <2>2. new \in [1 .. Len(es) -> Entries]
      BY <1>3
    <2> HIDE DEF new
    <2> QED BY <2>1, <2>2
  <1>5. \A j \in DOMAIN es :
            /\ new[j].tx = Txs + 1
            /\ new[j].at = es[j].at /\ new[j].name = es[j].name /\ new[j].dao = es[j].dao
            /\ new[j].what = es[j].what
    OBVIOUS
  <1> HIDE DEF new
  <1>6. log \in Seq(Entries)
    BY DEF LogInv
  <1>7. log' \in Seq(Entries) /\ Len(log') = Len(log) + Len(es)
    <2>1. log \o new \in Seq(Entries) /\ Len(log \o new) = Len(log) + Len(new)
      BY <1>4, <1>6, ConcatProperties
    <2> QED BY <1>1, <1>4, <2>1
  <1>8. \A i \in DOMAIN log : log'[i] = log[i]
    BY <1>1, <1>4, <1>6
  <1>9. \A j \in DOMAIN es : log'[Len(log) + j] = new[j]
    BY <1>1, <1>4, <1>6
  <1> QED BY <1>5, <1>7, <1>8, <1>9 DEF Adds

\* The places of the log after a step.
LEMMA NewPlaces ==
    ASSUME LogInv, NEW es, Adds(es)
    PROVE  /\ Len(es) \in Nat /\ DOMAIN es = 1 .. Len(es) /\ DOMAIN log' = 1 .. Len(log) + Len(es)
           /\ DOMAIN log \subseteq DOMAIN log'
           /\ \A j \in DOMAIN es : Len(log) + j \in DOMAIN log' /\ Len(log) + j > Len(log)
           /\ \A n \in DOMAIN log' : n \in DOMAIN log \/ \E j \in DOMAIN es : n = Len(log) + j
           /\ \A i \in DOMAIN log : log'[i] = log[i] /\ log[i].tx < Txs + 1 /\ i <= Len(log) /\ i \in Nat
  <1>1. Len(es) \in Nat /\ DOMAIN es = 1 .. Len(es) /\ DOMAIN log' = 1 .. Len(log')
    BY DEF Adds
  <1>2. \A n \in DOMAIN log' : n \in DOMAIN log \/ \E j \in DOMAIN es : n = Len(log) + j
    <2>1. SUFFICES ASSUME NEW n \in DOMAIN log', n \notin DOMAIN log PROVE n - Len(log) \in DOMAIN es
      BY <1>1, Places DEF Adds
    <2> QED BY <1>1, <2>1, Places DEF Adds
  <1> QED BY <1>1, <1>2, Places DEF Adds

\* A step whose events are proper, and come with or after what they rest on, keeps the log.
LEMMA LogStep ==
    ASSUME LogInv, NEW es, Adds(es), \A j \in DOMAIN es : Proper(es[j]),
           \A j \in DOMAIN es :
            /\ es[j].at \in Daos =>
                \/ \E k \in DOMAIN es : es[k].name = "dao_created" /\ es[k].dao = es[j].at
                \/ \E k \in DOMAIN log : Creates(k, es[j].at)
            /\ \A m \in Built : es[j].at = m \/ (es[j].name = "module_registered" /\ es[j].what = m) =>
                \/ \E k \in DOMAIN es : es[k].name \in BuildNames /\ es[k].what = m
                \/ \E k \in DOMAIN log : Builds(k, m)
    PROVE  LogInv'
  <1> USE NewPlaces, Places
  <1>1. log' \in Seq(Entries)
    BY DEF Adds
  <1>2. \A n \in DOMAIN log' : Proper(log'[n])
    <2>1. \A j \in DOMAIN es : Proper(log'[Len(log) + j])
      BY DEF Proper, Adds
    <2>2. \A i \in DOMAIN log : Proper(log[i])
      BY DEF LogInv
    <2> QED BY <2>1, <2>2
  <1>3. \A n \in DOMAIN log' : log'[n].tx <= Txs + 1 /\ (n \notin DOMAIN log => log'[n].tx = Txs + 1)
    <2>1. \A j \in DOMAIN es : log'[Len(log) + j].tx = Txs + 1
      BY DEF Adds
    <2>2. \A i \in DOMAIN log : log'[i].tx <= Txs + 1
      OBVIOUS
    <2> QED BY <2>1, <2>2
  <1>4. \A i, j \in DOMAIN log' : i <= j => log'[i].tx <= log'[j].tx
    <2>1. SUFFICES ASSUME NEW i \in DOMAIN log', NEW j \in DOMAIN log', i <= j PROVE log'[i].tx <= log'[j].tx
      OBVIOUS
    <2>2. CASE j \in DOMAIN log
      <3>1. i \in DOMAIN log
        BY <2>1, <2>2
      <3> QED BY <2>1, <2>2, <3>1 DEF LogInv
    <2>3. CASE j \notin DOMAIN log
      BY <1>3, <2>3
    <2> QED BY <2>2, <2>3
  <1>5. ASSUME NEW k \in DOMAIN log, NEW n \in DOMAIN log', n \notin DOMAIN log
        PROVE  log'[k] = log[k] /\ log'[k].tx <= log'[n].tx
    BY <1>3, <1>5
  <1>6. ASSUME NEW n \in DOMAIN log', log'[n].at \in Daos
        PROVE  \E k \in DOMAIN log' : Creates(k, log[n].at)' /\ log'[k].tx <= log'[n].tx
    <2>1. CASE n \in DOMAIN log
      <3>1. PICK k \in DOMAIN log : Creates(k, log[n].at) /\ log[k].tx <= log[n].tx
        BY <1>6, <2>1 DEF LogInv
      <3> QED BY <2>1, <3>1 DEF Creates
    <2>2. CASE n \notin DOMAIN log
      <3>1. PICK j \in DOMAIN es : n = Len(log) + j
        BY <2>2
      <3>2. log'[n].at = es[j].at /\ log'[n].tx = Txs + 1
        BY <3>1 DEF Adds
      <3>3. CASE \E k \in DOMAIN es : es[k].name = "dao_created" /\ es[k].dao = es[j].at
        <4>1. PICK k \in DOMAIN es : es[k].name = "dao_created" /\ es[k].dao = es[j].at
          BY <3>3
        <4>2. log'[Len(log) + k].name = "dao_created" /\ log'[Len(log) + k].dao = es[j].at
              /\ log'[Len(log) + k].tx = Txs + 1
          BY <4>1 DEF Adds
        <4> QED BY <3>2, <4>2 DEF Creates
      <3>4. CASE \E k \in DOMAIN log : Creates(k, es[j].at)
        BY <1>5, <2>2, <3>2, <3>4 DEF Creates
      <3> QED BY <1>6, <3>2, <3>3, <3>4
    <2> QED BY <2>1, <2>2
  <1>7. ASSUME NEW n \in DOMAIN log', NEW m \in Built,
               log'[n].at = m \/ (log'[n].name = "module_registered" /\ log'[n].what = m)
        PROVE  \E k \in DOMAIN log' : Builds(k, m)' /\ log'[k].tx <= log'[n].tx
    <2>1. CASE n \in DOMAIN log
      <3>1. PICK k \in DOMAIN log : Builds(k, m) /\ log[k].tx <= log[n].tx
        BY <1>7, <2>1 DEF LogInv
      <3> QED BY <2>1, <3>1 DEF Builds
    <2>2. CASE n \notin DOMAIN log
      <3>1. PICK j \in DOMAIN es : n = Len(log) + j
        BY <2>2
      <3>2. log'[n].at = es[j].at /\ log'[n].name = es[j].name /\ log'[n].what = es[j].what
            /\ log'[n].tx = Txs + 1
        BY <3>1 DEF Adds
      <3>3. CASE \E k \in DOMAIN es : es[k].name \in BuildNames /\ es[k].what = m
        <4>1. PICK k \in DOMAIN es : es[k].name \in BuildNames /\ es[k].what = m
          BY <3>3
        <4>2. log'[Len(log) + k].name \in BuildNames /\ log'[Len(log) + k].what = m
              /\ log'[Len(log) + k].tx = Txs + 1
          BY <4>1 DEF Adds
        <4> QED BY <3>2, <4>2 DEF Builds
      <3>4. CASE \E k \in DOMAIN log : Builds(k, m)
        BY <1>5, <2>2, <3>2, <3>4 DEF Builds
      <3> QED BY <1>7, <3>2, <3>3, <3>4
    <2> QED BY <2>1, <2>2
  <1>8. \A n \in DOMAIN log' :
          log'[n].at \in Built => \E k \in DOMAIN log' : Builds(k, log[n].at)' /\ log'[k].tx <= log'[n].tx
    BY <1>7 DEF Builds
  <1>9. \A n \in DOMAIN log' : log'[n].name = "module_registered" /\ log'[n].what \in Built =>
            \E k \in DOMAIN log' : Builds(k, log[n].what)' /\ log'[k].tx <= log'[n].tx
    BY <1>7 DEF Builds
  <1> QED BY <1>1, <1>2, <1>4, <1>6, <1>8, <1>9 DEF LogInv


-----------------------------------------------------------------------------
(* What the log says of a DAO, of a slug and of a module after a step.     *)

\* Rows a step adds nothing to.
LEMMA RowsKept ==
    ASSUME LogInv, NEW es, Adds(es), NEW d, NEW N,
           \A j \in DOMAIN es : ~(es[j].name \in N /\ es[j].dao = d)
    PROVE  Rows(d, N)' = Rows(d, N)
  <1>1. \A j \in DOMAIN es :
            log'[Len(log) + j].name = es[j].name /\ log'[Len(log) + j].dao = es[j].dao
    BY DEF Adds
  <1> QED BY <1>1, NewPlaces DEF Rows

\* The last row a step adds is the latest.
LEMMA RowsNew ==
    ASSUME LogInv, NEW es, Adds(es), NEW d, NEW N, NEW j \in DOMAIN es, NEW n, n = Len(log) + j,
           es[j].name \in N, es[j].dao = d,
           \A k \in DOMAIN es : es[k].name \in N /\ es[k].dao = d => k <= j
    PROVE  Latest(Rows(d, N)', n)
  <1>1. \A k \in DOMAIN es :
            log'[Len(log) + k].name = es[k].name /\ log'[Len(log) + k].dao = es[k].dao
    BY DEF Adds
  <1>2. n \in Rows(d, N)'
    BY <1>1, NewPlaces DEF Rows
  <1>3. ASSUME NEW i \in Rows(d, N)' PROVE i <= n
    <2>1. i \in DOMAIN log' /\ log'[i].name \in N /\ log'[i].dao = d
      BY DEF Rows
    <2>2. CASE i \in DOMAIN log
      BY <2>2, NewPlaces, Places
    <2>3. ASSUME NEW k \in DOMAIN es, i = Len(log) + k PROVE i <= n
      <3>1. k <= j
        BY <1>1, <2>1, <2>3
      <3> QED BY <2>3, <3>1, NewPlaces, Places
    <2> QED BY <2>1, <2>2, <2>3, NewPlaces
  <1> QED BY <1>2, <1>3 DEF Latest

\* No row goes away.
LEMMA RowsGrow ==
    ASSUME LogInv, NEW es, Adds(es), NEW d, NEW N PROVE Rows(d, N) \subseteq Rows(d, N)'
  BY NewPlaces DEF Rows

\* A DAO that a step does not name, or not about its life.
LEMMA DaoKept ==
    ASSUME LogInv, NEW es, Adds(es), NEW d, DaoInv(d),
           stage'[d] = stage[d], slug'[d] = slug[d],
           stage[d] \in {"driving", "live"} => held'[slug[d]] = held[slug[d]],
           stage[d] = "none" => registry'[d] = registry[d],
           \A j \in DOMAIN es : ~(es[j].name \in LinkNames /\ es[j].dao = d)
    PROVE  DaoInv(d)'
  <1>1. ASSUME NEW N \in SUBSET LinkNames PROVE Rows(d, N)' = Rows(d, N)
    BY RowsKept
  <1>2. /\ LinkNames \subseteq LinkNames /\ {"dao_created"} \subseteq LinkNames
        /\ HoldNames \cup {"assurance_opened", "dao_launched"} \subseteq LinkNames
        /\ HoldNames \subseteq LinkNames /\ RequestNames \subseteq LinkNames
        /\ {"slug_released", "dao_launched"} \subseteq LinkNames
        /\ {"assurance_opened"} \subseteq LinkNames /\ {"dao_launched"} \subseteq LinkNames
        /\ {"slug_released"} \subseteq LinkNames
    BY DEF LinkNames, HoldNames, RequestNames
  <1>3. \A i \in DOMAIN log : i \in DOMAIN log' /\ log'[i] = log[i]
    BY NewPlaces
  <1>4. Rows(d, LinkNames)' = Rows(d, LinkNames) /\ Rows(d, {"dao_created"})' = Rows(d, {"dao_created"})
    BY <1>1, <1>2
  <1>5. Rows(d, HoldNames \cup {"assurance_opened", "dao_launched"})' =
            Rows(d, HoldNames \cup {"assurance_opened", "dao_launched"})
    BY <1>1, <1>2
  <1>6. Rows(d, HoldNames)' = Rows(d, HoldNames) /\ Rows(d, RequestNames)' = Rows(d, RequestNames)
    BY <1>1, <1>2
  <1>7. /\ Rows(d, {"slug_released", "dao_launched"})' = Rows(d, {"slug_released", "dao_launched"})
        /\ Rows(d, {"assurance_opened"})' = Rows(d, {"assurance_opened"})
    BY <1>1, <1>2
  <1>8. /\ Rows(d, {"dao_launched"})' = Rows(d, {"dao_launched"})
        /\ Rows(d, {"slug_released"})' = Rows(d, {"slug_released"})
    BY <1>1, <1>2
  <1>9. stage'[d] = "none" => registry'[d] = {} /\ Rows(d, LinkNames)' = {}
    BY <1>4 DEF DaoInv
  <1>10. stage'[d] # "none" => slug'[d] \in Slugs /\ Rows(d, {"dao_created"})' # {}
    BY <1>4 DEF DaoInv
  <1>11. stage'[d] = "pending" => Rows(d, HoldNames \cup {"assurance_opened", "dao_launched"})' = {}
    BY <1>5 DEF DaoInv
  <1>12. stage'[d] \in {"driving", "live"} =>
            /\ held'[slug'[d]] = d
            /\ \E i \in DOMAIN log' : /\ Latest(Rows(d, HoldNames)', i)
                                      /\ log'[i].name # "slug_released" /\ Target(log'[i]) = slug'[d]
    BY <1>3, <1>6 DEF DaoInv
  <1>13. stage'[d] = "released" =>
            \E i \in DOMAIN log' : Latest(Rows(d, HoldNames)', i) /\ log'[i].name = "slug_released"
    BY <1>3, <1>6 DEF DaoInv
  <1>14. stage'[d] \in {"pending", "driving", "released"} =>
            \E i \in DOMAIN log' : Latest(Rows(d, RequestNames)', i) /\ log'[i].what = slug'[d]
    BY <1>3, <1>6 DEF DaoInv
  <1>15. stage'[d] = "driving" =>
            /\ Rows(d, {"slug_released", "dao_launched"})' = {}
            /\ \E o \in DOMAIN log' : Latest(Rows(d, {"assurance_opened"})', o)
    BY <1>3, <1>7 DEF DaoInv
  <1>16. stage'[d] = "released" =>
            /\ Rows(d, {"dao_launched"})' = {}
            /\ \E o, i \in DOMAIN log' : /\ Latest(Rows(d, {"assurance_opened"})', o)
                                         /\ i \in Rows(d, {"slug_released"})' /\ i > o
    BY <1>3, <1>7, <1>8 DEF DaoInv
  <1>17. stage'[d] = "live" => Rows(d, {"dao_launched"})' # {}
    BY <1>8 DEF DaoInv
  <1> QED BY <1>9, <1>10, <1>11, <1>12, <1>13, <1>14, <1>15, <1>16, <1>17 DEF DaoInv, Target

\* A slug that nobody moves away from.
LEMMA SlugKept ==
    ASSUME LogInv, NEW es, Adds(es), NEW s, SlugInv(s), moved'[s] = moved[s],
           held'[s] # Nothing => slug'[held'[s]] = s /\ stage'[held'[s]] \in {"driving", "live"},
           \A j \in DOMAIN es : ~(es[j].name = "slug_changed" /\ es[j].what[1] = s)
    PROVE  SlugInv(s)'
  <1>1. \A j \in DOMAIN es :
            log'[Len(log) + j].name = es[j].name /\ log'[Len(log) + j].what = es[j].what
    BY DEF Adds
  <1>2. Moves(s)' = Moves(s)
    <2>1. \A n \in DOMAIN log : n \in DOMAIN log' /\ log'[n] = log[n]
      BY NewPlaces
    <2>2. \A n \in DOMAIN log' :
            n \notin DOMAIN log => ~(log'[n].name = "slug_changed" /\ log'[n].what[1] = s)
      <3>1. SUFFICES ASSUME NEW n \in DOMAIN log', n \notin DOMAIN log
                     PROVE  ~(log'[n].name = "slug_changed" /\ log'[n].what[1] = s)
        OBVIOUS
      <3>2. PICK j \in DOMAIN es : n = Len(log) + j
        BY <3>1, NewPlaces
      <3> QED BY <1>1, <3>2
    <2> QED BY <2>1, <2>2 DEF Moves
  <1>3. held'[s] # Nothing => slug'[held'[s]] = s /\ stage'[held'[s]] \in {"driving", "live"}
    OBVIOUS
  <1>4. moved'[s] = Nothing => Moves(s)' = {}
    BY <1>2 DEF SlugInv
  <1>5. moved'[s] # Nothing => \E i \in DOMAIN log' : Latest(Moves(s)', i) /\ log'[i].dao = moved'[s]
    <2>1. SUFFICES ASSUME moved[s] # Nothing
                   PROVE \E i \in DOMAIN log' : Latest(Moves(s)', i) /\ log'[i].dao = moved'[s]
      OBVIOUS
    <2>2. PICK i \in DOMAIN log : Latest(Moves(s), i) /\ log[i].dao = moved[s]
      BY <2>1 DEF SlugInv
    <2>3. i \in DOMAIN log' /\ log'[i] = log[i]
      BY NewPlaces
    <2> QED BY <1>2, <2>2, <2>3
  <1> QED BY <1>3, <1>4, <1>5 DEF SlugInv, Latest

\* Registrations after a step.
LEMMA StandsStep ==
    ASSUME LogInv, NEW es, Adds(es), NEW d, NEW m
    PROVE  LET r == \E j \in DOMAIN es : es[j].name = "module_registered" /\ es[j].dao = d /\ es[j].what = m
               u == \E j \in DOMAIN es : es[j].name = "module_unregistered" /\ es[j].dao = d /\ es[j].what = m
           IN  /\ ~r /\ ~u => (Stands(d, m)' <=> Stands(d, m))
               /\ r /\ ~u => Stands(d, m)'
               /\ ~r /\ u => ~Stands(d, m)'
               /\ ~u => Unregs(d, m)' = Unregs(d, m)
  <1>1. \A j \in DOMAIN es :
            /\ log'[Len(log) + j].name = es[j].name /\ log'[Len(log) + j].dao = es[j].dao
            /\ log'[Len(log) + j].what = es[j].what
    BY DEF Adds
  <1> DEFINE r == \E j \in DOMAIN es : es[j].name = "module_registered" /\ es[j].dao = d /\ es[j].what = m
             u == \E j \in DOMAIN es : es[j].name = "module_unregistered" /\ es[j].dao = d /\ es[j].what = m
  <1>2. ~r => Regs(d, m)' = Regs(d, m)
    <2>1. SUFFICES ASSUME ~r PROVE Regs(d, m)' = Regs(d, m)
      OBVIOUS
    <2>2. \A n \in DOMAIN log : n \in DOMAIN log' /\ log'[n] = log[n]
      BY NewPlaces
    <2>3. \A n \in DOMAIN log' : n \notin DOMAIN log =>
            ~(log'[n].name = "module_registered" /\ log'[n].dao = d /\ log'[n].what = m)
      <3>1. SUFFICES ASSUME NEW n \in DOMAIN log', n \notin DOMAIN log
                     PROVE ~(log'[n].name = "module_registered" /\ log'[n].dao = d /\ log'[n].what = m)
        OBVIOUS
      <3>2. PICK j \in DOMAIN es : n = Len(log) + j
        BY <3>1, NewPlaces
      <3> QED BY <1>1, <2>1, <3>2
    <2> QED BY <2>2, <2>3 DEF Regs
  <1>3. ~u => Unregs(d, m)' = Unregs(d, m)
    <2>1. SUFFICES ASSUME ~u PROVE Unregs(d, m)' = Unregs(d, m)
      OBVIOUS
    <2>2. \A n \in DOMAIN log : n \in DOMAIN log' /\ log'[n] = log[n]
      BY NewPlaces
    <2>3. \A n \in DOMAIN log' : n \notin DOMAIN log =>
            ~(log'[n].name = "module_unregistered" /\ log'[n].dao = d /\ log'[n].what = m)
      <3>1. SUFFICES ASSUME NEW n \in DOMAIN log', n \notin DOMAIN log
                     PROVE ~(log'[n].name = "module_unregistered" /\ log'[n].dao = d /\ log'[n].what = m)
        OBVIOUS
      <3>2. PICK j \in DOMAIN es : n = Len(log) + j
        BY <3>1, NewPlaces
      <3> QED BY <1>1, <2>1, <3>2
    <2> QED BY <2>2, <2>3 DEF Unregs
  <1>4. r => \E n \in Regs(d, m)' : n > Len(log)
    <2>1. SUFFICES ASSUME NEW j \in DOMAIN es, es[j].name = "module_registered", es[j].dao = d, es[j].what = m
                   PROVE  Len(log) + j \in Regs(d, m)' /\ Len(log) + j > Len(log)
      OBVIOUS
    <2>2. Len(log) + j \in DOMAIN log' /\ Len(log) + j > Len(log)
      BY NewPlaces
    <2> QED BY <1>1, <2>1, <2>2 DEF Regs
  <1>5. u => \E n \in Unregs(d, m)' : n > Len(log)
    <2>1. SUFFICES ASSUME NEW j \in DOMAIN es, es[j].name = "module_unregistered", es[j].dao = d, es[j].what = m
                   PROVE  Len(log) + j \in Unregs(d, m)' /\ Len(log) + j > Len(log)
      OBVIOUS
    <2>2. Len(log) + j \in DOMAIN log' /\ Len(log) + j > Len(log)
      BY NewPlaces
    <2> QED BY <1>1, <2>1, <2>2 DEF Unregs
  <1>6. \A n \in Regs(d, m) \cup Unregs(d, m) : n \in Nat /\ n <= Len(log)
    BY Places DEF Regs, Unregs
  <1> HIDE DEF r, u
  <1>7. r /\ ~u => Stands(d, m)'
    <2>1. SUFFICES ASSUME r, ~u PROVE \E g \in Regs(d, m)' : \A n \in Unregs(d, m)' : n < g
      BY DEF Stands
    <2>2. PICK g \in Regs(d, m)' : g > Len(log)
      BY <1>4, <2>1
    <2>3. g \in Nat
      BY NewPlaces, Places DEF Regs
    <2> QED BY <1>3, <1>6, <2>1, <2>2, <2>3, Places
  <1>8. ~r /\ u => ~Stands(d, m)'
    <2>1. SUFFICES ASSUME ~r, u PROVE ~ \E g \in Regs(d, m)' : \A n \in Unregs(d, m)' : n < g
      BY DEF Stands
    <2>2. PICK n \in Unregs(d, m)' : n > Len(log)
      BY <1>5, <2>1
    <2>3. n \in Nat
      BY NewPlaces, Places DEF Unregs
    <2> QED BY <1>2, <1>6, <2>1, <2>2, <2>3, Places
  <1>9. ~r /\ ~u => (Stands(d, m)' <=> Stands(d, m))
    BY <1>2, <1>3 DEF Stands
  <1> QED BY <1>3, <1>7, <1>8, <1>9 DEF r, u

\* What stood when an earlier event happened, still stood then.
LEMMA StoodKept ==
    ASSUME LogInv, NEW es, Adds(es), NEW d, NEW m, NEW i \in DOMAIN log
    PROVE  StoodAt(d, m, i)' <=> StoodAt(d, m, i)
  <1> USE NewPlaces, Places
  <1>1. \A n \in DOMAIN log : (n \in Regs(d, m)' <=> n \in Regs(d, m)) /\ (n \in Unregs(d, m)' <=> n \in Unregs(d, m))
    BY DEF Regs, Unregs
  <1>2. \A n \in DOMAIN log' : n \notin DOMAIN log => n > i /\ log'[n].tx > log[i].tx
    <2>1. \A j \in DOMAIN es : log'[Len(log) + j].tx = Txs + 1
      BY DEF Adds
    <2> QED BY <2>1
  <1>3. Regs(d, m) \subseteq DOMAIN log /\ Unregs(d, m) \subseteq DOMAIN log
    BY DEF Regs, Unregs
  <1>4. Regs(d, m)' \subseteq DOMAIN log' /\ Unregs(d, m)' \subseteq DOMAIN log'
    BY DEF Regs, Unregs
  <1>5. ASSUME StoodAt(d, m, i)
        PROVE \E g \in Regs(d, m)' : log'[g].tx <= log'[i].tx /\ \A u \in Unregs(d, m)' : u > g => u > i
    <2>1. PICK g \in Regs(d, m) : log[g].tx <= log[i].tx /\ \A u \in Unregs(d, m) : u > g => u > i
      BY <1>5 DEF StoodAt
    <2>2. g \in Regs(d, m)' /\ log'[g].tx <= log'[i].tx
      BY <1>1, <1>3, <2>1
    <2>3. \A u \in Unregs(d, m)' : u > g => u > i
      BY <1>1, <1>2, <1>4, <2>1
    <2> QED BY <2>2, <2>3
  <1>6. ASSUME NEW g \in Regs(d, m)', log'[g].tx <= log'[i].tx, \A u \in Unregs(d, m)' : u > g => u > i
        PROVE  StoodAt(d, m, i)
    <2>1. g \in DOMAIN log'
      BY <1>4
    <2>2. g \in DOMAIN log
      <3>2. log'[g] \in Entries
        BY <2>1 DEF Adds
      <3>3. log'[g].tx \in Nat
        BY <3>2 DEF Entries
      <3>1. log'[i].tx = log[i].tx /\ log[i].tx \in Nat /\ log'[g].tx \in Nat
        BY <3>3
      <3> QED BY <1>2, <1>6, <2>1, <3>1
    <2>3. g \in Regs(d, m) /\ log[g].tx <= log[i].tx
      BY <1>1, <1>6, <2>2
    <2>4. \A u \in Unregs(d, m) : u > g => u > i
      BY <1>1, <1>3, <1>6
    <2> QED BY <2>3, <2>4 DEF StoodAt
  <1> QED BY <1>5, <1>6 DEF StoodAt

\* An event of a module belongs to the DAOs that have it registered as the transaction ends, if
\* the transaction undoes no registration.
LEMMA StandsNow ==
    ASSUME LogInv', LogInv, NEW es, Adds(es), NEW d, NEW m, NEW j \in DOMAIN es, NEW n, n = Len(log) + j,
           \A k \in DOMAIN es : es[k].name # "module_unregistered"
    PROVE  StoodAt(d, m, n)' <=> Stands(d, m)'
  <1>0. /\ Len(log) \in Nat /\ Len(es) \in Nat /\ DOMAIN es = 1 .. Len(es) /\ Txs \in Nat
        /\ DOMAIN log' = 1 .. Len(log) + Len(es)
    BY NewPlaces, Places
  <1>1. n \in DOMAIN log' /\ \A g \in DOMAIN log' : log'[g].tx <= log'[n].tx
    <2>1. log'[n].tx = Txs + 1 /\ \A k \in DOMAIN es : log'[Len(log) + k].tx = Txs + 1
      BY DEF Adds
    <2>2. n \in DOMAIN log'
      BY NewPlaces
    <2>3. ASSUME NEW g \in DOMAIN log' PROVE log'[g].tx <= Txs + 1
      <3>1. CASE g \in DOMAIN log
        BY <1>0, <3>1, Places, NewPlaces
      <3>2. ASSUME NEW k \in DOMAIN es, g = Len(log) + k PROVE log'[g].tx <= Txs + 1
        <4>1. log'[g].tx = Txs + 1
          BY <2>1, <3>2
        <4> QED BY <1>0, <4>1
      <3> QED BY <3>1, <3>2, NewPlaces
    <2> QED BY <2>1, <2>2, <2>3
  <1>2. Unregs(d, m)' = Unregs(d, m)
    BY StandsStep
  <1>3. \A u \in Unregs(d, m)' : u < n /\ u \in Nat
    BY <1>0, <1>2, Places DEF Unregs
  <1>4. Regs(d, m)' \subseteq DOMAIN log' /\ Regs(d, m)' \subseteq Nat
    BY <1>0 DEF Regs
  <1>5. n \in Nat /\ \A u \in Unregs(d, m)' : ~(u > n)
    BY <1>0, <1>3
  <1>6. ASSUME NEW g \in Regs(d, m)'
        PROVE (\A u \in Unregs(d, m)' : u < g) <=> (\A u \in Unregs(d, m)' : u > g => u > n)
    <2>1. \A u \in Unregs(d, m)' : u # g
      BY DEF Regs, Unregs
    <2> QED BY <1>3, <1>4, <1>5, <2>1
  <1>7. (\E g \in Regs(d, m)' : log'[g].tx <= log'[n].tx /\ \A u \in Unregs(d, m)' : u > g => u > n)
            <=> \E g \in Regs(d, m)' : \A u \in Unregs(d, m)' : u < g
    BY <1>1, <1>4, <1>6
  <1> QED BY <1>7 DEF StoodAt, Stands


\* The registry follows the registrations of a step.
LEMMA RegistryStep ==
    ASSUME LogInv, ModuleInv, NEW es, Adds(es),
           NEW d \in Daos, NEW m \in Modules,
           LET r == \E j \in DOMAIN es : es[j].name = "module_registered" /\ es[j].dao = d /\ es[j].what = m
               u == \E j \in DOMAIN es : es[j].name = "module_unregistered" /\ es[j].dao = d /\ es[j].what = m
           IN  \/ r /\ ~u /\ m \in registry'[d]
               \/ ~r /\ u /\ m \notin registry'[d]
               \/ ~r /\ ~u /\ (m \in registry'[d] <=> m \in registry[d])
    PROVE  m \in registry'[d] <=> Stands(d, m)'
  <1>1. m \in registry[d] <=> Stands(d, m)
    BY DEF ModuleInv
  <1> QED BY <1>1, StandsStep

\* A module's own event belongs to the DAOs that had it registered, for good.
LEMMA ModuleStep ==
    ASSUME LogInv, LogInv', ModuleInv, NEW es, Adds(es),
           \A d \in Daos, m \in Modules : m \in registry'[d] <=> Stands(d, m)',
           \/ author' = Belongs(es, registry') /\ \A j \in DOMAIN es : es[j].name # "module_unregistered"
           \/ author' = author /\ \A j \in DOMAIN es : es[j].at \notin Modules
    PROVE  ModuleInv'
  <1>0. /\ Len(log) \in Nat /\ Len(es) \in Nat /\ DOMAIN es = 1 .. Len(es) /\ DOMAIN log = 1 .. Len(log)
        /\ DOMAIN log' = 1 .. Len(log) + Len(es)
    BY NewPlaces, Places
  <1>1. \A j \in DOMAIN es : log'[Len(log) + j].at = es[j].at
    BY DEF Adds
  <1>2. \A i \in DOMAIN log : i \in DOMAIN log' /\ log'[i] = log[i]
    BY NewPlaces
  <1>3. DOMAIN author = {i \in DOMAIN log : log[i].at \in Modules}
        /\ \A i \in DOMAIN author : author[i] \subseteq Daos
    BY DEF ModuleInv
  <1> DEFINE theirs == {i \in DOMAIN log' : log'[i].at \in Modules}
  <1>4. ASSUME NEW i \in DOMAIN author, NEW d \in Daos, NEW m \in Modules, log'[i].at = m
        PROVE  d \in author[i] <=> StoodAt(d, m, i)'
    <2>1. StoodAt(d, m, i)' <=> StoodAt(d, m, i)
      BY <1>3, StoodKept
    <2> QED BY <1>2, <1>3, <1>4, <2>1 DEF ModuleInv
  <1>5. CASE author' = author /\ \A j \in DOMAIN es : es[j].at \notin Modules
    <2>1. \A n \in DOMAIN log' : n \notin DOMAIN log => log'[n].at \notin Modules
      <3>1. SUFFICES ASSUME NEW n \in DOMAIN log', n \notin DOMAIN log PROVE log'[n].at \notin Modules
        OBVIOUS
      <3>2. PICK j \in DOMAIN es : n = Len(log) + j
        BY <3>1, NewPlaces
      <3> QED BY <1>1, <1>5, <3>2
    <2>2. theirs = DOMAIN author
      BY <1>2, <1>3, <2>1
    <2>3. author' \in [theirs -> SUBSET Daos]
      BY <1>3, <1>5, <2>2 DEF ModuleInv
    <2>4. \A i \in DOMAIN log', d \in Daos, m \in Modules :
            log'[i].at = m => (d \in author'[i] <=> StoodAt(d, m, i)')
      BY <1>4, <1>5, <2>2
    <2> QED BY <2>3, <2>4 DEF ModuleInv
  <1>6. CASE author' = Belongs(es, registry') /\ \A j \in DOMAIN es : es[j].name # "module_unregistered"
    <2> DEFINE new == {Len(log) + j : j \in {j \in DOMAIN es : es[j].at \in Modules}}
    <2>1. /\ author' = [i \in DOMAIN author' |-> author'[i]]
          /\ DOMAIN author' = DOMAIN author \cup new
          /\ \A i \in DOMAIN author : author'[i] = author[i]
          /\ \A i \in new : i \notin DOMAIN author =>
                author'[i] = {d \in Daos : es[i - Len(log)].at \in registry'[d]}
      BY <1>6 DEF Belongs
    <2>2. DOMAIN author' = theirs
      <3>1. \A n \in new : n \in DOMAIN log' /\ log'[n].at \in Modules
        BY <1>1, NewPlaces
      <3>2. \A n \in DOMAIN log' : n \notin DOMAIN log /\ log'[n].at \in Modules => n \in new
        <4>1. SUFFICES ASSUME NEW n \in DOMAIN log', n \notin DOMAIN log, log'[n].at \in Modules PROVE n \in new
          OBVIOUS
        <4>2. PICK j \in DOMAIN es : n = Len(log) + j
          BY <4>1, NewPlaces
        <4> QED BY <1>1, <4>1, <4>2
      <3>3. \A n \in DOMAIN log : n \in DOMAIN author <=> log'[n].at \in Modules
        BY <1>2, <1>3
      <3> HIDE DEF new
      <3> QED BY <1>2, <1>3, <2>1, <3>1, <3>2, <3>3
    <2>3. ASSUME NEW i \in new
          PROVE  /\ author'[i] \subseteq Daos
                 /\ \A d \in Daos, m \in Modules : log'[i].at = m => (d \in author'[i] <=> StoodAt(d, m, i)')
      <3>1. PICK j \in DOMAIN es : i = Len(log) + j /\ es[j].at \in Modules
        OBVIOUS
      <3>2. i \notin DOMAIN author /\ i - Len(log) = j
        BY <1>0, <1>3, <3>1
      <3>3. author'[i] = {d \in Daos : es[j].at \in registry'[d]}
        BY <2>1, <3>2
      <3>4. ASSUME NEW d \in Daos, NEW m \in Modules, log'[i].at = m
            PROVE  d \in author'[i] <=> StoodAt(d, m, i)'
        <4>1. m = es[j].at
          BY <1>1, <3>1, <3>4
        <4>2. StoodAt(d, m, i)' <=> Stands(d, m)'
          BY <1>6, <3>1, StandsNow
        <4> QED BY <3>3, <4>1, <4>2
      <3> QED BY <3>3, <3>4
    <2> HIDE DEF new
    <2>4. author' \in [theirs -> SUBSET Daos]
      BY <1>3, <2>1, <2>2, <2>3
    <2>5. \A i \in DOMAIN log', d \in Daos, m \in Modules :
            log'[i].at = m => (d \in author'[i] <=> StoodAt(d, m, i)')
      BY <1>4, <2>1, <2>2, <2>3
    <2> QED BY <2>4, <2>5 DEF ModuleInv
  <1> QED BY <1>5, <1>6


-----------------------------------------------------------------------------
(* Each call keeps the story.                                              *)

\* Earlier transactions stay as they were.
Grown ==
    /\ \A i \in DOMAIN log : i \in DOMAIN log' /\ log'[i] = log[i]
    /\ \A n \in DOMAIN log' : n \notin DOMAIN log => \A i \in DOMAIN log : log'[n].tx > log[i].tx

\* Emitting only adds.
LEMMA GrownBy == ASSUME LogInv, NEW es, Adds(es) PROVE Grown
  <1>1. \A j \in DOMAIN es : log'[Len(log) + j].tx = Txs + 1
    BY DEF Adds
  <1>2. \A n \in DOMAIN log' : n \notin DOMAIN log => log'[n].tx = Txs + 1
    BY <1>1, NewPlaces
  <1>3. \A i \in DOMAIN log : i \in DOMAIN log' /\ log'[i] = log[i] /\ Txs + 1 > log[i].tx
    BY NewPlaces, Places
  <1> QED BY <1>2, <1>3 DEF Grown

\* An event the step adds is the log's.
LEMMA NewEvent ==
    ASSUME LogInv, NEW es, Adds(es), NEW j \in DOMAIN es, NEW n, n = Len(log) + j
    PROVE  /\ n \in DOMAIN log' /\ n > Len(log)
           /\ log'[n].tx = Txs + 1 /\ log'[n].at = es[j].at /\ log'[n].name = es[j].name
           /\ log'[n].dao = es[j].dao /\ log'[n].what = es[j].what
  BY NewPlaces DEF Adds

\* Who holds a slug is the one DAO that is live or in its drive with it.
LEMMA Holder ==
    ASSUME StoryInv
    PROVE  /\ \A s \in Slugs : held[s] # Nothing =>
                held[s] \in Daos /\ slug[held[s]] = s /\ stage[held[s]] \in {"driving", "live"}
           /\ \A d \in Daos : stage[d] # "none" => slug[d] \in Slugs
           /\ \A d \in Daos : stage[d] \in {"driving", "live"} => held[slug[d]] = d
  <1>1. \A s \in Slugs : held[s] # Nothing =>
                held[s] \in Daos /\ slug[held[s]] = s /\ stage[held[s]] \in {"driving", "live"}
    BY DEF StoryInv, SlugInv, ChainTypes
  <1>2. \A d \in Daos : stage[d] # "none" => slug[d] \in Slugs
    BY DEF StoryInv, DaoInv
  <1>3. \A d \in Daos : stage[d] \in {"driving", "live"} => held[slug[d]] = d
    BY DEF StoryInv, DaoInv
  <1> QED BY <1>1, <1>2, <1>3

\* A call of the Manager about the life of d.
LEMMA LinkStep ==
    ASSUME StoryInv, NEW es, Adds(es), NEW d \in Daos,
           \A j \in DOMAIN es : es[j].at = "manager" /\ es[j].name \in LinkNames /\ es[j].dao = d,
           registry' = registry, author' = author,
           ChainTypes', DaoInv(d)', \A s \in Slugs : SlugInv(s)',
           \A x \in Daos \ {d} :
            /\ stage'[x] = stage[x] /\ slug'[x] = slug[x]
            /\ stage[x] \in {"driving", "live"} => held'[slug[x]] = held[slug[x]]
    PROVE  StoryInv' /\ Grown
  <1> USE IndexerAssumption DEF Modules
  <1>1. LogInv /\ ModuleInv
    BY DEF StoryInv
  <1>2. \A j \in DOMAIN es : Proper(es[j]) /\ es[j].name # "module_registered"
                             /\ es[j].name # "module_unregistered"
    BY DEF Proper, LinkNames, BuildNames, RegistryNames, OwnNames
  <1>3. LogInv'
    BY <1>1, <1>2, LogStep
  <1>4. ASSUME NEW x \in Daos \ {d} PROVE DaoInv(x)'
    <2>1. DaoInv(x)
      BY DEF StoryInv
    <2> QED BY <1>1, <2>1, DaoKept
  <1>5. ASSUME NEW x \in Daos, NEW m \in Modules PROVE m \in registry'[x] <=> Stands(x, m)'
    BY <1>1, <1>2, RegistryStep
  <1>6. ModuleInv'
    <2>1. \A j \in DOMAIN es : es[j].at \notin Modules
      OBVIOUS
    <2> QED BY <1>1, <1>3, <1>5, <2>1, ModuleStep
  <1>7. Grown
    BY <1>1, GrownBy
  <1> QED BY <1>3, <1>4, <1>6, <1>7 DEF StoryInv

\* Opening a drive claims the slug the DAO asked for, which nobody held.
LEMMA OpenStory == ASSUME StoryInv, NEW d \in Daos, OpenAssurance(d) PROVE StoryInv' /\ Grown
  <1> USE IndexerAssumption
  <1>1. PICK es : es = <<Ev("manager", "slug_claimed", d, slug[d]), Ev("manager", "assurance_opened", d, Nothing)>>
    OBVIOUS
  <1>2. LogInv /\ ModuleInv /\ DaoInv(d) /\ ChainTypes
    BY DEF StoryInv
  <1>3. stage[d] = "pending" /\ slug[d] \in Slugs /\ held[slug[d]] = Nothing
    BY Holder DEF OpenAssurance
  <1>4. /\ DOMAIN es = 1 .. 2 /\ es \in Seq(Facts)
        /\ es[1].at = "manager" /\ es[1].name = "slug_claimed" /\ es[1].dao = d /\ es[1].what = slug[d]
        /\ es[2].at = "manager" /\ es[2].name = "assurance_opened" /\ es[2].dao = d
    BY <1>1, <1>3 DEF Ev, Facts, LinkNames
  <1>5. Adds(es)
    BY <1>1, <1>2, <1>4, EmitAdds DEF OpenAssurance
  <1>6. /\ held' = [held EXCEPT ![slug[d]] = d] /\ stage' = [stage EXCEPT ![d] = "driving"]
        /\ slug' = slug /\ moved' = moved /\ registry' = registry /\ author' = author
    BY DEF OpenAssurance
  <1>7. ChainTypes'
    BY <1>2, <1>3, <1>6 DEF ChainTypes
  <1>8. stage'[d] = "driving" /\ slug'[d] = slug[d] /\ held'[slug[d]] = d
    BY <1>2, <1>3, <1>6 DEF ChainTypes
  <1>9. DaoInv(d)'
    <2>1. PICK n1 : n1 = Len(log) + 1
      OBVIOUS
    <2>2. PICK n2 : n2 = Len(log) + 2
      OBVIOUS
    <2>3. /\ n1 \in DOMAIN log' /\ log'[n1].name = "slug_claimed" /\ log'[n1].what = slug[d]
          /\ n2 \in DOMAIN log'
      BY <1>2, <1>4, <1>5, <2>1, <2>2, NewEvent
    <2>4. Latest(Rows(d, HoldNames)', n1)
      <3>1. es[1].name \in HoldNames /\ es[2].name \notin HoldNames
        BY <1>4 DEF HoldNames
      <3> QED BY <1>2, <1>4, <1>5, <2>1, <3>1, RowsNew
    <2>5. Latest(Rows(d, {"assurance_opened"})', n2)
      <3>1. es[1].name \notin {"assurance_opened"} /\ es[2].name \in {"assurance_opened"}
        BY <1>4
      <3> QED BY <1>2, <1>4, <1>5, <2>2, <3>1, RowsNew
    <2>6. Rows(d, RequestNames)' = Rows(d, RequestNames)
      BY <1>2, <1>4, <1>5, RowsKept DEF RequestNames
    <2>7. Rows(d, {"dao_created"})' # {}
      BY <1>2, <1>3, <1>5, RowsGrow DEF DaoInv
    <2>8. Rows(d, {"slug_released", "dao_launched"})' = {}
      <3>1. Rows(d, {"slug_released", "dao_launched"})' = Rows(d, {"slug_released", "dao_launched"})
        BY <1>2, <1>4, <1>5, RowsKept
      <3>2. Rows(d, HoldNames \cup {"assurance_opened", "dao_launched"}) = {}
        BY <1>2, <1>3 DEF DaoInv
      <3>3. Rows(d, {"slug_released", "dao_launched"}) = {}
        BY <3>2 DEF Rows, HoldNames
      <3> QED BY <3>1, <3>3
    <2>9. \E i \in DOMAIN log' : Latest(Rows(d, RequestNames)', i) /\ log'[i].what = slug'[d]
      <3>1. PICK i \in DOMAIN log : Latest(Rows(d, RequestNames), i) /\ log[i].what = slug[d]
        BY <1>2, <1>3 DEF DaoInv
      <3> QED BY <1>2, <1>5, <1>8, <2>6, <3>1, NewPlaces
    <2>10. Target(log'[n1]) = slug[d]
      BY <2>3 DEF Target
    <2> QED BY <1>3, <1>8, <2>3, <2>4, <2>5, <2>7, <2>8, <2>9, <2>10 DEF DaoInv, Target
  <1>10. ASSUME NEW s \in Slugs PROVE SlugInv(s)'
    <2>1. SlugInv(s)
      BY DEF StoryInv
    <2>2. held'[s] # Nothing => slug'[held'[s]] = s /\ stage'[held'[s]] \in {"driving", "live"}
      BY <1>2, <1>3, <1>6, Holder DEF ChainTypes
    <2> QED BY <1>2, <1>4, <1>5, <1>6, <2>1, <2>2, SlugKept
  <1>11. ASSUME NEW x \in Daos \ {d}
         PROVE  /\ stage'[x] = stage[x] /\ slug'[x] = slug[x]
                /\ stage[x] \in {"driving", "live"} => held'[slug[x]] = held[slug[x]]
    BY <1>2, <1>3, <1>6, Holder DEF ChainTypes
  <1>12. \A j \in DOMAIN es : es[j].at = "manager" /\ es[j].name \in LinkNames /\ es[j].dao = d
    BY <1>4 DEF LinkNames
  <1> QED BY <1>5, <1>6, <1>7, <1>9, <1>10, <1>11, <1>12, LinkStep


\* Short sequences, put together.
LEMMA Joined == ASSUME NEW a, NEW b PROVE <<a>> \o <<b>> = <<a, b>>
  <1>1. PICK t : t = <<a, b>>
    OBVIOUS
  <1>2. PICK s : s = <<a>> \o <<b>>
    OBVIOUS
  <1>3. <<a>> \in Seq({a, b}) /\ <<b>> \in Seq({a, b}) /\ Len(<<a>>) = 1 /\ Len(<<b>>) = 1
    OBVIOUS
  <1>4. s \in Seq({a, b}) /\ Len(s) = 2 /\ s[1] = a /\ s[2] = b
    BY <1>2, <1>3, ConcatProperties
  <1>5. t \in Seq({a, b}) /\ Len(t) = 2 /\ t[1] = a /\ t[2] = b
    BY <1>1
  <1>6. \A i \in 1 .. Len(s) : s[i] = t[i]
    BY <1>4, <1>5
  <1>7. s = t
    BY <1>4, <1>5, <1>6, SeqEqual
  <1> QED BY <1>1, <1>2, <1>7

\* The events of a DAO created with a module.
Holds5(t, a, b, c, d, e) ==
    /\ t \in Seq({a, b, c, d, e}) /\ Len(t) = 5
    /\ t[1] = a /\ t[2] = b /\ t[3] = c /\ t[4] = d /\ t[5] = e

\* The same of the five events.
LEMMA Five ==
    ASSUME NEW a, NEW b, NEW c, NEW d, NEW e, NEW t, t = <<a>> \o (<<b>> \o <<c>>) \o <<d>> \o <<e>>
    PROVE  Holds5(t, a, b, c, d, e)
  <1>1. PICK S : S = {a, b, c, d, e}
    OBVIOUS
  <1>2. PICK ua, ub, uc, ud, ue : ua = <<a>> /\ ub = <<b>> /\ uc = <<c>> /\ ud = <<d>> /\ ue = <<e>>
    OBVIOUS
  <1>3. /\ ua \in Seq(S) /\ ub \in Seq(S) /\ uc \in Seq(S) /\ ud \in Seq(S) /\ ue \in Seq(S)
        /\ Len(ua) = 1 /\ Len(ub) = 1 /\ Len(uc) = 1 /\ Len(ud) = 1 /\ Len(ue) = 1
        /\ ua[1] = a /\ ub[1] = b /\ uc[1] = c /\ ud[1] = d /\ ue[1] = e
    BY <1>1, <1>2
  <1>4. PICK bc : bc = ub \o uc
    OBVIOUS
  <1>5. bc \in Seq(S) /\ Len(bc) = 2 /\ bc[1] = b /\ bc[2] = c
    <2>1. /\ ub \o uc \in Seq(S) /\ Len(ub \o uc) = Len(ub) + Len(uc)
          /\ \A i \in 1 .. Len(ub) + Len(uc) : (ub \o uc)[i] = IF i <= Len(ub) THEN ub[i] ELSE uc[i - Len(ub)]
      BY <1>3, ConcatProperties
    <2>2. /\ bc \in Seq(S) /\ Len(bc) = 2
          /\ \A i \in 1 .. 2 : bc[i] = IF i <= 1 THEN ub[i] ELSE uc[i - 1]
      BY <1>3, <1>4, <2>1
    <2> QED BY <1>3, <2>2
  <1>6. PICK abc : abc = ua \o bc
    OBVIOUS
  <1>7. abc \in Seq(S) /\ Len(abc) = 3 /\ abc[1] = a /\ abc[2] = b /\ abc[3] = c
    <2>1. /\ ua \o bc \in Seq(S) /\ Len(ua \o bc) = Len(ua) + Len(bc)
          /\ \A i \in 1 .. Len(ua) + Len(bc) : (ua \o bc)[i] = IF i <= Len(ua) THEN ua[i] ELSE bc[i - Len(ua)]
      BY <1>3, <1>5, ConcatProperties
    <2>2. /\ abc \in Seq(S) /\ Len(abc) = 3
          /\ \A i \in 1 .. 3 : abc[i] = IF i <= 1 THEN ua[i] ELSE bc[i - 1]
      BY <1>3, <1>5, <1>6, <2>1
    <2> QED BY <1>3, <1>5, <2>2
  <1>8. PICK abcd : abcd = abc \o ud
    OBVIOUS
  <1>9. abcd \in Seq(S) /\ Len(abcd) = 4 /\ abcd[1] = a /\ abcd[2] = b /\ abcd[3] = c /\ abcd[4] = d
    <2>1. /\ abc \o ud \in Seq(S) /\ Len(abc \o ud) = Len(abc) + Len(ud)
          /\ \A i \in 1 .. Len(abc) + Len(ud) : (abc \o ud)[i] = IF i <= Len(abc) THEN abc[i] ELSE ud[i - Len(abc)]
      BY <1>3, <1>7, ConcatProperties
    <2>2. /\ abcd \in Seq(S) /\ Len(abcd) = Len(abc) + Len(ud)
          /\ \A i \in 1 .. Len(abc) + Len(ud) : abcd[i] = IF i <= Len(abc) THEN abc[i] ELSE ud[i - Len(abc)]
      BY <1>8, <2>1
    <2>3. Len(abc) = 3 /\ Len(ud) = 1
      BY <1>3, <1>7
    <2>4. Len(abcd) = 4 /\ \A i \in 1 .. 4 : abcd[i] = IF i <= 3 THEN abc[i] ELSE ud[i - 3]
      BY <2>2, <2>3
    <2> QED BY <1>3, <1>7, <2>2, <2>4
  <1>10. PICK s : s = abcd \o ue
    OBVIOUS
  <1>11. s \in Seq(S) /\ Len(s) = 5 /\ s[1] = a /\ s[2] = b /\ s[3] = c /\ s[4] = d /\ s[5] = e
    <2>1. /\ abcd \o ue \in Seq(S) /\ Len(abcd \o ue) = Len(abcd) + Len(ue)
          /\ \A i \in 1 .. Len(abcd) + Len(ue) : (abcd \o ue)[i] = IF i <= Len(abcd) THEN abcd[i] ELSE ue[i - Len(abcd)]
      BY <1>3, <1>9, ConcatProperties
    <2>2. /\ s \in Seq(S) /\ Len(s) = Len(abcd) + Len(ue)
          /\ \A i \in 1 .. Len(abcd) + Len(ue) : s[i] = IF i <= Len(abcd) THEN abcd[i] ELSE ue[i - Len(abcd)]
      BY <1>10, <2>1
    <2>3. Len(abcd) = 4 /\ Len(ue) = 1
      BY <1>3, <1>9
    <2>4. Len(s) = 5 /\ \A i \in 1 .. 5 : s[i] = IF i <= 4 THEN abcd[i] ELSE ue[i - 4]
      BY <2>2, <2>3
    <2> QED BY <1>3, <1>9, <2>2, <2>4
  <1> QED BY <1>1, <1>2, <1>4, <1>6, <1>8, <1>10, <1>11 DEF Holds5

\* SetToSeq of no module and of one: a creation names at most one.
LEMMA EmptyToSeq == SetToSeq({}) = <<>>
  <1>1. Cardinality({}) = 0
    BY FS_EmptySet
  <1>2. PICK f : f = SetToSeq({})
    OBVIOUS
  <1>3. <<>> \in [1 .. 0 -> {}] /\ IsInjective(<<>>) /\ \A g \in [1 .. 0 -> {}] : g = <<>>
    BY DEF IsInjective
  <1> QED BY <1>1, <1>3 DEF SetToSeq

\* The other of the two.
LEMMA SingleToSeq == ASSUME NEW x PROVE SetToSeq({x}) = <<x>>
  <1>1. Cardinality({x}) = 1
    BY FS_Singleton
  <1>2. <<x>> \in [1 .. 1 -> {x}] /\ IsInjective(<<x>>) /\ \A g \in [1 .. 1 -> {x}] : g = <<x>>
    BY DEF IsInjective
  <1> QED BY <1>1, <1>2 DEF SetToSeq


\* A failed drive lets go of the slug; its DAO keeps asking for it.
LEMMA ReleaseStory == ASSUME StoryInv, NEW d \in Daos, ReleaseSlug(d) PROVE StoryInv' /\ Grown
  <1> USE IndexerAssumption
  <1>1. PICK es : es = <<Ev("manager", "slug_released", d, slug[d])>>
    OBVIOUS
  <1>2. LogInv /\ ModuleInv /\ DaoInv(d) /\ ChainTypes
    BY DEF StoryInv
  <1>3. stage[d] = "driving" /\ slug[d] \in Slugs /\ held[slug[d]] = d
    BY Holder DEF ReleaseSlug
  <1>4. /\ DOMAIN es = 1 .. 1 /\ es \in Seq(Facts)
        /\ es[1].at = "manager" /\ es[1].name = "slug_released" /\ es[1].dao = d /\ es[1].what = slug[d]
    BY <1>1, <1>3 DEF Ev, Facts, LinkNames
  <1>5. Adds(es)
    BY <1>1, <1>2, <1>4, EmitAdds DEF ReleaseSlug
  <1>6. /\ held' = [held EXCEPT ![slug[d]] = Nothing] /\ stage' = [stage EXCEPT ![d] = "released"]
        /\ slug' = slug /\ moved' = moved /\ registry' = registry /\ author' = author
    BY DEF ReleaseSlug
  <1>7. ChainTypes'
    BY <1>2, <1>3, <1>6 DEF ChainTypes
  <1>8. stage'[d] = "released" /\ slug'[d] = slug[d]
    BY <1>2, <1>6 DEF ChainTypes
  <1>9. DaoInv(d)'
    <2>1. PICK n : n = Len(log) + 1
      OBVIOUS
    <2>2. n \in DOMAIN log' /\ log'[n].name = "slug_released" /\ n > Len(log)
      BY <1>2, <1>4, <1>5, <2>1, NewEvent
    <2>3. Latest(Rows(d, HoldNames)', n)
      <3>1. es[1].name \in HoldNames
        BY <1>4 DEF HoldNames
      <3> QED BY <1>2, <1>4, <1>5, <2>1, <3>1, RowsNew
    <2>4. n \in Rows(d, {"slug_released"})'
      BY <1>2, <1>4, <1>5, <2>1, NewEvent DEF Rows
    <2>5. Rows(d, RequestNames)' = Rows(d, RequestNames)
      BY <1>2, <1>4, <1>5, RowsKept DEF RequestNames
    <2>6. Rows(d, {"assurance_opened"})' = Rows(d, {"assurance_opened"})
      BY <1>2, <1>4, <1>5, RowsKept
    <2>7. Rows(d, {"dao_created"})' # {}
      BY <1>2, <1>3, <1>5, RowsGrow DEF DaoInv
    <2>8. Rows(d, {"dao_launched"})' = {}
      <3>1. Rows(d, {"dao_launched"})' = Rows(d, {"dao_launched"})
        BY <1>2, <1>4, <1>5, RowsKept
      <3>2. Rows(d, {"slug_released", "dao_launched"}) = {}
        BY <1>2, <1>3 DEF DaoInv
      <3>3. Rows(d, {"dao_launched"}) = {}
        BY <3>2 DEF Rows
      <3> QED BY <3>1, <3>3
    <2>9. \E i \in DOMAIN log' : Latest(Rows(d, RequestNames)', i) /\ log'[i].what = slug'[d]
      <3>1. PICK i \in DOMAIN log : Latest(Rows(d, RequestNames), i) /\ log[i].what = slug[d]
        BY <1>2, <1>3 DEF DaoInv
      <3> QED BY <1>2, <1>5, <1>8, <2>5, <3>1, NewPlaces
    <2>10. \E o, i \in DOMAIN log' : /\ Latest(Rows(d, {"assurance_opened"})', o)
                                     /\ i \in Rows(d, {"slug_released"})' /\ i > o
      <3>1. PICK o \in DOMAIN log : Latest(Rows(d, {"assurance_opened"}), o)
        BY <1>2, <1>3 DEF DaoInv
      <3>2. o \in DOMAIN log' /\ n > o
        BY <1>2, <1>5, <2>1, Places, NewPlaces
      <3> QED BY <2>2, <2>4, <2>6, <3>1, <3>2
    <2> QED BY <1>3, <1>8, <2>2, <2>3, <2>7, <2>8, <2>9, <2>10 DEF DaoInv
  <1>10. ASSUME NEW s \in Slugs PROVE SlugInv(s)'
    <2>1. SlugInv(s)
      BY DEF StoryInv
    <2>2. held'[s] # Nothing => slug'[held'[s]] = s /\ stage'[held'[s]] \in {"driving", "live"}
      BY <1>2, <1>3, <1>6, Holder DEF ChainTypes
    <2> QED BY <1>2, <1>4, <1>5, <1>6, <2>1, <2>2, SlugKept
  <1>11. ASSUME NEW x \in Daos \ {d}
         PROVE  /\ stage'[x] = stage[x] /\ slug'[x] = slug[x]
                /\ stage[x] \in {"driving", "live"} => held'[slug[x]] = held[slug[x]]
    BY <1>2, <1>3, <1>6, Holder DEF ChainTypes
  <1>12. \A j \in DOMAIN es : es[j].at = "manager" /\ es[j].name \in LinkNames /\ es[j].dao = d
    BY <1>4 DEF LinkNames
  <1> QED BY <1>5, <1>6, <1>7, <1>9, <1>10, <1>11, <1>12, LinkStep

\* A launch claims the slug unless the drive did.
LEMMA LaunchStory == ASSUME StoryInv, NEW d \in Daos, LaunchDao(d) PROVE StoryInv' /\ Grown
  <1> USE IndexerAssumption
  <1>1. PICK es : es = (IF stage[d] = "driving" THEN <<>> ELSE <<Ev("manager", "slug_claimed", d, slug[d])>>)
                       \o <<Ev("manager", "dao_launched", d, Nothing)>>
    OBVIOUS
  <1>2. LogInv /\ ModuleInv /\ DaoInv(d) /\ ChainTypes
    BY DEF StoryInv
  <1>3. /\ slug[d] \in Slugs
        /\ \/ stage[d] = "driving" /\ held[slug[d]] = d
           \/ stage[d] = "pending" /\ held[slug[d]] = Nothing
    BY Holder DEF LaunchDao
  <1>4. stage[d] = "driving" =>
            es = <<Ev("manager", "dao_launched", d, Nothing)>>
    BY <1>1
  <1>5. stage[d] = "pending" =>
            es = <<Ev("manager", "slug_claimed", d, slug[d]), Ev("manager", "dao_launched", d, Nothing)>>
    BY <1>1, Joined
  <1>6. PICK k : k = IF stage[d] = "driving" THEN 1 ELSE 2
    OBVIOUS
  <1>7. /\ DOMAIN es = 1 .. k /\ es \in Seq(Facts) /\ k \in DOMAIN es /\ k \in 1 .. 2
        /\ es[k].at = "manager" /\ es[k].name = "dao_launched" /\ es[k].dao = d
        /\ \A j \in DOMAIN es : j # k =>
            /\ j = 1 /\ stage[d] = "pending" /\ es[j].at = "manager" /\ es[j].name = "slug_claimed"
            /\ es[j].dao = d /\ es[j].what = slug[d]
    <2>1. CASE stage[d] = "driving"
      <3>1. es = <<Ev("manager", "dao_launched", d, Nothing)>> /\ k = 1
        BY <1>4, <1>6, <2>1
      <3>2. Ev("manager", "dao_launched", d, Nothing) \in Facts
        BY DEF Ev, Facts, LinkNames
      <3>3. DOMAIN es = 1 .. 1 /\ es \in Seq(Facts) /\ es[1] = Ev("manager", "dao_launched", d, Nothing)
        BY <3>1, <3>2
      <3> QED BY <3>1, <3>3 DEF Ev
    <2>2. CASE stage[d] = "pending"
      <3>1. es = <<Ev("manager", "slug_claimed", d, slug[d]), Ev("manager", "dao_launched", d, Nothing)>> /\ k = 2
        BY <1>5, <1>6, <2>2
      <3>2. Ev("manager", "slug_claimed", d, slug[d]) \in Facts /\ Ev("manager", "dao_launched", d, Nothing) \in Facts
        BY <1>3 DEF Ev, Facts, LinkNames
      <3>3. DOMAIN es = 1 .. 2 /\ es \in Seq(Facts) /\ es[1] = Ev("manager", "slug_claimed", d, slug[d])
            /\ es[2] = Ev("manager", "dao_launched", d, Nothing)
        BY <3>1, <3>2
      <3> QED BY <2>2, <3>1, <3>3 DEF Ev
    <2> QED BY <1>3, <2>1, <2>2
  <1>8. Adds(es)
    BY <1>1, <1>2, <1>7, EmitAdds DEF LaunchDao
  <1>9. /\ held' = [held EXCEPT ![slug[d]] = d] /\ stage' = [stage EXCEPT ![d] = "live"]
        /\ slug' = slug /\ moved' = moved /\ registry' = registry /\ author' = author
    BY DEF LaunchDao
  <1>10. ChainTypes'
    BY <1>2, <1>3, <1>9 DEF ChainTypes
  <1>11. stage'[d] = "live" /\ slug'[d] = slug[d] /\ held'[slug[d]] = d
    BY <1>2, <1>3, <1>9 DEF ChainTypes
  <1>12. DaoInv(d)'
    <2>1. Rows(d, {"dao_created"})' # {}
      BY <1>2, <1>3, <1>8, RowsGrow DEF DaoInv
    <2>2. Rows(d, {"dao_launched"})' # {}
      <3>1. PICK n : n = Len(log) + k
        OBVIOUS
      <3>2. k \in DOMAIN es /\ es[k].dao = d /\ es[k].name \in {"dao_launched"} /\ \A j \in DOMAIN es : j <= k
        BY <1>7
      <3>3. Latest(Rows(d, {"dao_launched"})', n)
        BY <1>2, <1>8, <3>1, <3>2, RowsNew
      <3> QED BY <3>3 DEF Latest
    <2>3. \E i \in DOMAIN log' : /\ Latest(Rows(d, HoldNames)', i)
                                 /\ log'[i].name # "slug_released" /\ Target(log'[i]) = slug[d]
      <3>1. es[k].name \notin HoldNames
        BY <1>7 DEF HoldNames
      <3>2. CASE stage[d] = "driving"
        <4>1. \A j \in DOMAIN es : j = k
          BY <1>7, <3>2
        <4>2. Rows(d, HoldNames)' = Rows(d, HoldNames)
          BY <1>2, <1>8, <3>1, <4>1, RowsKept
        <4>3. PICK i \in DOMAIN log : /\ Latest(Rows(d, HoldNames), i)
                                      /\ log[i].name # "slug_released" /\ Target(log[i]) = slug[d]
          BY <1>2, <3>2 DEF DaoInv
        <4>4. i \in DOMAIN log' /\ log'[i] = log[i]
          BY <1>2, <1>8, NewPlaces
        <4> QED BY <4>2, <4>3, <4>4
      <3>3. CASE stage[d] = "pending"
        <4>1. PICK n : n = Len(log) + 1
          OBVIOUS
        <4>2. k = 2 /\ 1 \in DOMAIN es /\ es[1].name = "slug_claimed" /\ es[1].dao = d /\ es[1].what = slug[d]
              /\ \A j \in DOMAIN es : j = 1 \/ j = k
          BY <1>6, <1>7, <3>3
        <4>3. es[1].name \in HoldNames /\ \A j \in DOMAIN es : es[j].name \in HoldNames => j <= 1
          BY <3>1, <4>2 DEF HoldNames
        <4>4. Latest(Rows(d, HoldNames)', n)
          BY <1>2, <1>8, <4>1, <4>2, <4>3, RowsNew
        <4>5. n \in DOMAIN log' /\ log'[n].name = "slug_claimed" /\ log'[n].what = slug[d]
          BY <1>2, <1>8, <4>1, <4>2, NewEvent
        <4>6. Target(log'[n]) = slug[d]
          BY <4>5 DEF Target
        <4> QED BY <4>4, <4>5, <4>6
      <3> QED BY <1>3, <3>2, <3>3
    <2> QED BY <1>3, <1>11, <2>1, <2>2, <2>3 DEF DaoInv, Target
  <1>13. ASSUME NEW s \in Slugs PROVE SlugInv(s)'
    <2>1. SlugInv(s)
      BY DEF StoryInv
    <2>2. held'[s] # Nothing => slug'[held'[s]] = s /\ stage'[held'[s]] \in {"driving", "live"}
      BY <1>2, <1>3, <1>9, Holder DEF ChainTypes
    <2> QED BY <1>2, <1>7, <1>8, <1>9, <2>1, <2>2, SlugKept
  <1>14. ASSUME NEW x \in Daos \ {d}
         PROVE  /\ stage'[x] = stage[x] /\ slug'[x] = slug[x]
                /\ stage[x] \in {"driving", "live"} => held'[slug[x]] = held[slug[x]]
    BY <1>2, <1>3, <1>9, Holder DEF ChainTypes
  <1>15. \A j \in DOMAIN es : es[j].at = "manager" /\ es[j].name \in LinkNames /\ es[j].dao = d
    BY <1>7 DEF LinkNames
  <1> QED BY <1>8, <1>9, <1>10, <1>12, <1>13, <1>14, <1>15, LinkStep

\* A pending DAO asks for another slug: the last request on the log is what it asks for.
LEMMA PendingStory == ASSUME StoryInv, NEW d \in Daos, NEW s \in Slugs, UpdatePendingSlug(d, s) PROVE StoryInv' /\ Grown
  <1> USE IndexerAssumption
  <1>1. PICK es : es = <<Ev("manager", "pending_slug_updated", d, s)>>
    OBVIOUS
  <1>2. LogInv /\ ModuleInv /\ DaoInv(d) /\ ChainTypes
    BY DEF StoryInv
  <1>3. stage[d] = "pending"
    BY DEF UpdatePendingSlug
  <1>4. /\ DOMAIN es = 1 .. 1 /\ es \in Seq(Facts)
        /\ es[1].at = "manager" /\ es[1].name = "pending_slug_updated" /\ es[1].dao = d /\ es[1].what = s
    BY <1>1, <1>3 DEF Ev, Facts, LinkNames
  <1>5. Adds(es)
    BY <1>1, <1>2, <1>4, EmitAdds DEF UpdatePendingSlug
  <1>6. /\ held' = held /\ stage' = stage
        /\ slug' = [slug EXCEPT ![d] = s] /\ moved' = moved /\ registry' = registry /\ author' = author
    BY DEF UpdatePendingSlug
  <1>7. ChainTypes'
    BY <1>2, <1>3, <1>6 DEF ChainTypes
  <1>8. stage'[d] = "pending" /\ slug'[d] = s
    BY <1>2, <1>3, <1>6 DEF ChainTypes
  <1>9. DaoInv(d)'
    <2>1. PICK n : n = Len(log) + 1
      OBVIOUS
    <2>2. n \in DOMAIN log' /\ log'[n].what = s
      BY <1>2, <1>4, <1>5, <2>1, NewEvent
    <2>3. Latest(Rows(d, RequestNames)', n)
      <3>1. es[1].name \in RequestNames
        BY <1>4 DEF RequestNames
      <3> QED BY <1>2, <1>4, <1>5, <2>1, <3>1, RowsNew
    <2>4. Rows(d, HoldNames \cup {"assurance_opened", "dao_launched"})' = {}
      <3>1. es[1].name \notin HoldNames \cup {"assurance_opened", "dao_launched"}
        BY <1>4 DEF HoldNames
      <3>2. Rows(d, HoldNames \cup {"assurance_opened", "dao_launched"})' =
                Rows(d, HoldNames \cup {"assurance_opened", "dao_launched"})
        BY <1>2, <1>4, <1>5, <3>1, RowsKept
      <3> QED BY <1>2, <1>3, <3>2 DEF DaoInv
    <2>5. Rows(d, {"dao_created"})' # {}
      BY <1>2, <1>3, <1>5, RowsGrow DEF DaoInv
    <2> QED BY <1>3, <1>8, <2>2, <2>3, <2>4, <2>5 DEF DaoInv
  <1>10. ASSUME NEW x \in Slugs PROVE SlugInv(x)'
    <2>1. SlugInv(x)
      BY DEF StoryInv
    <2>2. held'[x] # Nothing => slug'[held'[x]] = x /\ stage'[held'[x]] \in {"driving", "live"}
      BY <1>2, <1>3, <1>6, Holder DEF ChainTypes
    <2> QED BY <1>2, <1>4, <1>5, <1>6, <2>1, <2>2, SlugKept
  <1>11. ASSUME NEW x \in Daos \ {d}
         PROVE  /\ stage'[x] = stage[x] /\ slug'[x] = slug[x]
                /\ stage[x] \in {"driving", "live"} => held'[slug[x]] = held[slug[x]]
    BY <1>2, <1>6 DEF ChainTypes
  <1>12. \A j \in DOMAIN es : es[j].at = "manager" /\ es[j].name \in LinkNames /\ es[j].dao = d
    BY <1>4 DEF LinkNames
  <1> QED BY <1>5, <1>6, <1>7, <1>9, <1>10, <1>11, <1>12, LinkStep

\* A DAO changes its slug: the old one is free, and remembers who moved away last.
LEMMA MoveStory == ASSUME StoryInv, NEW d \in Daos, NEW s \in Slugs, ChangeSlug(d, s) PROVE StoryInv' /\ Grown
  <1> USE IndexerAssumption
  <1>1. PICK es : es = <<Ev("manager", "slug_changed", d, <<slug[d], s>>)>>
    OBVIOUS
  <1>2. LogInv /\ ModuleInv /\ DaoInv(d) /\ ChainTypes
    BY DEF StoryInv
  <1>3. stage[d] = "live" /\ slug[d] \in Slugs /\ held[slug[d]] = d /\ held[s] = Nothing /\ s # slug[d]
    BY Holder DEF ChangeSlug
  <1>4. /\ DOMAIN es = 1 .. 1 /\ es \in Seq(Facts)
        /\ es[1].at = "manager" /\ es[1].name = "slug_changed" /\ es[1].dao = d
        /\ es[1].what[1] = slug[d] /\ es[1].what[2] = s
    BY <1>1, <1>3 DEF Ev, Facts, LinkNames
  <1>5. Adds(es)
    BY <1>1, <1>2, <1>4, EmitAdds DEF ChangeSlug
  <1>6. /\ held' = [held EXCEPT ![slug[d]] = Nothing, ![s] = d] /\ stage' = stage
        /\ slug' = [slug EXCEPT ![d] = s] /\ moved' = [moved EXCEPT ![slug[d]] = d]
        /\ registry' = registry /\ author' = author
    BY DEF ChangeSlug
  <1>7. ChainTypes'
    BY <1>2, <1>3, <1>6 DEF ChainTypes
  <1>8. stage'[d] = "live" /\ slug'[d] = s /\ held'[s] = d /\ held'[slug[d]] = Nothing /\ moved'[slug[d]] = d
    BY <1>2, <1>3, <1>6 DEF ChainTypes
  <1>9. PICK n : n = Len(log) + 1
    OBVIOUS
  <1>10. /\ n \in DOMAIN log' /\ log'[n].name = "slug_changed" /\ log'[n].dao = d
         /\ log'[n].what[1] = slug[d] /\ log'[n].what[2] = s
    BY <1>2, <1>4, <1>5, <1>9, NewEvent
  <1>11. DaoInv(d)'
    <2>1. Target(log'[n]) = s
      BY <1>10 DEF Target
    <2>2. Latest(Rows(d, HoldNames)', n)
      <3>1. es[1].name \in HoldNames
        BY <1>4 DEF HoldNames
      <3> QED BY <1>2, <1>4, <1>5, <1>9, <3>1, RowsNew
    <2>3. Rows(d, {"dao_created"})' # {}
      BY <1>2, <1>3, <1>5, RowsGrow DEF DaoInv
    <2>4. Rows(d, {"dao_launched"})' # {}
      BY <1>2, <1>3, <1>5, RowsGrow DEF DaoInv
    <2> QED BY <1>3, <1>8, <1>10, <2>1, <2>2, <2>3, <2>4 DEF DaoInv, Target
  <1>12. ASSUME NEW x \in Slugs PROVE SlugInv(x)'
    <2>1. SlugInv(x)
      BY DEF StoryInv
    <2>2. held'[x] # Nothing => slug'[held'[x]] = x /\ stage'[held'[x]] \in {"driving", "live"}
      BY <1>2, <1>3, <1>6, Holder DEF ChainTypes
    <2>3. CASE x # slug[d]
      <3>1. moved'[x] = moved[x]
        BY <1>6, <2>3, <1>2 DEF ChainTypes
      <3> QED BY <1>2, <1>4, <1>5, <2>1, <2>2, <2>3, <3>1, SlugKept
    <2>4. CASE x = slug[d]
      <3>1. n \in Moves(x)'
        BY <1>10, <2>4 DEF Moves
      <3>2. \A i \in Moves(x)' : i <= n
        BY <1>2, <1>4, <1>5, <1>9, NewPlaces, Places DEF Moves
      <3>3. Latest(Moves(x)', n)
        BY <3>1, <3>2 DEF Latest
      <3>4. moved'[x] = d /\ held'[x] = Nothing
        BY <1>8, <2>4
      <3> QED BY <1>10, <3>3, <3>4 DEF SlugInv
    <2> QED BY <2>3, <2>4
  <1>13. ASSUME NEW x \in Daos \ {d}
         PROVE  /\ stage'[x] = stage[x] /\ slug'[x] = slug[x]
                /\ stage[x] \in {"driving", "live"} => held'[slug[x]] = held[slug[x]]
    BY <1>2, <1>3, <1>6, Holder DEF ChainTypes
  <1>14. \A j \in DOMAIN es : es[j].at = "manager" /\ es[j].name \in LinkNames /\ es[j].dao = d
    BY <1>4 DEF LinkNames
  <1> QED BY <1>5, <1>6, <1>7, <1>11, <1>12, <1>13, <1>14, LinkStep


\* A call about modules.
LEMMA ModuleCallStep ==
    ASSUME StoryInv, NEW es, Adds(es),
           \A j \in DOMAIN es : Proper(es[j]) /\ es[j].name \notin LinkNames,
           \A j \in DOMAIN es :
            /\ es[j].at \in Daos => \E k \in DOMAIN log : Creates(k, es[j].at)
            /\ \A m \in Built : es[j].at = m \/ (es[j].name = "module_registered" /\ es[j].what = m) =>
                \/ \E k \in DOMAIN es : es[k].name \in BuildNames /\ es[k].what = m
                \/ \E k \in DOMAIN log : Builds(k, m),
           stage' = stage, slug' = slug, held' = held, moved' = moved,
           registry' \in [Daos -> SUBSET Modules],
           \A d \in Daos : stage[d] = "none" => registry'[d] = registry[d],
           \A d \in Daos, m \in Modules : m \in registry'[d] <=> Stands(d, m)',
           \/ author' = Belongs(es, registry') /\ \A j \in DOMAIN es : es[j].name # "module_unregistered"
           \/ author' = author /\ \A j \in DOMAIN es : es[j].at \notin Modules
    PROVE  StoryInv' /\ Grown
  <1>1. LogInv /\ ModuleInv /\ ChainTypes
    BY DEF StoryInv
  <1>2. LogInv'
    BY <1>1, LogStep
  <1>3. ASSUME NEW x \in Daos PROVE DaoInv(x)'
    <2>1. DaoInv(x)
      BY DEF StoryInv
    <2>2. \A j \in DOMAIN es : ~(es[j].name \in LinkNames /\ es[j].dao = x)
      OBVIOUS
    <2> QED BY <1>1, <2>1, <2>2, DaoKept
  <1>4. ASSUME NEW s \in Slugs PROVE SlugInv(s)'
    <2>1. SlugInv(s)
      BY DEF StoryInv
    <2>2. \A j \in DOMAIN es : ~(es[j].name = "slug_changed" /\ es[j].what[1] = s)
      BY DEF LinkNames
    <2>3. held'[s] # Nothing => slug'[held'[s]] = s /\ stage'[held'[s]] \in {"driving", "live"}
      BY Holder
    <2> QED BY <1>1, <2>1, <2>2, <2>3, SlugKept
  <1>5. ModuleInv'
    BY <1>1, <1>2, ModuleStep
  <1>6. ChainTypes'
    BY <1>1 DEF ChainTypes
  <1>7. Grown
    BY <1>1, GrownBy
  <1> QED BY <1>2, <1>3, <1>4, <1>5, <1>6, <1>7 DEF StoryInv

\* What the Manager deployed, and the DAOs it created, are in the log.
LEMMA InLog ==
    ASSUME StoryInv
    PROVE  /\ Deployed \subseteq Built
           /\ \A m \in Deployed : \E k \in DOMAIN log : Builds(k, m)
           /\ \A d \in Daos : stage[d] # "none" => \E k \in DOMAIN log : Creates(k, d)
           /\ ChainTypes /\ LogInv /\ ModuleInv
  <1>1. ChainTypes /\ LogInv /\ ModuleInv
    BY DEF StoryInv
  <1>2. \A m \in Deployed : \E k \in DOMAIN log : Builds(k, m)
    BY DEF Deployed, Builds, BuildNames
  <1>3. Deployed \subseteq Built
    BY <1>1 DEF Deployed, LogInv, Proper, BuildNames
  <1>4. \A d \in Daos : stage[d] # "none" => \E k \in DOMAIN log : Creates(k, d)
    <2>1. SUFFICES ASSUME NEW d \in Daos, stage[d] # "none" PROVE \E k \in DOMAIN log : Creates(k, d)
      OBVIOUS
    <2>2. Rows(d, {"dao_created"}) # {}
      BY <2>1 DEF StoryInv, DaoInv
    <2> QED BY <2>2 DEF Rows, Creates
  <1> QED BY <1>1, <1>2, <1>3, <1>4

\* A module is deployed and registered in one transaction, its own event first.
LEMMA ModuleStory == ASSUME StoryInv, NEW d \in Daos, NEW m \in Modules, CreateModule(d, m) PROVE StoryInv' /\ Grown
  <1> USE IndexerAssumption
  <1>1. PICK es : es = << Ev(m, "initialized", Nothing, Nothing), Ev("manager", "module_created", d, m),
                          Ev(d, "module_registered", d, m) >>
    OBVIOUS
  <1>2. m \in Built /\ stage[d] # "none"
    BY DEF CreateModule
  <1>3. /\ DOMAIN es = 1 .. 3 /\ es \in Seq(Facts)
        /\ es[1].at = m /\ es[1].name = "initialized" /\ es[1].dao = Nothing
        /\ es[2].at = "manager" /\ es[2].name = "module_created" /\ es[2].dao = d /\ es[2].what = m
        /\ es[3].at = d /\ es[3].name = "module_registered" /\ es[3].dao = d /\ es[3].what = m
    <2>1. /\ Ev(m, "initialized", Nothing, Nothing) \in Facts /\ Ev("manager", "module_created", d, m) \in Facts
          /\ Ev(d, "module_registered", d, m) \in Facts
      BY <1>2 DEF Ev, Facts, OwnNames, BuildNames, RegistryNames
    <2>2. /\ DOMAIN es = 1 .. 3 /\ es \in Seq(Facts) /\ es[1] = Ev(m, "initialized", Nothing, Nothing)
          /\ es[2] = Ev("manager", "module_created", d, m) /\ es[3] = Ev(d, "module_registered", d, m)
      BY <1>1, <2>1
    <2> QED BY <2>2 DEF Ev
  <1>4. Adds(es)
    BY <1>1, <1>3, InLog, EmitAdds DEF CreateModule
  <1>5. /\ registry' = [registry EXCEPT ![d] = @ \cup {m}] /\ author' = Belongs(es, registry')
        /\ stage' = stage /\ slug' = slug /\ held' = held /\ moved' = moved
    BY <1>1 DEF CreateModule
  <1>6. \A j \in DOMAIN es : j = 1 \/ j = 2 \/ j = 3
    BY <1>3
  <1>7. \A j \in DOMAIN es : Proper(es[j]) /\ es[j].name \notin LinkNames /\ es[j].name # "module_unregistered"
    BY <1>2, <1>3, <1>6 DEF Proper, LinkNames, BuildNames, RegistryNames, OwnNames
  <1>8. \A j \in DOMAIN es :
            /\ es[j].at \in Daos => \E k \in DOMAIN log : Creates(k, es[j].at)
            /\ \A x \in Built : es[j].at = x \/ (es[j].name = "module_registered" /\ es[j].what = x) =>
                \/ \E k \in DOMAIN es : es[k].name \in BuildNames /\ es[k].what = x
                \/ \E k \in DOMAIN log : Builds(k, x)
    <2>1. PICK k \in DOMAIN log : Creates(k, d)
      BY <1>2, InLog
    <2>2. 2 \in DOMAIN es /\ es[2].name \in BuildNames /\ es[2].what = m
      BY <1>3 DEF BuildNames
    <2> QED BY <1>2, <1>3, <1>6, <2>1, <2>2 DEF Modules
  <1>9. /\ registry' \in [Daos -> SUBSET Modules] /\ registry'[d] = registry[d] \cup {m}
        /\ \A x \in Daos \ {d} : registry'[x] = registry[x]
    BY <1>5, InLog DEF ChainTypes
  <1>10. ASSUME NEW x \in Daos, NEW y \in Modules PROVE y \in registry'[x] <=> Stands(x, y)'
    <2> DEFINE r == \E j \in DOMAIN es : es[j].name = "module_registered" /\ es[j].dao = x /\ es[j].what = y
    <2>1. \A j \in DOMAIN es : es[j].name # "module_unregistered"
      BY <1>7
    <2>2. r <=> x = d /\ y = m
      BY <1>3, <1>6
    <2> HIDE DEF r
    <2>3. (r /\ y \in registry'[x]) \/ (~r /\ (y \in registry'[x] <=> y \in registry[x]))
      BY <1>9, <2>2
    <2> QED BY <1>4, <2>1, <2>3, InLog, RegistryStep DEF r
  <1> QED BY <1>2, <1>4, <1>5, <1>7, <1>8, <1>9, <1>10, ModuleCallStep

\* A registration by vote: it stands, whatever was undone before.
LEMMA RegisterStory == ASSUME StoryInv, NEW d \in Daos, NEW m \in Modules, Register(d, m) PROVE StoryInv' /\ Grown
  <1> USE IndexerAssumption
  <1>1. PICK es : es = <<Ev(d, "module_registered", d, m)>>
    OBVIOUS
  <1>2. m \in Foreign \cup Deployed /\ stage[d] # "none"
    BY DEF Register
  <1>3. /\ DOMAIN es = 1 .. 1 /\ es \in Seq(Facts)
        /\ es[1].at = d /\ es[1].name = "module_registered" /\ es[1].dao = d /\ es[1].what = m
    BY <1>1 DEF Ev, Facts, RegistryNames
  <1>4. Adds(es)
    BY <1>1, <1>3, InLog, EmitAdds DEF Register
  <1>5. /\ registry' = [registry EXCEPT ![d] = @ \cup {m}] /\ author' = author
        /\ stage' = stage /\ slug' = slug /\ held' = held /\ moved' = moved
    BY DEF Register
  <1>6. \A j \in DOMAIN es : j = 1
    BY <1>3
  <1>7. \A j \in DOMAIN es : Proper(es[j]) /\ es[j].name \notin LinkNames /\ es[j].name # "module_unregistered"
    BY <1>3, <1>6 DEF Proper, LinkNames, BuildNames, RegistryNames, OwnNames
  <1>8. \A j \in DOMAIN es :
            /\ es[j].at \in Daos => \E k \in DOMAIN log : Creates(k, es[j].at)
            /\ \A x \in Built : es[j].at = x \/ (es[j].name = "module_registered" /\ es[j].what = x) =>
                \E k \in DOMAIN log : Builds(k, x)
    <2>1. PICK k \in DOMAIN log : Creates(k, d)
      BY <1>2, InLog
    <2>2. \A x \in Built : x = m => \E i \in DOMAIN log : Builds(i, x)
      BY <1>2, InLog
    <2> QED BY <1>3, <1>6, <2>1, <2>2 DEF Modules
  <1>9. /\ registry' \in [Daos -> SUBSET Modules] /\ registry'[d] = registry[d] \cup {m}
        /\ \A x \in Daos \ {d} : registry'[x] = registry[x]
    BY <1>5, InLog DEF ChainTypes
  <1>10. ASSUME NEW x \in Daos, NEW y \in Modules PROVE y \in registry'[x] <=> Stands(x, y)'
    <2> DEFINE r == \E j \in DOMAIN es : es[j].name = "module_registered" /\ es[j].dao = x /\ es[j].what = y
    <2>1. \A j \in DOMAIN es : es[j].name # "module_unregistered"
      BY <1>7
    <2>2. r <=> x = d /\ y = m
      BY <1>3, <1>6
    <2> HIDE DEF r
    <2>3. (r /\ y \in registry'[x]) \/ (~r /\ (y \in registry'[x] <=> y \in registry[x]))
      BY <1>9, <2>2
    <2> QED BY <1>4, <2>1, <2>3, InLog, RegistryStep DEF r
  <1>11. \A j \in DOMAIN es : es[j].at \notin Modules
    BY <1>3, <1>6
  <1> QED BY <1>2, <1>4, <1>5, <1>7, <1>8, <1>9, <1>10, <1>11, ModuleCallStep

\* A removal undoes the registrations before it, and changes nothing of earlier activity.
LEMMA UnregisterStory == ASSUME StoryInv, NEW d \in Daos, NEW m \in Modules, Unregister(d, m) PROVE StoryInv' /\ Grown
  <1> USE IndexerAssumption
  <1>1. PICK es : es = <<Ev(d, "module_unregistered", d, m)>>
    OBVIOUS
  <1>2. stage[d] # "none"
    BY DEF Unregister
  <1>3. /\ DOMAIN es = 1 .. 1 /\ es \in Seq(Facts)
        /\ es[1].at = d /\ es[1].name = "module_unregistered" /\ es[1].dao = d /\ es[1].what = m
    BY <1>1 DEF Ev, Facts, RegistryNames
  <1>4. Adds(es)
    BY <1>1, <1>3, InLog, EmitAdds DEF Unregister
  <1>5. /\ registry' = [registry EXCEPT ![d] = @ \ {m}] /\ author' = author
        /\ stage' = stage /\ slug' = slug /\ held' = held /\ moved' = moved
    BY DEF Unregister
  <1>6. \A j \in DOMAIN es : j = 1
    BY <1>3
  <1>7. \A j \in DOMAIN es : Proper(es[j]) /\ es[j].name \notin LinkNames /\ es[j].name # "module_registered"
    BY <1>3, <1>6 DEF Proper, LinkNames, BuildNames, RegistryNames, OwnNames
  <1>8. \A j \in DOMAIN es :
            /\ es[j].at \in Daos => \E k \in DOMAIN log : Creates(k, es[j].at)
            /\ \A x \in Built : es[j].at = x \/ (es[j].name = "module_registered" /\ es[j].what = x) =>
                \E k \in DOMAIN log : Builds(k, x)
    <2>1. PICK k \in DOMAIN log : Creates(k, d)
      BY <1>2, InLog
    <2> QED BY <1>3, <1>6, <2>1 DEF Modules
  <1>9. /\ registry' \in [Daos -> SUBSET Modules] /\ registry'[d] = registry[d] \ {m}
        /\ \A x \in Daos \ {d} : registry'[x] = registry[x]
    BY <1>5, InLog DEF ChainTypes
  <1>10. ASSUME NEW x \in Daos, NEW y \in Modules PROVE y \in registry'[x] <=> Stands(x, y)'
    <2> DEFINE u == \E j \in DOMAIN es : es[j].name = "module_unregistered" /\ es[j].dao = x /\ es[j].what = y
    <2>1. \A j \in DOMAIN es : es[j].name # "module_registered"
      BY <1>7
    <2>2. u <=> x = d /\ y = m
      BY <1>3, <1>6
    <2> HIDE DEF u
    <2>3. (u /\ y \notin registry'[x]) \/ (~u /\ (y \in registry'[x] <=> y \in registry[x]))
      BY <1>9, <2>2
    <2> QED BY <1>4, <2>1, <2>3, InLog, RegistryStep DEF u
  <1>11. \A j \in DOMAIN es : es[j].at \notin Modules
    BY <1>3, <1>6
  <1> QED BY <1>2, <1>4, <1>5, <1>7, <1>8, <1>9, <1>10, <1>11, ModuleCallStep

\* A module acts: its event belongs to the DAOs it is registered with.
LEMMA ActsStory == ASSUME StoryInv, NEW m \in Modules, Acts(m) PROVE StoryInv' /\ Grown
  <1> USE IndexerAssumption
  <1>1. PICK es : es = <<Ev(m, "sale", Nothing, Nothing)>>
    OBVIOUS
  <1>2. m \in Foreign \cup Deployed
    BY DEF Acts
  <1>3. /\ DOMAIN es = 1 .. 1 /\ es \in Seq(Facts) /\ es[1].at = m /\ es[1].name = "sale" /\ es[1].dao = Nothing
    BY <1>1 DEF Ev, Facts, OwnNames
  <1>4. Adds(es)
    BY <1>1, <1>3, InLog, EmitAdds DEF Acts
  <1>5. /\ registry' = registry /\ author' = Belongs(es, registry')
        /\ stage' = stage /\ slug' = slug /\ held' = held /\ moved' = moved
    BY <1>1 DEF Acts
  <1>6. \A j \in DOMAIN es : j = 1
    BY <1>3
  <1>7. \A j \in DOMAIN es : /\ Proper(es[j]) /\ es[j].name \notin LinkNames /\ es[j].name # "module_registered"
                             /\ es[j].name # "module_unregistered"
    BY <1>3, <1>6 DEF Proper, LinkNames, BuildNames, RegistryNames, OwnNames
  <1>8. \A j \in DOMAIN es :
            /\ es[j].at \in Daos => \E k \in DOMAIN log : Creates(k, es[j].at)
            /\ \A x \in Built : es[j].at = x \/ (es[j].name = "module_registered" /\ es[j].what = x) =>
                \E k \in DOMAIN log : Builds(k, x)
    <2>1. \A x \in Built : x = m => \E i \in DOMAIN log : Builds(i, x)
      BY <1>2, InLog
    <2> QED BY <1>3, <1>6, <2>1 DEF Modules
  <1>9. registry' \in [Daos -> SUBSET Modules]
    BY <1>5, InLog DEF ChainTypes
  <1>10. ASSUME NEW x \in Daos, NEW y \in Modules PROVE y \in registry'[x] <=> Stands(x, y)'
    BY <1>4, <1>5, <1>7, InLog, RegistryStep
  <1> QED BY <1>4, <1>5, <1>7, <1>8, <1>9, <1>10, ModuleCallStep


\* What matters of the events of a creation.
CreationEvents(es, d, s, ms) ==
    /\ es \in Seq(Facts)
    /\ \A j \in DOMAIN es : /\ Proper(es[j]) /\ es[j].at \in {"manager", d} \cup ms
                            /\ es[j].name \in LinkNames => es[j].name = "dao_created" /\ es[j].dao = d
                            /\ es[j].name = "module_registered" => es[j].dao = d /\ es[j].what \in ms
                            /\ es[j].name # "module_unregistered"
    /\ \E k \in DOMAIN es : /\ es[k].name = "dao_created" /\ es[k].dao = d /\ es[k].what = s
                            /\ \A j \in DOMAIN es : es[j].name = "dao_created" => j = k
    /\ \A m \in ms : /\ \E k \in DOMAIN es : es[k].name = "module_registered" /\ es[k].dao = d /\ es[k].what = m
                     /\ \E k \in DOMAIN es : es[k].name \in BuildNames /\ es[k].what = m

\* What create_dao emits, with a module or without.
LEMMA CreationEventsAre ==
    ASSUME NEW d \in Daos, NEW s \in Slugs, NEW ms \in SUBSET Built, Cardinality(ms) <= 1
    PROVE  CreationEvents(<<Ev(d, "token_initialized", Nothing, Nothing)>>
                          \o (SetToSeq({Ev(m, "initialized", Nothing, Nothing) : m \in ms})
                              \o SetToSeq({Ev(d, "module_registered", d, m) : m \in ms}))
                          \o <<Ev("manager", "dao_created", d, s)>>
                          \o SetToSeq({Ev("manager", "dao_created_module", d, m) : m \in ms}), d, s, ms)
  <1> USE IndexerAssumption
  <1>0. PICK a, c : a = Ev(d, "token_initialized", Nothing, Nothing) /\ c = Ev("manager", "dao_created", d, s)
    OBVIOUS
  <1>1. /\ a \in Facts /\ a.at = d /\ a.name = "token_initialized" /\ a.dao = Nothing
        /\ c \in Facts /\ c.at = "manager" /\ c.name = "dao_created" /\ c.dao = d /\ c.what = s
    BY <1>0 DEF Ev, Facts, LinkNames
  <1>2. Proper(a) /\ Proper(c)
    BY <1>1 DEF Proper, LinkNames, BuildNames, RegistryNames, OwnNames
  <1>3. ms = {} \/ \E m \in Built : ms = {m}
    <2>1. IsFiniteSet(ms)
      BY FS_Subset
    <2>2. SUFFICES ASSUME NEW m \in ms PROVE ms = {m}
      OBVIOUS
    <2>3. ASSUME NEW x \in ms, x # m PROVE FALSE
      <3>1. Cardinality({m, x}) <= Cardinality(ms)
        BY <2>1, FS_Subset
      <3>2. Cardinality({x}) = 1
        BY FS_Singleton
      <3>3. Cardinality({x} \cup {m}) = 2
        <4>1. IsFiniteSet({x}) /\ m \notin {x}
          BY <2>3, FS_Singleton
        <4>2. Cardinality({x} \cup {m}) = Cardinality({x}) + 1
          BY <4>1, FS_AddElement
        <4> QED BY <3>2, <4>2
      <3>4. {m, x} = {x} \cup {m}
        OBVIOUS
      <3>5. Cardinality(ms) \in Nat
        BY <2>1, FS_CardinalityType
      <3> QED BY <3>1, <3>3, <3>4, <3>5
    <2> QED BY <2>3
  <1>4. CASE ms = {}
    <2>1. PICK es : es = <<a>> \o (SetToSeq({}) \o SetToSeq({})) \o <<c>> \o SetToSeq({})
      OBVIOUS
    <2>2. es = <<a, c>>
      <3>1. <<>> \in Seq({a, c}) /\ <<a>> \in Seq({a, c}) /\ <<a, c>> \in Seq({a, c})
        OBVIOUS
      <3>2. <<>> \o <<>> = <<>> /\ <<a>> \o <<>> = <<a>> /\ <<a, c>> \o <<>> = <<a, c>>
        BY <3>1, ConcatEmptySeq
      <3>3. es = ((<<a>> \o (<<>> \o <<>>)) \o <<c>>) \o <<>>
        BY <2>1, EmptyToSeq
      <3>4. <<a>> \o <<c>> = <<a, c>>
        BY Joined
      <3> QED BY <3>2, <3>3, <3>4
    <2>3. es \in Seq(Facts) /\ DOMAIN es = 1 .. 2 /\ es[1] = a /\ es[2] = c
      BY <1>1, <2>2
    <2>4. \A j \in DOMAIN es : j = 1 \/ j = 2
      BY <2>3
    <2>5. CreationEvents(es, d, s, {})
      BY <1>1, <1>2, <2>3, <2>4 DEF CreationEvents, LinkNames
    <2> QED BY <1>0, <1>4, <2>1, <2>5
  <1>5. ASSUME NEW m \in Built, ms = {m} PROVE CreationEvents(<<a>>
                          \o (SetToSeq({Ev(x, "initialized", Nothing, Nothing) : x \in ms})
                              \o SetToSeq({Ev(d, "module_registered", d, x) : x \in ms}))
                          \o <<c>> \o SetToSeq({Ev("manager", "dao_created_module", d, x) : x \in ms}), d, s, ms)
    <2>1. PICK i, r, b : /\ i = Ev(m, "initialized", Nothing, Nothing) /\ r = Ev(d, "module_registered", d, m)
                         /\ b = Ev("manager", "dao_created_module", d, m)
      OBVIOUS
    <2>2. /\ i \in Facts /\ i.at = m /\ i.name = "initialized" /\ i.dao = Nothing
          /\ r \in Facts /\ r.at = d /\ r.name = "module_registered" /\ r.dao = d /\ r.what = m
          /\ b \in Facts /\ b.at = "manager" /\ b.name = "dao_created_module" /\ b.dao = d /\ b.what = m
      BY <2>1 DEF Ev, Facts, OwnNames, RegistryNames, BuildNames, Modules
    <2>3. Proper(i) /\ Proper(r) /\ Proper(b)
      BY <2>2 DEF Proper, LinkNames, BuildNames, RegistryNames, OwnNames, Modules
    <2>4. /\ {Ev(x, "initialized", Nothing, Nothing) : x \in ms} = {i}
          /\ {Ev(d, "module_registered", d, x) : x \in ms} = {r}
          /\ {Ev("manager", "dao_created_module", d, x) : x \in ms} = {b}
      BY <1>5, <2>1
    <2>5. PICK es : es = <<a>> \o (<<i>> \o <<r>>) \o <<c>> \o <<b>>
      OBVIOUS
    <2>6. es \in Seq({a, i, r, c, b}) /\ Len(es) = 5 /\ es[1] = a /\ es[2] = i /\ es[3] = r /\ es[4] = c /\ es[5] = b
      <3>1. Holds5(es, a, i, r, c, b)
        BY <2>5, Five
      <3> QED BY <3>1 DEF Holds5
    <2>7. es \in Seq(Facts) /\ DOMAIN es = 1 .. 5 /\ \A j \in DOMAIN es : j = 1 \/ j = 2 \/ j = 3 \/ j = 4 \/ j = 5
      <3>1. {a, i, r, c, b} \subseteq Facts
        BY <1>1, <2>2
      <3> QED BY <2>6, <3>1
    <2>8. \A j \in DOMAIN es :
                            /\ Proper(es[j]) /\ es[j].at \in {"manager", d} \cup ms
                            /\ es[j].name \in LinkNames => es[j].name = "dao_created" /\ es[j].dao = d
                            /\ es[j].name = "module_registered" => es[j].dao = d /\ es[j].what \in ms
                            /\ es[j].name # "module_unregistered"
      <3>1. a.name \notin LinkNames /\ i.name \notin LinkNames /\ r.name \notin LinkNames /\ b.name \notin LinkNames
        BY <1>1, <2>2 DEF LinkNames
      <3> QED BY <1>1, <1>2, <1>5, <2>2, <2>3, <2>6, <2>7, <3>1
    <2>9. \E k \in DOMAIN es : /\ es[k].name = "dao_created" /\ es[k].dao = d /\ es[k].what = s
                               /\ \A j \in DOMAIN es : es[j].name = "dao_created" => j = k
      <3>1. 4 \in DOMAIN es
        BY <2>7
      <3> QED BY <1>1, <2>2, <2>6, <2>7, <3>1
    <2>10. \A x \in ms : /\ \E k \in DOMAIN es : es[k].name = "module_registered" /\ es[k].dao = d /\ es[k].what = x
                         /\ \E k \in DOMAIN es : es[k].name \in BuildNames /\ es[k].what = x
      <3>1. 3 \in DOMAIN es /\ 5 \in DOMAIN es
        BY <2>7
      <3> QED BY <1>5, <2>2, <2>6, <3>1 DEF BuildNames
    <2>11. CreationEvents(es, d, s, ms)
      BY <2>7, <2>8, <2>9, <2>10 DEF CreationEvents
    <2> QED BY <2>4, <2>5, <2>11, SingleToSeq
  <1> QED BY <1>0, <1>3, <1>4, <1>5

\* A creation: the first events of a DAO, all in one transaction.
LEMMA CreateStory ==
    ASSUME StoryInv, NEW d \in Daos, NEW s \in Slugs, NEW ms \in SUBSET Built, CreateDao(d, s, ms)
    PROVE  StoryInv' /\ Grown
  <1> USE IndexerAssumption
  <1>1. PICK es : es = <<Ev(d, "token_initialized", Nothing, Nothing)>>
                          \o (SetToSeq({Ev(m, "initialized", Nothing, Nothing) : m \in ms})
                              \o SetToSeq({Ev(d, "module_registered", d, m) : m \in ms}))
                          \o <<Ev("manager", "dao_created", d, s)>>
                          \o SetToSeq({Ev("manager", "dao_created_module", d, m) : m \in ms})
    OBVIOUS
  <1>2. CreationEvents(es, d, s, ms)
    BY <1>1, CreationEventsAre DEF CreateDao
  <1>3. /\ Emit(es) /\ registry' = [registry EXCEPT ![d] = ms] /\ author' = Belongs(es, registry')
        /\ stage' = [stage EXCEPT ![d] = "pending"] /\ slug' = [slug EXCEPT ![d] = s]
        /\ held' = held /\ moved' = moved /\ stage[d] = "none"
    BY <1>1 DEF CreateDao
  <1>4. LogInv /\ ModuleInv /\ ChainTypes /\ DaoInv(d)
    BY DEF StoryInv
  <1>5. Adds(es)
    BY <1>2, <1>3, <1>4, EmitAdds DEF CreationEvents
  <1>6. /\ stage'[d] = "pending" /\ slug'[d] = s /\ registry'[d] = ms /\ registry[d] = {} /\ Rows(d, LinkNames) = {}
        /\ \A x \in Daos \ {d} : stage'[x] = stage[x] /\ slug'[x] = slug[x] /\ registry'[x] = registry[x]
    BY <1>3, <1>4 DEF ChainTypes, DaoInv
  <1>7. ChainTypes'
    BY <1>3, <1>4 DEF ChainTypes, Modules
  <1>8. PICK k \in DOMAIN es : /\ es[k].name = "dao_created" /\ es[k].dao = d /\ es[k].what = s
                               /\ \A j \in DOMAIN es : es[j].name = "dao_created" => j = k
    BY <1>2 DEF CreationEvents
  <1>9. LogInv'
    <2>1. ASSUME NEW j \in DOMAIN es
          PROVE  /\ Proper(es[j])
                 /\ es[j].at \in Daos => \E i \in DOMAIN es : es[i].name = "dao_created" /\ es[i].dao = es[j].at
                 /\ \A m \in Built : es[j].at = m \/ (es[j].name = "module_registered" /\ es[j].what = m) =>
                        \E i \in DOMAIN es : es[i].name \in BuildNames /\ es[i].what = m
      <3>1. es[j].at \in Daos => es[j].at = d
        BY <1>2, <2>1 DEF CreationEvents, Modules
      <3>2. \A m \in Built : es[j].at = m \/ (es[j].name = "module_registered" /\ es[j].what = m) => m \in ms
        BY <1>2, <2>1 DEF CreationEvents, Modules
      <3>3. \A m \in ms : \E i \in DOMAIN es : es[i].name \in BuildNames /\ es[i].what = m
        BY <1>2 DEF CreationEvents
      <3>4. Proper(es[j])
        BY <1>2, <2>1 DEF CreationEvents
      <3> QED BY <1>8, <3>1, <3>2, <3>3, <3>4
    <2> QED BY <1>4, <1>5, <2>1, LogStep
  <1>10. \A j \in DOMAIN es : es[j].name \in LinkNames => es[j].name = "dao_created" /\ es[j].dao = d
    BY <1>2 DEF CreationEvents
  <1>11. DaoInv(d)'
    <2>1. PICK n : n = Len(log) + k
      OBVIOUS
    <2>2. n \in DOMAIN log' /\ log'[n].what = s /\ log'[n].name = "dao_created" /\ log'[n].dao = d
      BY <1>4, <1>5, <1>8, <2>1, NewEvent
    <2>3. Rows(d, {"dao_created"})' # {}
      BY <2>2 DEF Rows
    <2>4. Latest(Rows(d, RequestNames)', n)
      <3>1. es[k].name \in RequestNames
        BY <1>8 DEF RequestNames
      <3>2. \A j \in DOMAIN es : es[j].name \in RequestNames => j <= k
        <4>1. \A j \in DOMAIN es : es[j].name \in RequestNames => j = k
          BY <1>8, <1>10 DEF RequestNames, LinkNames
        <4>2. k <= k
          BY <1>4, <1>5, NewPlaces
        <4> QED BY <4>1, <4>2
      <3> QED BY <1>4, <1>5, <1>8, <2>1, <3>1, <3>2, RowsNew
    <2>5. Rows(d, HoldNames \cup {"assurance_opened", "dao_launched"})' = {}
      <3>1. PICK N : N = HoldNames \cup {"assurance_opened", "dao_launched"}
        OBVIOUS
      <3>2. N \subseteq LinkNames /\ "dao_created" \notin N
        BY <3>1 DEF HoldNames, LinkNames
      <3>3. Rows(d, N)' = Rows(d, N)
        <4>1. \A j \in DOMAIN es : ~(es[j].name \in N /\ es[j].dao = d)
          BY <1>10, <3>2
        <4> QED BY <1>4, <1>5, <4>1, RowsKept
      <3>4. Rows(d, N) = {}
        BY <1>6, <3>2 DEF Rows
      <3> QED BY <3>1, <3>3, <3>4 DEF Rows
    <2> QED BY <1>6, <2>2, <2>3, <2>4, <2>5 DEF DaoInv
  <1>12. ASSUME NEW x \in Daos PROVE DaoInv(x)'
    <2>1. CASE x = d
      BY <1>11, <2>1
    <2>2. CASE x # d
      <3>1. DaoInv(x)
        BY DEF StoryInv
      <3>2. \A j \in DOMAIN es : ~(es[j].name \in LinkNames /\ es[j].dao = x)
        BY <1>10, <2>2
      <3> QED BY <1>3, <1>4, <1>5, <1>6, <2>2, <3>1, <3>2, DaoKept
    <2> QED BY <2>1, <2>2
  <1>13. ASSUME NEW x \in Slugs PROVE SlugInv(x)'
    <2>1. SlugInv(x)
      BY DEF StoryInv
    <2>2. held'[x] # Nothing => slug'[held'[x]] = x /\ stage'[held'[x]] \in {"driving", "live"}
      BY <1>3, <1>6, Holder
    <2>3. \A j \in DOMAIN es : ~(es[j].name = "slug_changed" /\ es[j].what[1] = x)
      BY <1>10 DEF LinkNames
    <2> QED BY <1>3, <1>4, <1>5, <2>1, <2>2, <2>3, SlugKept
  <1>14. ASSUME NEW x \in Daos, NEW y \in Modules PROVE y \in registry'[x] <=> Stands(x, y)'
    <2> DEFINE r == \E j \in DOMAIN es : es[j].name = "module_registered" /\ es[j].dao = x /\ es[j].what = y
    <2>1. \A j \in DOMAIN es : es[j].name # "module_unregistered"
      BY <1>2 DEF CreationEvents
    <2>2. r <=> x = d /\ y \in ms
      BY <1>2 DEF CreationEvents
    <2> HIDE DEF r
    <2>3. (r /\ y \in registry'[x]) \/ (~r /\ (y \in registry'[x] <=> y \in registry[x]))
      BY <1>6, <2>2
    <2> QED BY <1>4, <1>5, <2>1, <2>3, RegistryStep DEF r
  <1>15. ModuleInv'
    <2>1. \A j \in DOMAIN es : es[j].name # "module_unregistered"
      BY <1>2 DEF CreationEvents
    <2> QED BY <1>3, <1>4, <1>5, <1>9, <1>14, <2>1, ModuleStep
  <1>16. Grown
    BY <1>4, <1>5, GrownBy
  <1> QED BY <1>7, <1>9, <1>12, <1>13, <1>15, <1>16 DEF StoryInv


-----------------------------------------------------------------------------
(* The pipeline.                                                           *)

\* What the roles mean, in tables filled from the log.
LEMMA RoleOf ==
    ASSUME NEW ts, TablesOK(ts), NEW a \in {"manager"} \cup Daos \cup Modules
    PROVE  /\ a = "manager" => Role(ts, a) = "manager"
           /\ a \in Daos => Role(ts, a) = IF a \in ts["token"] THEN "token" ELSE "unknown"
           /\ a \in Built => Role(ts, a) = IF a \in ts["built"] THEN "built" ELSE "unknown"
           /\ a \in Foreign => Role(ts, a) = IF a \in ts["module"] THEN "module" ELSE "unknown"
           /\ a \in {"manager"} \cup Daos \cup Built \cup Foreign
  <1> USE IndexerAssumption DEF Modules
  <1>1. /\ "manager" \notin Daos /\ "manager" \notin Built /\ "manager" \notin Foreign
        /\ ts["token"] \subseteq Daos /\ ts["built"] \subseteq Built /\ ts["module"] \subseteq Built \cup Foreign
        /\ ts["module"] \cap Built \subseteq ts["built"]
    BY DEF TablesOK
  <1>2. a = "manager" => Role(ts, a) = "manager"
    <2>1. a = "manager" => a \notin ts["token"] /\ a \notin ts["built"] /\ a \notin ts["module"]
      BY <1>1
    <2> QED BY <2>1 DEF Role
  <1>3. a \in Daos => Role(ts, a) = IF a \in ts["token"] THEN "token" ELSE "unknown"
    <2>1. a \in Daos => a # "manager" /\ a \notin ts["built"] /\ a \notin ts["module"]
      BY <1>1
    <2> QED BY <2>1 DEF Role
  <1>4. a \in Built => Role(ts, a) = IF a \in ts["built"] THEN "built" ELSE "unknown"
    <2>1. a \in Built => /\ a # "manager" /\ a \notin ts["token"]
                         /\ a \notin ts["built"] => a \notin ts["module"]
      BY <1>1
    <2> QED BY <2>1 DEF Role
  <1>5. a \in Foreign => Role(ts, a) = IF a \in ts["module"] THEN "module" ELSE "unknown"
    <2>1. a \in Foreign => a # "manager" /\ a \notin ts["token"] /\ a \notin ts["built"]
      BY <1>1
    <2> QED BY <2>1 DEF Role
  <1> QED BY <1>2, <1>3, <1>4, <1>5

\* A batch ends between transactions.
LEMMA EndsClosed ==
    ASSUME LogInv, offset \in 0 .. Len(log), NEW n \in Ends, NEW i \in DOMAIN log, i <= n,
           NEW k \in DOMAIN log, log[k].tx <= log[i].tx
    PROVE  k <= n
  <1>1. n \in DOMAIN log /\ (n = Len(log) \/ log[n + 1].tx # log[n].tx) /\ n \in Nat /\ k \in Nat /\ k <= Len(log)
    <2>1. n \in offset + 1 .. Len(log) /\ (n = Len(log) \/ log[n + 1].tx # log[n].tx)
      BY DEF Ends
    <2>2. Len(log) \in Nat /\ DOMAIN log = 1 .. Len(log)
      BY Places
    <2>3. n \in 1 .. Len(log)
      <3>1. n \in offset + 1 .. Len(log)
        BY <2>1
      <3> QED BY <2>2, <3>1
    <2>4. k \in 1 .. Len(log)
      BY <2>2
    <2>5. n \in Nat /\ k \in Nat /\ k <= Len(log)
      BY <2>2, <2>3, <2>4
    <2>6. n \in DOMAIN log
      BY <2>2, <2>3
    <2> QED BY <2>1, <2>5, <2>6
  <1>2. SUFFICES ASSUME k > n PROVE FALSE
    BY <1>1
  <1>3. n + 1 \in DOMAIN log /\ n + 1 <= k
    BY <1>1, <1>2, Places
  <1>4. log[i].tx <= log[n].tx /\ log[n].tx <= log[n + 1].tx /\ log[n + 1].tx <= log[k].tx
    BY <1>1, <1>3 DEF LogInv
  <1>5. log[n + 1].tx # log[n].tx
    BY <1>1, <1>3, Places
  <1>6. log[i].tx \in Nat /\ log[n].tx \in Nat /\ log[n + 1].tx \in Nat /\ log[k].tx \in Nat
    BY <1>1, <1>3, Places
  <1> QED BY <1>4, <1>5, <1>6

\* The allowlists after a batch: they stay in shape, keep what they had, and know what the batch names.
LEMMA FilledOK ==
    ASSUME LogInv, NEW ts, TablesOK(ts), offset \in 0 .. Len(log), Knows(ts, offset), NEW n \in Ends
    PROVE  LET us == Filled(ts, Batch(n))
           IN  TablesOK(us) /\ Knows(us, n) /\ \A r \in Roles : ts[r] \subseteq us[r]
  <1> USE IndexerAssumption
  <1>0. PICK us : us = Filled(ts, Batch(n))
    OBVIOUS
  <1> DEFINE new == offset + 1 .. n
  <1>1. n \in offset + 1 .. Len(log) /\ new \subseteq DOMAIN log /\ Batch(n) = {log[i] : i \in new}
        /\ Len(log) \in Nat /\ DOMAIN log = 1 .. Len(log)
    <2>1. n \in offset + 1 .. Len(log) /\ Len(log) \in Nat /\ DOMAIN log = 1 .. Len(log)
      BY Places DEF Ends
    <2>2. new \subseteq DOMAIN log
      BY <2>1
    <2> QED BY <2>1, <2>2 DEF Batch
  <1>2. /\ us = [r \in Roles |-> us[r]] /\ Roles = {"token", "built", "module"}
        /\ us["token"] = ts["token"] \cup {e.dao : e \in {x \in Batch(n) : x.name = "dao_created"}}
        /\ us["built"] = ts["built"] \cup {e.what : e \in {x \in Batch(n) : x.name \in BuildNames}}
        /\ us["module"] = ts["module"] \cup
              {e.what : e \in {x \in Batch(n) : x.name = "module_registered" /\ x.at \in us["token"]}}
    BY <1>0 DEF Filled, Roles, BuildNames
  <1>3. /\ \A a \in us["token"] : a \in ts["token"] \/ \E k \in new : Creates(k, a)
        /\ \A a \in us["built"] : a \in ts["built"] \/ \E k \in new : Builds(k, a)
        /\ \A a \in us["module"] :
            a \in ts["module"] \/ \E k \in new : log[k].name = "module_registered" /\ log[k].what = a
    BY <1>1, <1>2 DEF Creates, Builds
  <1>4. \A k \in new : /\ log[k].name = "dao_created" => log[k].dao \in us["token"]
                       /\ log[k].name \in BuildNames => log[k].what \in us["built"]
                       /\ log[k].name = "module_registered" /\ log[k].at \in us["token"] => log[k].what \in us["module"]
    BY <1>1, <1>2
  <1>5. \A r \in Roles : ts[r] \subseteq us[r]
    BY <1>2
  <1>6. \A k \in DOMAIN log : Proper(log[k])
    BY DEF LogInv
  <1> HIDE DEF new
  <1>7. \A k \in DOMAIN log : k \in 1 .. offset \/ k \in new \/ k > n
    BY <1>1 DEF new
  <1>8. us["token"] \subseteq Daos /\ us["built"] \subseteq Built /\ us["module"] \subseteq Modules
    <2>1. \A k \in new : log[k].name = "dao_created" => log[k].dao \in Daos
      BY <1>1, <1>6 DEF Proper, LinkNames
    <2>2. \A k \in new : log[k].name \in BuildNames => log[k].what \in Built
      BY <1>1, <1>6 DEF Proper
    <2>3. \A k \in new : log[k].name = "module_registered" => log[k].what \in Modules
      BY <1>1, <1>6 DEF Proper, RegistryNames
    <2> QED BY <1>3, <2>1, <2>2, <2>3 DEF TablesOK, Creates, Builds
  <1>9. ASSUME NEW k \in DOMAIN log, k <= n
        PROVE  /\ log[k].name = "dao_created" => log[k].dao \in us["token"]
               /\ log[k].name \in BuildNames => log[k].what \in us["built"]
               /\ log[k].name = "module_registered" => log[k].what \in us["module"]
    <2>1. CASE k \in 1 .. offset
      <3>1. "token" \in Roles /\ "built" \in Roles /\ "module" \in Roles
        BY DEF Roles
      <3> QED BY <1>5, <2>1, <3>1 DEF Knows
    <2>2. CASE k \in new
      <3>1. ASSUME log[k].name = "module_registered" PROVE log[k].at \in us["token"]
        <4>1. log[k].at \in Daos
          BY <1>6, <3>1 DEF Proper, RegistryNames
        <4>2. PICK c \in DOMAIN log : Creates(c, log[k].at) /\ log[c].tx <= log[k].tx
          BY <4>1 DEF LogInv
        <4>3. c <= n
          BY <1>9, <4>2, EndsClosed
        <4>4. c \in 1 .. offset \/ c \in new
          BY <1>1, <1>7, <4>3
        <4>5. CASE c \in 1 .. offset
          <5>1. log[k].at \in ts["token"]
            BY <4>2, <4>5 DEF Knows, Creates
          <5> QED BY <1>2, <5>1
        <4>6. CASE c \in new
          BY <1>4, <4>2, <4>6 DEF Creates
        <4> QED BY <4>4, <4>5, <4>6
      <3> QED BY <1>4, <2>2, <3>1
    <2> QED BY <1>1, <1>7, <1>9, <2>1, <2>2
  <1>10. Knows(us, n)
    <2>1. \A k \in 1 .. n : k \in DOMAIN log /\ k <= n
      BY <1>1
    <2> QED BY <1>9, <2>1 DEF Knows
  <1>11. us["module"] \cap Built \subseteq us["built"]
    <2>1. SUFFICES ASSUME NEW m \in us["module"], m \in Built PROVE m \in us["built"]
      OBVIOUS
    <2>2. CASE m \in ts["module"]
      BY <1>2, <2>1, <2>2 DEF TablesOK
    <2>3. ASSUME NEW k \in new, log[k].name = "module_registered", log[k].what = m PROVE m \in us["built"]
      <3>1. k \in DOMAIN log /\ k <= n
        BY <1>1, <2>3 DEF new
      <3>2. PICK b \in DOMAIN log : Builds(b, m) /\ log[b].tx <= log[k].tx
        BY <2>1, <2>3, <3>1 DEF LogInv
      <3>3. b <= n
        BY <3>1, <3>2, EndsClosed
      <3> QED BY <1>9, <3>2, <3>3 DEF Builds
    <2> QED BY <1>3, <2>1, <2>2, <2>3
  <1>12. us \in [Roles -> SUBSET (Daos \cup Modules)]
    <2>1. us["token"] \subseteq Daos \cup Modules /\ us["built"] \subseteq Daos \cup Modules
          /\ us["module"] \subseteq Daos \cup Modules
      BY <1>8 DEF Modules
    <2> QED BY <1>2, <2>1
  <1>13. TablesOK(us)
    BY <1>8, <1>11, <1>12 DEF TablesOK
  <1> QED BY <1>0, <1>5, <1>10, <1>13

\* A role once given stays.
LEMMA RoleStays ==
    ASSUME NEW ts, NEW us, TablesOK(ts), TablesOK(us), \A r \in Roles : ts[r] \subseteq us[r],
           NEW a \in {"manager"} \cup Daos \cup Modules, Role(ts, a) # "unknown"
    PROVE  Role(us, a) = Role(ts, a)
  <1>1. "token" \in Roles /\ "built" \in Roles /\ "module" \in Roles
    BY DEF Roles
  <1> QED BY <1>1, RoleOf

\* What is due has a role when its batch has been read.
LEMMA DueHasRole ==
    ASSUME LogInv, offset \in 0 .. Len(log), NEW ts, NEW n \in Ends, TablesOK(ts), Knows(ts, n),
           NEW i \in DOMAIN log, i <= n, Due(i)
    PROVE  Role(ts, log[i].at) # "unknown"
  <1> USE IndexerAssumption
  <1>1. log[i] \in Entries /\ log[i].at \in {"manager"} \cup Daos \cup Modules
    BY Places DEF Entries
  <1>2. \A k \in DOMAIN log : k <= n => k \in 1 .. n
    BY Places DEF Ends
  <1>3. CASE log[i].at \in Daos
    <2>1. PICK k \in DOMAIN log : Creates(k, log[i].at) /\ log[k].tx <= log[i].tx
      BY <1>3 DEF LogInv
    <2>2. k \in 1 .. n
      BY <1>2, <2>1, EndsClosed
    <2> QED BY <1>1, <1>3, <2>1, <2>2, RoleOf DEF Knows, Creates
  <1>4. CASE log[i].at \in Built
    <2>1. PICK k \in DOMAIN log : Builds(k, log[i].at) /\ log[k].tx <= log[i].tx
      BY <1>4 DEF LogInv
    <2>2. k \in 1 .. n
      BY <1>2, <2>1, EndsClosed
    <2> QED BY <1>1, <1>4, <2>1, <2>2, RoleOf DEF Knows, Builds
  <1>5. CASE log[i].at \in Foreign
    <2>1. PICK k \in DOMAIN log : /\ log[k].name = "module_registered" /\ log[k].what = log[i].at
                                  /\ log[k].tx <= log[i].tx
      BY <1>5 DEF Due
    <2>2. k \in 1 .. n
      BY <1>2, <2>1, EndsClosed
    <2> QED BY <1>1, <1>5, <2>1, <2>2, RoleOf DEF Knows
  <1> QED BY <1>1, <1>3, <1>4, <1>5, RoleOf DEF Modules


\* The calls on the chain leave the pipeline's books right.
LEMMA PipeKept ==
    ASSUME LogInv, LogInv', PipeInv, Grown, pipeVars' = pipeVars
    PROVE  PipeInv'
  <1>1. /\ offset' = offset /\ tables' = tables /\ decoded' = decoded /\ feed' = feed
        /\ Len(log) \in Nat /\ DOMAIN log = 1 .. Len(log) /\ Len(log') \in Nat /\ DOMAIN log' = 1 .. Len(log')
    BY Places DEF pipeVars, LogInv
  <1>2. \A i \in DOMAIN log : i \in DOMAIN log' /\ log'[i] = log[i]
    BY DEF Grown
  <1>3. offset' \in 0 .. Len(log') /\ 1 .. offset \subseteq DOMAIN log
    <2>1. offset \in 0 .. Len(log)
      BY DEF PipeInv
    <2>2. offset = 0 \/ offset \in DOMAIN log'
      BY <1>1, <1>2, <2>1
    <2> QED BY <1>1, <2>1, <2>2
  <1>4. TablesOK(tables)' /\ Knows(tables, offset)'
    <2>1. TablesOK(tables) /\ Knows(tables, offset)
      BY DEF PipeInv
    <2>2. TablesOK(tables)'
      BY <1>1, <2>1 DEF TablesOK
    <2>3. \A k \in 1 .. offset : log'[k] = log[k]
      BY <1>2, <1>3
    <2>4. Knows(tables, offset)'
      BY <1>1, <2>1, <2>3 DEF Knows
    <2> QED BY <2>2, <2>4
  <1>5. \A r \in decoded' :
            r.at \in DOMAIN log' /\ r.role = Role(tables', log'[r.at].at) /\ r.role # "unknown"
    BY <1>1, <1>2 DEF PipeInv
  <1>6. \A r \in feed' :
            /\ r.at \in DOMAIN log' /\ r.role = Role(tables', log'[r.at].at) /\ r.role # "unknown"
            /\ r.visibility = Visibility(log'[r.at].name, r.role)
    BY <1>1, <1>2 DEF PipeInv
  <1>7. ASSUME NEW i \in 1 .. offset, Due(i)' PROVE Due(i)
    <2>1. i \in DOMAIN log /\ log'[i] = log[i]
      BY <1>2, <1>3
    <2>2. SUFFICES ASSUME log[i].at \in Foreign
                   PROVE  \E g \in DOMAIN log : /\ log[g].name = "module_registered" /\ log[g].what = log[i].at
                                                /\ log[g].tx <= log[i].tx
      BY DEF Due
    <2>3. PICK g \in DOMAIN log' : /\ log'[g].name = "module_registered" /\ log'[g].what = log[i].at
                                   /\ log'[g].tx <= log[i].tx
      BY <1>7, <2>1, <2>2 DEF Due
    <2>4. g \in DOMAIN log
      <3>1. SUFFICES ASSUME g \notin DOMAIN log PROVE FALSE
        OBVIOUS
      <3>2. log'[g].tx > log[i].tx
        BY <2>1, <3>1 DEF Grown
      <3>3. log'[g] \in Entries /\ log[i].tx \in Nat
        BY <2>1, Places DEF LogInv
      <3>4. log'[g].tx \in Nat
        BY <3>3 DEF Entries
      <3> QED BY <2>3, <3>2, <3>3, <3>4
    <2> QED BY <1>2, <2>3, <2>4
  <1>8. \A i \in 1 .. offset' : Due(i)' => (\E r \in decoded' : r.at = i) /\ (\E r \in feed' : r.at = i)
    BY <1>1, <1>7 DEF PipeInv
  <1> QED BY <1>3, <1>4, <1>5, <1>6, <1>8 DEF PipeInv

\* Every place of the log has an address.
LEMMA Addresses == ASSUME LogInv PROVE \A i \in DOMAIN log : log[i].at \in {"manager"} \cup Daos \cup Modules
  <1>1. \A i \in DOMAIN log : log[i] \in Entries
    BY Places
  <1> QED BY <1>1 DEF Entries

\* What both deliveries do: rows keep their roles in the fuller tables, and those added have theirs.
LEMMA RowsFit ==
    ASSUME LogInv, PipeInv, NEW us, TablesOK(us), \A r \in Roles : tables[r] \subseteq us[r],
           NEW n \in Ends, NEW d \in offset .. n
    PROVE  /\ \A r \in decoded \cup DecodedRows(us, offset + 1 .. d) :
                r.at \in DOMAIN log /\ r.role = Role(us, log[r.at].at) /\ r.role # "unknown"
           /\ \A r \in feed \cup FeedRows(DecodedRows(us, offset + 1 .. d)) :
                /\ r.at \in DOMAIN log /\ r.role = Role(us, log[r.at].at) /\ r.role # "unknown"
                /\ r.visibility = Visibility(log[r.at].name, r.role)
  <1>1. TablesOK(tables)
    BY DEF PipeInv
  <1>2. \A r \in decoded : r.at \in DOMAIN log /\ r.role = Role(us, log[r.at].at) /\ r.role # "unknown"
    <2>1. SUFFICES ASSUME NEW r \in decoded
                   PROVE  r.at \in DOMAIN log /\ r.role = Role(us, log[r.at].at) /\ r.role # "unknown"
      OBVIOUS
    <2>2. r.at \in DOMAIN log /\ r.role = Role(tables, log[r.at].at) /\ r.role # "unknown"
      BY DEF PipeInv
    <2>3. Role(us, log[r.at].at) = Role(tables, log[r.at].at)
      BY <1>1, <2>2, Addresses, RoleStays
    <2> QED BY <2>2, <2>3
  <1>3. \A r \in feed : /\ r.at \in DOMAIN log /\ r.role = Role(us, log[r.at].at) /\ r.role # "unknown"
                        /\ r.visibility = Visibility(log[r.at].name, r.role)
    <2>1. SUFFICES ASSUME NEW r \in feed
                   PROVE  /\ r.at \in DOMAIN log /\ r.role = Role(us, log[r.at].at) /\ r.role # "unknown"
                          /\ r.visibility = Visibility(log[r.at].name, r.role)
      OBVIOUS
    <2>2. /\ r.at \in DOMAIN log /\ r.role = Role(tables, log[r.at].at) /\ r.role # "unknown"
          /\ r.visibility = Visibility(log[r.at].name, r.role)
      BY DEF PipeInv
    <2>3. Role(us, log[r.at].at) = Role(tables, log[r.at].at)
      BY <1>1, <2>2, Addresses, RoleStays
    <2> QED BY <2>2, <2>3
  <1>4. \A i \in offset + 1 .. d : i \in DOMAIN log
    <2>1. n \in offset + 1 .. Len(log) /\ Len(log) \in Nat /\ DOMAIN log = 1 .. Len(log)
      BY Places DEF Ends
    <2>2. offset \in 0 .. Len(log)
      BY DEF PipeInv
    <2> QED BY <2>1, <2>2
  <1>5. \A r \in DecodedRows(us, offset + 1 .. d) :
            r.at \in DOMAIN log /\ r.role = Role(us, log[r.at].at) /\ r.role # "unknown"
    BY <1>4 DEF DecodedRows
  <1>6. \A r \in FeedRows(DecodedRows(us, offset + 1 .. d)) :
                /\ r.at \in DOMAIN log /\ r.role = Role(us, log[r.at].at) /\ r.role # "unknown"
                /\ r.visibility = Visibility(log[r.at].name, r.role)
    BY <1>5 DEF FeedRows
  <1> QED BY <1>2, <1>3, <1>5, <1>6

\* A batch delivered: what is due of it has landed.
LEMMA DeliverPipe == ASSUME LogInv, PipeInv, NEW n \in Ends, Deliver(n) PROVE PipeInv'
  <1>1. PICK us : us = Filled(tables, Batch(n))
    OBVIOUS
  <1>2. /\ tables' = us /\ offset' = n /\ log' = log
        /\ decoded' = decoded \cup DecodedRows(us, offset + 1 .. n)
        /\ feed' = feed \cup FeedRows(DecodedRows(us, offset + 1 .. n))
    BY <1>1 DEF Deliver, chainVars
  <1>3. offset \in 0 .. Len(log) /\ TablesOK(tables) /\ Knows(tables, offset)
    BY DEF PipeInv
  <1>4. TablesOK(us) /\ Knows(us, n) /\ \A r \in Roles : tables[r] \subseteq us[r]
    BY <1>1, <1>3, FilledOK
  <1>5. n \in offset + 1 .. Len(log) /\ n \in offset .. n /\ Len(log) \in Nat /\ DOMAIN log = 1 .. Len(log)
    <2>1. n \in offset + 1 .. Len(log)
      BY DEF Ends
    <2>2. Len(log) \in Nat /\ DOMAIN log = 1 .. Len(log)
      BY Places
    <2> QED BY <1>3, <2>1, <2>2
  <1>6. /\ \A r \in decoded' :
                r.at \in DOMAIN log /\ r.role = Role(us, log[r.at].at) /\ r.role # "unknown"
        /\ \A r \in feed' :
                /\ r.at \in DOMAIN log /\ r.role = Role(us, log[r.at].at) /\ r.role # "unknown"
                /\ r.visibility = Visibility(log[r.at].name, r.role)
    BY <1>2, <1>4, <1>5, RowsFit
  <1>7. ASSUME NEW i \in 1 .. n, Due(i) PROVE (\E r \in decoded' : r.at = i) /\ (\E r \in feed' : r.at = i)
    <2>1. i \in DOMAIN log /\ (i \in 1 .. offset \/ i \in offset + 1 .. n)
      BY <1>3, <1>5
    <2>2. CASE i \in 1 .. offset
      BY <1>2, <1>7, <2>2 DEF PipeInv
    <2>3. CASE i \in offset + 1 .. n
      <3>1. Role(us, log[i].at) # "unknown"
        BY <1>3, <1>4, <1>5, <1>7, <2>1, DueHasRole
      <3>2. [at |-> i, role |-> Role(us, log[i].at)] \in DecodedRows(us, offset + 1 .. n)
        BY <2>3, <3>1 DEF DecodedRows
      <3>3. \E r \in FeedRows(DecodedRows(us, offset + 1 .. n)) : r.at = i
        <4>1. PICK r \in DecodedRows(us, offset + 1 .. n) : r.at = i
          BY <3>2
        <4>2. PICK x : x = [at |-> r.at, role |-> r.role, visibility |-> Visibility(log[r.at].name, r.role)]
          OBVIOUS
        <4>3. x \in FeedRows(DecodedRows(us, offset + 1 .. n)) /\ x.at = i
          BY <4>1, <4>2 DEF FeedRows
        <4> QED BY <4>3
      <3> QED BY <1>2, <3>2, <3>3
    <2> QED BY <2>1, <2>2, <2>3
  <1>8. \A i \in 1 .. n : Due(i)' => Due(i)
    BY <1>2 DEF Due
  <1>9. Knows(us, n)'
    BY <1>2, <1>4 DEF Knows
  <1>10. n \in 0 .. Len(log)
    BY <1>3, <1>5
  <1>11. \A i \in 1 .. n : Due(i)' => (\E r \in decoded' : r.at = i) /\ (\E r \in feed' : r.at = i)
    BY <1>7, <1>8
  <1> QED BY <1>2, <1>4, <1>6, <1>9, <1>10, <1>11 DEF PipeInv, Knows

\* A batch interrupted: the offset stays, and what was written is what will be written again.
LEMMA PartlyPipe ==
    ASSUME LogInv, PipeInv, NEW n \in Ends, NEW d \in offset .. n, NEW f \in offset .. n, DeliverPartly(n, d, f)
    PROVE  PipeInv'
  <1>1. PICK us : us = Filled(tables, Batch(n))
    OBVIOUS
  <1>2. /\ tables' = us /\ offset' = offset /\ log' = log
        /\ decoded' = decoded \cup DecodedRows(us, offset + 1 .. d)
        /\ feed' = feed \cup FeedRows(DecodedRows(us, offset + 1 .. f))
    BY <1>1 DEF DeliverPartly, chainVars
  <1>3. offset \in 0 .. Len(log) /\ TablesOK(tables) /\ Knows(tables, offset)
    BY DEF PipeInv
  <1>4. TablesOK(us) /\ Knows(us, n) /\ \A r \in Roles : tables[r] \subseteq us[r]
    BY <1>1, <1>3, FilledOK
  <1>5. \A r \in decoded' :
                r.at \in DOMAIN log /\ r.role = Role(us, log[r.at].at) /\ r.role # "unknown"
    BY <1>2, <1>4, RowsFit
  <1>6. \A r \in feed' :
                /\ r.at \in DOMAIN log /\ r.role = Role(us, log[r.at].at) /\ r.role # "unknown"
                /\ r.visibility = Visibility(log[r.at].name, r.role)
    BY <1>2, <1>4, RowsFit
  <1>7. Knows(us, offset)
    <2>1. n \in offset + 1 .. Len(log) /\ Len(log) \in Nat
      BY Places DEF Ends
    <2>2. 1 .. offset \subseteq 1 .. n
      BY <1>3, <2>1
    <2> QED BY <1>4, <2>2 DEF Knows
  <1>8. \A i \in 1 .. offset : Due(i)' => Due(i)
    BY <1>2 DEF Due
  <1>9. \A i \in 1 .. offset : Due(i)' => (\E r \in decoded' : r.at = i) /\ (\E r \in feed' : r.at = i)
    BY <1>2, <1>8 DEF PipeInv
  <1> QED BY <1>2, <1>3, <1>4, <1>5, <1>6, <1>7, <1>9 DEF PipeInv, Knows

\* A replay from the start, with the allowlists or without.
LEMMA ResetPipe == ASSUME LogInv, PipeInv, NEW drop \in BOOLEAN, Reset(drop) PROVE PipeInv'
  <1>1. /\ offset' = 0 /\ decoded' = {} /\ feed' = {} /\ log' = log
        /\ tables' = NoTables \/ tables' = tables
    BY DEF Reset, chainVars
  <1>2. TablesOK(tables) /\ TablesOK(NoTables)
    BY DEF PipeInv, TablesOK, NoTables, Roles
  <1>3. Len(log) \in Nat /\ 1 .. 0 = {}
    BY Places
  <1> QED BY <1>1, <1>2, <1>3 DEF PipeInv, Knows

\* The pipeline and the chain do not write each other's state.
LEMMA StoryKept == ASSUME StoryInv, chainVars' = chainVars PROVE StoryInv'
  <1>1. /\ log' = log /\ stage' = stage /\ slug' = slug /\ held' = held /\ moved' = moved
        /\ registry' = registry /\ author' = author
    BY DEF chainVars
  <1>2. ChainTypes'
    BY <1>1 DEF StoryInv, ChainTypes
  <1>3. LogInv'
    BY <1>1 DEF StoryInv, LogInv, Proper, Creates, Builds
  <1>4. ModuleInv'
    BY <1>1 DEF StoryInv, ModuleInv, Stands, StoodAt, Regs, Unregs
  <1>5. ASSUME NEW d \in Daos PROVE DaoInv(d)'
    <2>1. DaoInv(d)
      BY DEF StoryInv
    <2> QED BY <1>1, <2>1 DEF DaoInv, Rows, Target
  <1>6. ASSUME NEW s \in Slugs PROVE SlugInv(s)'
    <2>1. SlugInv(s)
      BY DEF StoryInv
    <2> QED BY <1>1, <2>1 DEF SlugInv, Moves
  <1> QED BY <1>2, <1>3, <1>4, <1>5, <1>6 DEF StoryInv

\* Nothing has happened.
LEMMA IndexStart == ASSUME IndexInit PROVE IndexInv
  <1>1. DOMAIN log = {} /\ log = <<>> /\ Len(log) = 0
    BY DEF IndexInit
  <1>2. ChainTypes
    BY DEF IndexInit, ChainTypes
  <1>3. LogInv
    BY <1>1 DEF LogInv
  <1>4. ModuleInv
    <2>1. \A d \in Daos, m \in Modules : registry[d] = {} /\ ~Stands(d, m)
      BY <1>1 DEF IndexInit, Stands, Regs
    <2>2. author \in [{i \in DOMAIN log : log[i].at \in Modules} -> SUBSET Daos]
      BY <1>1 DEF IndexInit
    <2> QED BY <1>1, <2>1, <2>2 DEF ModuleInv
  <1>5. ASSUME NEW d \in Daos PROVE DaoInv(d)
    BY <1>1 DEF IndexInit, DaoInv, Rows
  <1>6. ASSUME NEW s \in Slugs PROVE SlugInv(s)
    BY <1>1 DEF IndexInit, SlugInv, Moves
  <1>7. PipeInv
    <2>1. TablesOK(tables)
      BY DEF IndexInit, TablesOK, NoTables, Roles
    <2>2. offset = 0 /\ decoded = {} /\ feed = {} /\ 1 .. 0 = {}
      BY DEF IndexInit
    <2> QED BY <1>1, <2>1, <2>2 DEF PipeInv, Knows
  <1> QED BY <1>2, <1>3, <1>4, <1>5, <1>6, <1>7 DEF IndexInv, StoryInv

\* Every step of the chain and of the pipeline.
LEMMA IndexStep == ASSUME IndexInv, [IndexNext]_indexVars PROVE IndexInv'
  <1>1. StoryInv /\ PipeInv /\ LogInv
    BY DEF IndexInv, StoryInv
  <1>2. ASSUME StoryInv', Grown, pipeVars' = pipeVars PROVE IndexInv'
    <2>1. LogInv'
      BY <1>2 DEF StoryInv
    <2> QED BY <1>1, <1>2, <2>1, PipeKept DEF IndexInv
  <1>3. ASSUME NEW d \in Daos, NEW s \in Slugs, NEW ms \in SUBSET Built, CreateDao(d, s, ms) PROVE IndexInv'
    <2>1. pipeVars' = pipeVars
      BY <1>3 DEF CreateDao, pipeVars
    <2> QED BY <1>1, <1>2, <1>3, <2>1, CreateStory
  <1>4. ASSUME NEW d \in Daos, OpenAssurance(d) PROVE IndexInv'
    <2>1. pipeVars' = pipeVars
      BY <1>4 DEF OpenAssurance, pipeVars
    <2> QED BY <1>1, <1>2, <1>4, <2>1, OpenStory
  <1>5. ASSUME NEW d \in Daos, ReleaseSlug(d) PROVE IndexInv'
    <2>1. pipeVars' = pipeVars
      BY <1>5 DEF ReleaseSlug, pipeVars
    <2> QED BY <1>1, <1>2, <1>5, <2>1, ReleaseStory
  <1>6. ASSUME NEW d \in Daos, LaunchDao(d) PROVE IndexInv'
    <2>1. pipeVars' = pipeVars
      BY <1>6 DEF LaunchDao, pipeVars
    <2> QED BY <1>1, <1>2, <1>6, <2>1, LaunchStory
  <1>7. ASSUME NEW d \in Daos, NEW s \in Slugs, UpdatePendingSlug(d, s) PROVE IndexInv'
    <2>1. pipeVars' = pipeVars
      BY <1>7 DEF UpdatePendingSlug, pipeVars
    <2> QED BY <1>1, <1>2, <1>7, <2>1, PendingStory
  <1>8. ASSUME NEW d \in Daos, NEW s \in Slugs, ChangeSlug(d, s) PROVE IndexInv'
    <2>1. pipeVars' = pipeVars
      BY <1>8 DEF ChangeSlug, pipeVars
    <2> QED BY <1>1, <1>2, <1>8, <2>1, MoveStory
  <1>9. ASSUME NEW d \in Daos, NEW m \in Modules, CreateModule(d, m) PROVE IndexInv'
    <2>1. pipeVars' = pipeVars
      BY <1>9 DEF CreateModule, pipeVars
    <2> QED BY <1>1, <1>2, <1>9, <2>1, ModuleStory
  <1>10. ASSUME NEW d \in Daos, NEW m \in Modules, Register(d, m) PROVE IndexInv'
    <2>1. pipeVars' = pipeVars
      BY <1>10 DEF Register, pipeVars
    <2> QED BY <1>1, <1>2, <1>10, <2>1, RegisterStory
  <1>11. ASSUME NEW d \in Daos, NEW m \in Modules, Unregister(d, m) PROVE IndexInv'
    <2>1. pipeVars' = pipeVars
      BY <1>11 DEF Unregister, pipeVars
    <2> QED BY <1>1, <1>2, <1>11, <2>1, UnregisterStory
  <1>12. ASSUME NEW m \in Modules, Acts(m) PROVE IndexInv'
    <2>1. pipeVars' = pipeVars
      BY <1>12 DEF Acts, pipeVars
    <2> QED BY <1>1, <1>2, <1>12, <2>1, ActsStory
  <1>13. ASSUME NEW n \in Ends, Deliver(n) PROVE IndexInv'
    <2>1. chainVars' = chainVars
      BY <1>13 DEF Deliver, chainVars
    <2> QED BY <1>1, <1>13, <2>1, StoryKept, DeliverPipe DEF IndexInv
  <1>14. ASSUME NEW drop \in BOOLEAN, Reset(drop) PROVE IndexInv'
    <2>1. chainVars' = chainVars
      BY <1>14 DEF Reset, chainVars
    <2> QED BY <1>1, <1>14, <2>1, StoryKept, ResetPipe DEF IndexInv
  <1>15. ASSUME NEW n \in Ends, NEW d \in offset .. n, NEW f \in offset .. n, DeliverPartly(n, d, f) PROVE IndexInv'
    <2>1. chainVars' = chainVars
      BY <1>15 DEF DeliverPartly, chainVars
    <2> QED BY <1>1, <1>15, <2>1, StoryKept, PartlyPipe DEF IndexInv
  <1>16. CASE UNCHANGED indexVars
    <2>1. chainVars' = chainVars /\ pipeVars' = pipeVars /\ log' = log
      BY <1>16 DEF indexVars, chainVars
    <2>2. StoryInv'
      BY <1>1, <2>1, StoryKept
    <2>3. Grown
      BY <2>1 DEF Grown
    <2> QED BY <1>2, <2>1, <2>2, <2>3
  <1> QED BY <1>3, <1>4, <1>5, <1>6, <1>7, <1>8, <1>9, <1>10, <1>11, <1>12, <1>13, <1>14, <1>15, <1>16
          DEF IndexNext, Links, ModuleCalls, Interrupted, Pipeline


-----------------------------------------------------------------------------
(* Once everything has landed the views read the log itself.               *)

\* The latest place of a set.
LEMMA MaxIs == ASSUME NEW S \in SUBSET Int, NEW i, Latest(S, i) PROVE Max(S) = i
  <1>1. i \in S /\ \A y \in S : i >= y
    BY DEF Latest
  <1>2. ASSUME NEW x \in S, \A y \in S : x >= y PROVE x = i
    <2>1. x \in Int /\ i \in Int /\ x >= i /\ i >= x
      BY <1>1, <1>2
    <2> QED BY <2>1
  <1>3. Max(S) \in S /\ \A y \in S : Max(S) >= y
    BY <1>1 DEF Max
  <1> QED BY <1>2, <1>3

\* Everything due has landed, with its role.
LEMMA AllLanded ==
    ASSUME IndexInv, CaughtUp
    PROVE  /\ \A i \in DOMAIN log : Due(i) => /\ \E r \in decoded : r.at = i /\ r.role = Role(tables, log[i].at)
                                              /\ \E r \in feed : r.at = i
           /\ TablesOK(tables) /\ LogInv
           /\ \A i \in DOMAIN log : /\ log[i].at \in {"manager"} \cup Daos \cup Modules /\ Proper(log[i]) /\ i \in Int
                                    /\ log[i].at \notin Foreign => Due(i)
  <1>1. PipeInv /\ LogInv
    BY DEF IndexInv, StoryInv
  <1>2. DOMAIN log = 1 .. offset /\ DOMAIN log \subseteq Int
    BY <1>1, Places DEF CaughtUp
  <1>3. \A i \in DOMAIN log : Due(i) => /\ \E r \in decoded : r.at = i /\ r.role = Role(tables, log[i].at)
                                        /\ \E r \in feed : r.at = i
    BY <1>1, <1>2 DEF PipeInv
  <1>4. \A i \in DOMAIN log : log[i].at \notin Foreign => Due(i)
    BY DEF Due
  <1> QED BY <1>1, <1>2, <1>3, <1>4, Addresses DEF PipeInv, LogInv

\* The Manager's rows are its events.
LEMMA ManagerRowsAre ==
    ASSUME IndexInv, CaughtUp, NEW names \in SUBSET (LinkNames \cup BuildNames)
    PROVE  ManagerRows(names) = {i \in DOMAIN log : log[i].name \in names}
  <1>1. \A r \in decoded : r.at \in DOMAIN log
    BY DEF IndexInv, PipeInv
  <1>2. ASSUME NEW i \in DOMAIN log, log[i].name \in names
        PROVE  \E r \in decoded : r.role = "manager" /\ r.at = i
    <2>1. log[i].at = "manager" /\ "manager" \notin Foreign
      <3>1. Proper(log[i])
        BY AllLanded
      <3> QED BY <1>2, <3>1, IndexerAssumption DEF Proper, Modules
    <2>2. Due(i)
      BY <2>1, AllLanded
    <2>3. Role(tables, log[i].at) = "manager"
      BY <2>1, AllLanded, RoleOf
    <2> QED BY <2>2, <2>3, AllLanded
  <1>3. ManagerRows(names) \subseteq {i \in DOMAIN log : log[i].name \in names}
    BY <1>1 DEF ManagerRows
  <1>4. \A i \in DOMAIN log : log[i].name \in names => i \in ManagerRows(names)
    BY <1>2 DEF ManagerRows
  <1> QED BY <1>3, <1>4

\* And those of one DAO.
LEMMA RowsOfAre ==
    ASSUME IndexInv, CaughtUp, NEW d, NEW names \in SUBSET LinkNames
    PROVE  RowsOf(d, names) = Rows(d, names) /\ Rows(d, names) \subseteq DOMAIN log /\ Rows(d, names) \subseteq Int
  <1>1. ManagerRows(names) = {i \in DOMAIN log : log[i].name \in names}
    BY ManagerRowsAre
  <1>2. DOMAIN log \subseteq Int
    BY AllLanded
  <1> QED BY <1>1, <1>2 DEF RowsOf, Rows

\* The DAOs that are listed.
LEMMA ListedAre == ASSUME IndexInv, CaughtUp PROVE Listed = {d \in Daos : stage[d] # "none"}
  <1>1. ManagerRows({"dao_created"}) = {i \in DOMAIN log : log[i].name \in {"dao_created"}}
    BY ManagerRowsAre DEF LinkNames
  <1>2. \A i \in DOMAIN log : log[i].name = "dao_created" => log[i].dao \in Daos
    BY AllLanded DEF Proper, LinkNames
  <1>3. ASSUME NEW d \in Daos, stage[d] # "none"
        PROVE  \E i \in DOMAIN log : log[i].name = "dao_created" /\ log[i].dao = d
    BY <1>3, InLog DEF IndexInv, Creates
  <1>4. ASSUME NEW i \in DOMAIN log, log[i].name = "dao_created" PROVE stage[log[i].dao] # "none"
    <2>1. PICK d \in Daos : d = log[i].dao
      BY <1>2, <1>4
    <2>2. i \in Rows(d, LinkNames)
      BY <1>4, <2>1 DEF Rows, LinkNames
    <2>3. DaoInv(d)
      BY DEF IndexInv, StoryInv
    <2> QED BY <2>1, <2>2, <2>3 DEF DaoInv
  <1> QED BY <1>1, <1>2, <1>3, <1>4 DEF Listed

\* What the page of a DAO says it holds.
LEMMA HoldsIs ==
    ASSUME IndexInv, CaughtUp, NEW d \in Daos
    PROVE  Holds(d) = IF stage[d] \in {"driving", "live"} THEN slug[d] ELSE Nothing
  <1>1. DaoInv(d) /\ stage[d] \in {"none", "pending", "driving", "released", "live"}
    BY DEF IndexInv, StoryInv, ChainTypes
  <1>2. RowsOf(d, HoldNames) = Rows(d, HoldNames) /\ Rows(d, HoldNames) \subseteq Int
    BY RowsOfAre DEF HoldNames, LinkNames
  <1>3. HoldNames = {"slug_claimed", "slug_changed", "slug_released"}
    BY DEF HoldNames
  <1>4. CASE stage[d] = "none"
    <2>1. Rows(d, HoldNames) = {}
      BY <1>1, <1>4 DEF DaoInv, Rows, HoldNames, LinkNames
    <2> QED BY <1>2, <1>3, <1>4, <2>1 DEF Holds
  <1>5. CASE stage[d] = "pending"
    <2>1. Rows(d, HoldNames) = {}
      BY <1>1, <1>5 DEF DaoInv, Rows
    <2> QED BY <1>2, <1>3, <1>5, <2>1 DEF Holds
  <1>6. CASE stage[d] \in {"driving", "live"}
    <2>1. PICK i \in DOMAIN log : /\ Latest(Rows(d, HoldNames), i)
                                  /\ log[i].name # "slug_released" /\ Target(log[i]) = slug[d]
      BY <1>1, <1>6 DEF DaoInv
    <2>2. Max(Rows(d, HoldNames)) = i /\ Rows(d, HoldNames) # {}
      BY <1>2, <2>1, MaxIs DEF Latest
    <2>3. RowsOf(d, {"slug_claimed", "slug_changed", "slug_released"}) # {}
          /\ Max(RowsOf(d, {"slug_claimed", "slug_changed", "slug_released"})) = i
      BY <1>2, <1>3, <2>2
    <2>4. CASE log[i].name = "slug_changed"
      BY <1>6, <2>1, <2>3, <2>4 DEF Holds, Target
    <2>5. CASE log[i].name # "slug_changed"
      BY <1>6, <2>1, <2>3, <2>5 DEF Holds, Target
    <2> QED BY <2>4, <2>5
  <1>7. CASE stage[d] = "released"
    <2>1. PICK i \in DOMAIN log : Latest(Rows(d, HoldNames), i) /\ log[i].name = "slug_released"
      BY <1>1, <1>7 DEF DaoInv
    <2>2. Max(Rows(d, HoldNames)) = i /\ Rows(d, HoldNames) # {}
      BY <1>2, <2>1, MaxIs DEF Latest
    <2>3. RowsOf(d, {"slug_claimed", "slug_changed", "slug_released"}) # {}
          /\ Max(RowsOf(d, {"slug_claimed", "slug_changed", "slug_released"})) = i
      BY <1>2, <1>3, <2>2
    <2> QED BY <1>7, <2>1, <2>3 DEF Holds
  <1> QED BY <1>1, <1>4, <1>5, <1>6, <1>7

\* And what it asks for.
LEMMA RequestsIs ==
    ASSUME IndexInv, CaughtUp, NEW d \in Daos, stage[d] \in {"pending", "driving", "released"}
    PROVE  Requests(d) = slug[d]
  <1>1. RequestNames = {"dao_created", "pending_slug_updated"}
    BY DEF RequestNames
  <1>2. RowsOf(d, RequestNames) = Rows(d, RequestNames) /\ Rows(d, RequestNames) \subseteq Int
    BY RowsOfAre DEF RequestNames, LinkNames
  <1>3. PICK i \in DOMAIN log : Latest(Rows(d, RequestNames), i) /\ log[i].what = slug[d]
    BY DEF IndexInv, StoryInv, DaoInv
  <1>4. Max(Rows(d, RequestNames)) = i /\ Rows(d, RequestNames) # {}
    BY <1>2, <1>3, MaxIs DEF Latest
  <1>5. RowsOf(d, {"dao_created", "pending_slug_updated"}) # {}
        /\ Max(RowsOf(d, {"dao_created", "pending_slug_updated"})) = i
    BY <1>1, <1>2, <1>4
  <1> QED BY <1>3, <1>5 DEF Requests

\* The moves away from a slug, as the database lists them.
LEMMA MovedAwayAre ==
    ASSUME IndexInv, CaughtUp, NEW s \in Slugs PROVE MovedAway(s) = Moves(s) /\ Moves(s) \subseteq Int
  <1>1. ManagerRows({"slug_changed"}) = {i \in DOMAIN log : log[i].name \in {"slug_changed"}}
    BY ManagerRowsAre DEF LinkNames
  <1>2. DOMAIN log \subseteq Int
    BY AllLanded
  <1> QED BY <1>1, <1>2 DEF MovedAway, Moves

\* The only one who holds s, on its page as on the chain.
LEMMA HoldersAre ==
    ASSUME IndexInv, CaughtUp, NEW s \in Slugs
    PROVE  {d \in Listed : Holds(d) = s} = IF held[s] = Nothing THEN {} ELSE {held[s]}
  <1>1. StoryInv /\ Nothing \notin Slugs /\ Nothing \notin Daos
    BY IndexerAssumption DEF IndexInv
  <1>2. \A d \in Listed : d \in Daos /\ stage[d] # "none"
    BY ListedAre
  <1>3. \A d \in Listed : Holds(d) = s <=> stage[d] \in {"driving", "live"} /\ slug[d] = s
    BY <1>1, <1>2, HoldsIs
  <1>4. \A d \in Listed : Holds(d) = s => held[s] = d /\ held[s] # Nothing
    BY <1>1, <1>2, <1>3, Holder
  <1>5. held[s] # Nothing => held[s] \in Listed /\ Holds(held[s]) = s
    <2>1. held[s] # Nothing => held[s] \in Daos /\ slug[held[s]] = s /\ stage[held[s]] \in {"driving", "live"}
      BY <1>1, Holder
    <2>2. held[s] # Nothing => held[s] \in Listed
      BY <2>1, ListedAre
    <2> QED BY <1>3, <2>1, <2>2
  <1> QED BY <1>4, <1>5

\* A link leads to the holder of its slug, and to the last that moved away while there is none.
LEMMA LinksHold == ASSUME IndexInv PROVE LinksResolve
  <1>1. SUFFICES ASSUME CaughtUp, NEW s \in Slugs
                 PROVE  /\ held[s] # Nothing => ResolveDaoId(s) = held[s]
                        /\ held[s] = Nothing /\ moved[s] # Nothing => ResolveDaoId(s) = moved[s]
    BY DEF LinksResolve
  <1>2. CASE held[s] # Nothing
    <2>1. {d \in Listed : Holds(d) = s} = {held[s]}
      BY <1>1, <1>2, HoldersAre
    <2> QED BY <1>2, <2>1 DEF ResolveDaoId
  <1>3. CASE held[s] = Nothing /\ moved[s] # Nothing
    <2>1. {d \in Listed : Holds(d) = s} = {}
      BY <1>1, <1>3, HoldersAre
    <2>2. PICK i \in DOMAIN log : Latest(Moves(s), i) /\ log[i].dao = moved[s]
      BY <1>3 DEF IndexInv, StoryInv, SlugInv
    <2>3. MovedAway(s) # {} /\ Max(MovedAway(s)) = i
      BY <1>1, <2>2, MovedAwayAre, MaxIs DEF Latest
    <2> QED BY <1>3, <2>1, <2>2, <2>3 DEF ResolveDaoId
  <1> QED BY <1>2, <1>3

\* A pending DAO is reached by a slug that only it asks for.
LEMMA RequestsHold == ASSUME IndexInv PROVE RequestsResolve
  <1>1. SUFFICES ASSUME CaughtUp, NEW d \in Daos, stage[d] \in {"pending", "released"},
                        held[slug[d]] = Nothing, moved[slug[d]] = Nothing,
                        {x \in Daos \ {d} : slug[x] = slug[d] /\ stage[x] # "none"} = {}
                 PROVE  ResolveDaoId(slug[d]) = d
    BY DEF RequestsResolve
  <1>2. StoryInv /\ Nothing \notin Slugs
    BY IndexerAssumption DEF IndexInv
  <1>3. PICK s \in Slugs : s = slug[d]
    BY <1>1, <1>2, Holder
  <1>4. {x \in Listed : Holds(x) = s} = {}
    BY <1>1, <1>3, HoldersAre
  <1>5. MovedAway(s) = {}
    <2>1. Moves(s) = {}
      BY <1>1, <1>3 DEF IndexInv, StoryInv, SlugInv
    <2> QED BY <1>1, <2>1, MovedAwayAre
  <1>6. {x \in Listed : Holds(x) = Nothing /\ Requests(x) = s} = {d}
    <2>1. d \in Listed /\ Holds(d) = Nothing /\ Requests(d) = s
      BY <1>1, <1>3, ListedAre, HoldsIs, RequestsIs
    <2>2. ASSUME NEW x \in Listed, Holds(x) = Nothing, Requests(x) = s PROVE x = d
      <3>1. x \in Daos /\ stage[x] # "none"
        BY <1>1, <2>2, ListedAre
      <3>2. slug[x] \in Slugs /\ stage[x] \in {"none", "pending", "driving", "released", "live"}
        BY <1>2, <3>1, Holder DEF StoryInv, ChainTypes
      <3>3. stage[x] \notin {"driving", "live"}
        BY <1>1, <1>2, <2>2, <3>1, <3>2, HoldsIs
      <3>4. slug[x] = s
        BY <1>1, <2>2, <3>1, <3>2, <3>3, RequestsIs
      <3> QED BY <1>1, <1>3, <3>1, <3>4
    <2> QED BY <2>1, <2>2
  <1>7. Cardinality({d}) = 1
    BY FS_Singleton
  <1> QED BY <1>3, <1>4, <1>5, <1>6, <1>7 DEF ResolveDaoId

\* A drive's outcome on its page is the Manager's.
LEMMA DrivesHold == ASSUME IndexInv PROVE DrivesShown
  <1>1. SUFFICES ASSUME CaughtUp, NEW d \in Daos
                 PROVE  /\ stage[d] = "driving" <=> DriveOutcome(d) = "open"
                        /\ stage[d] = "released" <=> DriveOutcome(d) = "released"
    BY DEF DrivesShown
  <1>2. DaoInv(d) /\ stage[d] \in {"none", "pending", "driving", "released", "live"}
    BY DEF IndexInv, StoryInv, ChainTypes
  <1>3. PICK opened, launched, released : /\ opened = Rows(d, {"assurance_opened"})
                                          /\ launched = Rows(d, {"dao_launched"})
                                          /\ released = Rows(d, {"slug_released"})
    OBVIOUS
  <1>4. /\ RowsOf(d, {"assurance_opened"}) = opened /\ RowsOf(d, {"dao_launched"}) = launched
        /\ RowsOf(d, {"slug_released"}) = released /\ opened \subseteq Int
    BY <1>1, <1>3, RowsOfAre DEF LinkNames
  <1>5. Nothing # "open" /\ Nothing # "released"
    BY IndexerAssumption
  <1>6. DriveOutcome(d) = CASE opened = {} -> Nothing
          [] opened # {} /\ launched # {} -> "launched"
          [] /\ opened # {} /\ launched = {}
             /\ \E i \in released : i > Max(opened) -> "released"
          [] OTHER -> "open"
    BY <1>4 DEF DriveOutcome
  <1>7. CASE stage[d] = "none"
    <2>1. opened = {}
      BY <1>2, <1>3, <1>7 DEF DaoInv, Rows, LinkNames
    <2> QED BY <1>5, <1>6, <1>7, <2>1
  <1>8. CASE stage[d] = "pending"
    <2>1. opened = {}
      BY <1>2, <1>3, <1>8 DEF DaoInv, Rows
    <2> QED BY <1>5, <1>6, <1>8, <2>1
  <1>9. CASE stage[d] = "driving"
    <2>1. opened # {} /\ launched = {} /\ released = {}
      <3>1. Rows(d, {"slug_released", "dao_launched"}) = {}
        BY <1>2, <1>9 DEF DaoInv
      <3>2. launched = {} /\ released = {}
        BY <1>3, <3>1 DEF Rows
      <3> QED BY <1>2, <1>3, <1>9, <3>2 DEF DaoInv, Latest
    <2> QED BY <1>6, <1>9, <2>1
  <1>10. CASE stage[d] = "released"
    <2>1. PICK o, i \in DOMAIN log : Latest(opened, o) /\ i \in released /\ i > o
      BY <1>2, <1>3, <1>10 DEF DaoInv
    <2>2. opened # {} /\ Max(opened) = o
      BY <1>4, <2>1, MaxIs DEF Latest
    <2>3. launched = {}
      BY <1>2, <1>3, <1>10 DEF DaoInv
    <2> QED BY <1>6, <1>10, <2>1, <2>2, <2>3
  <1>11. CASE stage[d] = "live"
    <2>1. launched # {}
      BY <1>2, <1>3, <1>11 DEF DaoInv
    <2>2. DriveOutcome(d) = Nothing \/ DriveOutcome(d) = "launched"
      BY <1>6, <2>1
    <2> QED BY <1>5, <1>11, <2>2
  <1> QED BY <1>2, <1>7, <1>8, <1>9, <1>10, <1>11


\* A Token's word on its registry has landed as such, for a DAO that is listed.
LEMMA RegistryLanded ==
    ASSUME IndexInv, CaughtUp, NEW i \in DOMAIN log, log[i].name \in RegistryNames
    PROVE  /\ log[i].at \in Daos /\ log[i].dao = log[i].at /\ log[i].what \in Modules
           /\ \E r \in decoded : r.role = "token" /\ r.at = i
           /\ log[i].dao \in Listed
  <1>1. log[i].at \in Daos /\ log[i].dao = log[i].at /\ log[i].what \in Modules
    BY AllLanded DEF Proper
  <1>2. Due(i)
    <2>1. log[i].at \notin Foreign
      BY <1>1, IndexerAssumption DEF Modules
    <2> QED BY <2>1, AllLanded
  <1>3. PICK r \in decoded : r.at = i /\ r.role = Role(tables, log[i].at)
    BY <1>2, AllLanded
  <1>4. r.role # "unknown"
    BY DEF IndexInv, PipeInv
  <1>5. r.role = "token"
    <2>1. TablesOK(tables) /\ log[i].at \in {"manager"} \cup Daos \cup Modules
      BY AllLanded
    <2>2. Role(tables, log[i].at) \in {"token", "unknown"}
      BY <1>1, <2>1, RoleOf
    <2> QED BY <1>3, <1>4, <2>2
  <1>6. log[i].dao \in Listed
    <2>1. PICK k \in DOMAIN log : log[k].name = "dao_created" /\ log[k].dao = log[i].at
      BY <1>1, AllLanded DEF LogInv, Creates
    <2>2. ManagerRows({"dao_created"}) = {j \in DOMAIN log : log[j].name \in {"dao_created"}}
      BY ManagerRowsAre DEF LinkNames
    <2> QED BY <1>1, <2>1, <2>2 DEF Listed
  <1> QED BY <1>1, <1>3, <1>5, <1>6

\* The registrations and their ends are those on the log.
LEMMA RegistrationsAre ==
    ASSUME IndexInv, CaughtUp PROVE Registrations = {i \in DOMAIN log : log[i].name = "module_registered"}
  <1>1. \A r \in decoded : r.at \in DOMAIN log
    BY DEF IndexInv, PipeInv
  <1>2. ASSUME NEW i \in DOMAIN log, log[i].name = "module_registered" PROVE i \in Registrations
    <2>1. (\E r \in decoded : r.role = "token" /\ r.at = i) /\ log[i].dao \in Listed
      BY <1>2, RegistryLanded DEF RegistryNames
    <2> QED BY <1>2, <2>1 DEF Registrations
  <1> QED BY <1>1, <1>2 DEF Registrations

\* The ends of one registration.
LEMMA ClosesAre ==
    ASSUME IndexInv, CaughtUp, NEW d, NEW m, NEW g \in Regs(d, m)
    PROVE  Closes(g) = {u \in Unregs(d, m) : u > g}
  <1>1. g \in DOMAIN log /\ log[g].name = "module_registered" /\ log[g].dao = d /\ log[g].what = m
    BY DEF Regs
  <1>2. log[g].at = d
    BY <1>1, RegistryLanded DEF RegistryNames
  <1>3. ASSUME NEW r \in decoded, r.at > g, log[r.at].name = "module_unregistered", log[r.at].at = d, log[r.at].what = m
        PROVE  r.at \in Unregs(d, m)
    <2>1. r.at \in DOMAIN log
      BY DEF IndexInv, PipeInv
    <2>2. log[r.at].dao = log[r.at].at
      BY <1>3, <2>1, RegistryLanded DEF RegistryNames
    <2> QED BY <1>3, <2>1, <2>2 DEF Unregs
  <1>4. ASSUME NEW u \in Unregs(d, m), u > g
        PROVE  \E r \in decoded : /\ r.at = u /\ r.at > g /\ log[r.at].name = "module_unregistered"
                                  /\ log[r.at].at = d /\ log[r.at].what = m
    <2>1. u \in DOMAIN log /\ log[u].name = "module_unregistered" /\ log[u].dao = d /\ log[u].what = m
      BY DEF Unregs
    <2>2. log[u].dao = log[u].at /\ \E r \in decoded : r.role = "token" /\ r.at = u
      BY <2>1, RegistryLanded DEF RegistryNames
    <2> QED BY <1>4, <2>1, <2>2
  <1> QED BY <1>1, <1>2, <1>3, <1>4 DEF Closes

\* The module list of a DAO is its Token's registry.
LEMMA ModulesHold == ASSUME IndexInv PROVE ModulesShown
  <1>1. SUFFICES ASSUME CaughtUp, NEW d \in Daos PROVE ShownModules(d) = registry[d]
    BY DEF ModulesShown
  <1>2. ASSUME NEW m PROVE m \in ShownModules(d) <=> \E g \in Regs(d, m) : Closes(g) = {}
    BY <1>1, RegistrationsAre DEF ShownModules, Regs
  <1>3. ASSUME NEW m, NEW g \in Regs(d, m) PROVE Closes(g) = {} <=> \A u \in Unregs(d, m) : u < g
    <2>1. Closes(g) = {u \in Unregs(d, m) : u > g}
      BY <1>1, ClosesAre
    <2>2. \A u \in Unregs(d, m) : u \in Int /\ g \in Int /\ u # g
      BY <1>1, AllLanded DEF Regs, Unregs
    <2> QED BY <2>1, <2>2
  <1>4. ASSUME NEW m PROVE m \in ShownModules(d) <=> Stands(d, m)
    BY <1>2, <1>3 DEF Stands
  <1>5. ASSUME NEW m, Stands(d, m) PROVE m \in Modules
    <2>1. PICK g \in DOMAIN log : log[g].name = "module_registered" /\ log[g].what = m
      BY <1>5 DEF Stands, Regs
    <2> QED BY <1>1, <2>1, RegistryLanded DEF RegistryNames
  <1>6. registry[d] \subseteq Modules /\ \A m \in Modules : m \in registry[d] <=> Stands(d, m)
    BY DEF IndexInv, StoryInv, ModuleInv, ChainTypes
  <1> QED BY <1>4, <1>5, <1>6

\* The role of a registration is the one its module's rows have.
LEMMA ModuleRoleIs ==
    ASSUME IndexInv, CaughtUp, NEW i \in DOMAIN log, log[i].at \in Modules, Role(tables, log[i].at) # "unknown"
    PROVE  ModuleRole(log[i].at) = Role(tables, log[i].at)
  <1>1. ManagerRows({"dao_created_module", "module_created"})
          = {k \in DOMAIN log : log[k].name \in {"dao_created_module", "module_created"}}
    BY ManagerRowsAre DEF BuildNames
  <1>2. ModuleRole(log[i].at) = IF \E k \in DOMAIN log : Builds(k, log[i].at) THEN "built" ELSE "module"
    BY <1>1 DEF ModuleRole, Builds, BuildNames
  <1>3. TablesOK(tables) /\ LogInv
    BY AllLanded
  <1>4. CASE log[i].at \in Built
    <2>1. \E k \in DOMAIN log : Builds(k, log[i].at)
      BY <1>3, <1>4 DEF LogInv
    <2>2. Role(tables, log[i].at) = "built"
      BY <1>3, <1>4, RoleOf DEF Modules
    <2> QED BY <1>2, <2>1, <2>2
  <1>5. CASE log[i].at \in Foreign
    <2>1. \A k \in DOMAIN log : Builds(k, log[i].at) => log[i].at \in Built
      BY AllLanded DEF Builds, Proper
    <2>2. log[i].at \notin Built
      BY <1>5, IndexerAssumption
    <2>3. Role(tables, log[i].at) = "module"
      BY <1>3, <1>5, RoleOf DEF Modules
    <2> QED BY <1>2, <2>1, <2>2, <2>3
  <1> QED BY <1>4, <1>5 DEF Modules

\* A module's activity is shown under exactly the DAOs it was registered with when it happened.
LEMMA ActivityHolds == ASSUME IndexInv PROVE ActivityShown
  <1>1. SUFFICES ASSUME CaughtUp, NEW row \in feed, row.at \in DOMAIN author
                 PROVE  ShownUnder(row, Registrations) = author[row.at]
    BY DEF ActivityShown
  <1>2. PICK i \in DOMAIN log : i = row.at /\ row.role = Role(tables, log[i].at) /\ row.role # "unknown"
    BY DEF IndexInv, PipeInv
  <1>3. ModuleInv /\ log[i].at \in Modules /\ author[i] \in SUBSET Daos
    BY <1>1, <1>2 DEF IndexInv, StoryInv, ModuleInv
  <1>4. PICK m \in Modules : m = log[i].at
    BY <1>3
  <1>5. ModuleRole(m) = row.role
    BY <1>1, <1>2, <1>3, <1>4, ModuleRoleIs
  <1>6. ASSUME NEW d PROVE d \in ShownUnder(row, Registrations) <=> \E g \in Regs(d, m) : Inside(g, i)
    BY <1>1, <1>2, <1>4, <1>5, RegistrationsAre DEF ShownUnder, Regs
  <1>7. ASSUME NEW d, NEW g \in Regs(d, m)
        PROVE  Inside(g, i) <=> log[g].tx <= log[i].tx /\ \A u \in Unregs(d, m) : u > g => u > i
    <2>1. Closes(g) = {u \in Unregs(d, m) : u > g}
      BY <1>1, ClosesAre
    <2>2. g \in DOMAIN log /\ log[g].tx \in Nat /\ log[i].tx \in Nat /\ i \in Int
      BY <1>1, AllLanded, Places DEF Regs
    <2>3. \A u \in Unregs(d, m) : u \in Int
      BY <1>1, AllLanded DEF Unregs
    <2> QED BY <2>1, <2>2, <2>3 DEF Inside
  <1>8. ASSUME NEW d PROVE d \in ShownUnder(row, Registrations) <=> StoodAt(d, m, i)
    BY <1>6, <1>7 DEF StoodAt
  <1>9. ASSUME NEW d, StoodAt(d, m, i) PROVE d \in Daos
    <2>1. PICK g \in DOMAIN log : log[g].name = "module_registered" /\ log[g].dao = d
      BY <1>9 DEF StoodAt, Regs
    <2> QED BY <1>1, <2>1, RegistryLanded DEF RegistryNames
  <1>10. \A d \in Daos : d \in author[i] <=> StoodAt(d, m, i)
    BY <1>3, <1>4 DEF ModuleInv
  <1> QED BY <1>2, <1>3, <1>8, <1>9, <1>10

\* And every such event has its row.
LEMMA ActivityLands == ASSUME IndexInv PROVE ActivityComplete
  <1>1. SUFFICES ASSUME CaughtUp, NEW i \in DOMAIN author, author[i] # {} PROVE \E row \in feed : row.at = i
    BY DEF ActivityComplete
  <1>2. ModuleInv
    BY DEF IndexInv, StoryInv
  <1>3. i \in DOMAIN log /\ log[i].at \in Modules /\ author[i] \in SUBSET Daos
    BY <1>2 DEF ModuleInv
  <1>4. PICK d \in Daos : d \in author[i]
    BY <1>1, <1>3
  <1>5. StoodAt(d, log[i].at, i)
    BY <1>2, <1>3, <1>4 DEF ModuleInv
  <1>6. Due(i)
    BY <1>5 DEF Due, StoodAt, Regs
  <1> QED BY <1>1, <1>3, <1>6, AllLanded

\* Public rows are of what the Manager deployed, landed or not.
LEMMA NewsHolds == ASSUME IndexInv PROVE NewsIsVouched
  <1>1. SUFFICES ASSUME NEW row \in feed, row.visibility = "public", log[row.at].at \in Modules
                 PROVE  log[row.at].at \in Deployed
    BY DEF NewsIsVouched
  <1>2. PICK i \in DOMAIN log : i = row.at /\ row.role = Role(tables, log[i].at) /\ row.role # "unknown"
                                /\ row.visibility = Visibility(log[i].name, row.role)
    BY DEF IndexInv, PipeInv
  <1>3. row.role # "module"
    BY <1>1, <1>2 DEF Visibility
  <1>4. TablesOK(tables) /\ LogInv
    BY DEF IndexInv, StoryInv, PipeInv
  <1>5. log[i].at \in Built
    BY <1>1, <1>2, <1>3, <1>4, RoleOf DEF Modules
  <1>6. \E k \in DOMAIN log : Builds(k, log[i].at)
    BY <1>4, <1>5 DEF LogInv
  <1> QED BY <1>2, <1>6 DEF Deployed, Builds, BuildNames

\* A batch read again gives what landed of it the same roles.
LEMMA RedeliveryHolds == ASSUME IndexInv PROVE RedeliveredUnchanged
  <1>1. SUFFICES ASSUME NEW n \in Ends, NEW ts, ts = Filled(tables, Batch(n)), NEW r \in decoded
                 PROVE  Role(ts, log[r.at].at) = r.role
    BY DEF RedeliveredUnchanged
  <1>2. LogInv /\ offset \in 0 .. Len(log) /\ TablesOK(tables) /\ Knows(tables, offset)
    BY DEF IndexInv, StoryInv, PipeInv
  <1>3. TablesOK(ts) /\ \A x \in Roles : tables[x] \subseteq ts[x]
    BY <1>1, <1>2, FilledOK
  <1>4. r.at \in DOMAIN log /\ r.role = Role(tables, log[r.at].at) /\ r.role # "unknown"
    BY DEF IndexInv, PipeInv
  <1>5. log[r.at].at \in {"manager"} \cup Daos \cup Modules
    BY <1>2, <1>4, Addresses
  <1> QED BY <1>2, <1>3, <1>4, <1>5, RoleStays

\* Types.
LEMMA TypesHold == ASSUME IndexInv PROVE IndexTypes
  <1>1. ChainTypes /\ LogInv /\ PipeInv
    BY DEF IndexInv, StoryInv
  <1>2. \A i \in DOMAIN log : Role(tables, log[i].at) \in Roles \cup {"manager", "unknown"}
    <2>1. SUFFICES ASSUME NEW i \in DOMAIN log PROVE Role(tables, log[i].at) \in Roles \cup {"manager", "unknown"}
      OBVIOUS
    <2>2. TablesOK(tables) /\ log[i].at \in {"manager"} \cup Daos \cup Modules
      BY <1>1, Addresses DEF PipeInv
    <2> QED BY <2>2, RoleOf DEF Roles
  <1>3. \A r \in decoded : r.at \in DOMAIN log /\ r.role \in Roles \cup {"manager"}
    BY <1>1, <1>2 DEF PipeInv
  <1>4. \A r \in feed : r.at \in DOMAIN log /\ r.visibility \in {"public", "admin"}
    BY <1>1 DEF PipeInv, Visibility
  <1>5. offset \in 0 .. Len(log) /\ tables \in [Roles -> SUBSET (Daos \cup Modules)]
    BY <1>1 DEF PipeInv, TablesOK
  <1> QED BY <1>1, <1>3, <1>4, <1>5 DEF IndexTypes, ChainTypes

\* All that the pages promise follows from the invariant.
LEMMA PagesHold == ASSUME IndexInv PROVE PagesTellTheChain
  BY TypesHold, RedeliveryHolds, LinksHold, RequestsHold, DrivesHold, ModulesHold, ActivityHolds, ActivityLands,
     NewsHolds DEF PagesTellTheChain

\* The index's invariant: what the log says of every DAO, slug and module is what the chain holds of
\* them, and the rows that landed have the role their contract has for good.
THEOREM IndexInvariant == IndexSpec => []IndexInv
  <1>1. IndexInit => IndexInv
    BY IndexStart
  <1>2. IndexInv /\ [IndexNext]_indexVars => IndexInv'
    BY IndexStep
  <1> QED BY <1>1, <1>2, PTL DEF IndexSpec

\* Once everything has landed the pages tell the chain's story, of links, drives, modules and activity
\* (lib/dao-db.ts, db/migrations, packages/goldsky), and a row that landed never has to change: through
\* any batches, crashes and replays, for any number of DAOs, slugs and modules.
THEOREM PagesTell == IndexSpec => []PagesTellTheChain
  <1>1. IndexInv => PagesTellTheChain
    BY PagesHold
  <1> QED BY <1>1, IndexInvariant, PTL

-----------------------------------------------------------------------------
(* A draft and its run. What the rules look up in the actions before one,  *)
(* the run has made of the contracts: the last pause or resume says        *)
(* whether auctions are paused, and so for the switch and the modules.     *)

QueuedActions ==
    {[id |-> n, type |-> c.type, of |-> c.of, val |-> c.val, bundle |-> 0] : n \in Nat, c \in Calls}

\* The last of the first n actions of some types.
LastOf(q, n, types) == LastIndex({i \in 1 .. n : q[i].type \in types})

RegistryCalls == {"register-module", "unregister-module"}
LastAbout(q, n, m) == LastIndex({i \in 1 .. n : q[i].type \in RegistryCalls /\ q[i].of = m})

\* What the contracts hold after the first n actions of q have run.
PausedAfter(q, n, c) ==
    IF LastOf(q, n, Toggles) = 0
    THEN known.paused # "unknown" => (known.paused = "on" <=> c.paused)
    ELSE q[LastOf(q, n, Toggles)].type = "pause-auction" <=> c.paused
RecoveryAfter(q, n, c) ==
    IF LastOf(q, n, {"set-dao-recovery"}) = 0
    THEN known.recovery # "unknown" => (known.recovery = "on" <=> c.recovery)
    ELSE q[LastOf(q, n, {"set-dao-recovery"})].val = 1 <=> c.recovery
ModulesAfter(q, n, c) ==
    \A m \in Registrable :
        IF LastAbout(q, n, m) = 0
        THEN m \in known.modules => m \in c.modules
        ELSE q[LastAbout(q, n, m)].type = "register-module" <=> m \in c.modules
TreesAfter(q, n, c) == c.trees <=> n > 0 /\ q[n].type = "treasury-authorize"
Tracks(q, n, c) ==
    PausedAfter(q, n, c) /\ RecoveryAfter(q, n, c) /\ ModulesAfter(q, n, c) /\ TreesAfter(q, n, c)

\* No action among the first n is in an order that is an error, or a toggle that repeats.
Unalarmed(q, n) ==
    \A i \in 1 .. n : \A f \in AnalyzeAction(q[i], SubSeq(q, 1, i - 1), known) :
        f.severity = "error" => f.kind # "order" /\ q[i].type \notin Toggles

DraftInd ==
    /\ DraftTypes /\ draft \in Seq(QueuedActions)
    /\ IF outcome = "drafting"
       THEN TrueOf(known, contracts) /\ ~contracts.trees
       ELSE /\ at \in 1 .. Len(draft) + 1
            /\ Tracks(draft, at - 1, contracts) /\ Unalarmed(draft, at - 1)
    /\ outcome = "done" => at = Len(draft) + 1 /\ ~contracts.trees
    /\ outcome = "failed" =>
          IF at = Len(draft) + 1 THEN contracts.trees ELSE ~Runs(contracts, draft[at])

\* The last position of a set is in it, and no position of it is later.
LEMMA LastIndexIs ==
    ASSUME NEW n \in Nat, NEW T \in SUBSET (1 .. n)
    PROVE  /\ T = {} => LastIndex(T) = 0
           /\ T # {} => LastIndex(T) \in T /\ \A j \in T : j <= LastIndex(T)
  <1> SUFFICES ASSUME T # {} PROVE \E i \in T : \A j \in T : j <= i
    BY DEF LastIndex
  <1> DEFINE D == {n - x : x \in T}
  <1>1. D \in SUBSET Nat /\ D # {}
    <2>1. \A x \in T : n - x \in Nat
      OBVIOUS
    <2>2. PICK x \in T : TRUE
      OBVIOUS
    <2> QED BY <2>1, <2>2
  <1>2. IsWellFoundedOn(OpToRel(<, Nat), Nat)
    BY NatLessThanWellFounded
  <1>3. PICK d \in D : \A y \in D : <<y, d>> \notin OpToRel(<, Nat)
    BY <1>1, <1>2, WFMin
  <1>4. \A y \in D : d <= y
    <2>1. d \in Nat /\ \A y \in D : y \in Nat /\ ~ (y < d)
      BY <1>1, <1>3 DEF OpToRel
    <2> QED BY <2>1
  <1>5. PICK x \in T : d = n - x
    OBVIOUS
  <1>6. \A y \in T : n - x <= n - y
    BY <1>4, <1>5
  <1>7. n \in Nat /\ \A y \in T : y \in Nat
    <2>1. \A y \in T : y \in 1 .. n
      OBVIOUS
    <2> QED BY <2>1
  <1> QED BY <1>5, <1>6, <1>7

\* One more action is the last, if it is one that is looked for.
LEMMA LastGrows ==
    ASSUME NEW n \in Nat, NEW S, NEW T, S = {i \in T : i <= n}, T \in SUBSET (1 .. n + 1)
    PROVE  LastIndex(T) = IF n + 1 \in T THEN n + 1 ELSE LastIndex(S)
  <1>1. CASE n + 1 \in T
    <2>1. LastIndex(T) \in T /\ \A j \in T : j <= LastIndex(T)
      <3>1. n + 1 \in Nat /\ T # {}
        BY <1>1
      <3> QED BY <3>1, LastIndexIs
    <2>2. LastIndex(T) \in 1 .. n + 1 /\ n + 1 <= LastIndex(T)
      BY <1>1, <2>1
    <2> QED BY <1>1, <2>2
  <1>2. CASE n + 1 \notin T
    <2>1. S = T
      <3>1. \A i \in T : i \in 1 .. n + 1 /\ i # n + 1
        BY <1>2
      <3>2. \A i \in T : i <= n
        BY <3>1
      <3> QED BY <3>2
    <2> QED BY <1>2, <2>1
  <1> QED BY <1>1, <1>2

\* The actions before one are those the rules look at.
LEMMA BeforeIs ==
    ASSUME NEW q \in Seq(QueuedActions), NEW n \in 0 .. Len(q)
    PROVE  /\ Len(SubSeq(q, 1, n)) = n /\ \A i \in 1 .. n : SubSeq(q, 1, n)[i] = q[i]
           /\ \A types : OfTypes(SubSeq(q, 1, n), types) = {i \in 1 .. n : q[i].type \in types}
  <1>1. Len(SubSeq(q, 1, n)) = n /\ \A i \in 1 .. n : SubSeq(q, 1, n)[i] = q[i]
    OBVIOUS
  <1> QED BY <1>1 DEF OfTypes

\* The toggle the rules find before an action is the last one before it in the draft.
LEMMA LastToggleIs ==
    ASSUME NEW q \in Seq(QueuedActions), NEW n \in 0 .. Len(q)
    PROVE  LastToggle(SubSeq(q, 1, n)) = LastOf(q, n, Toggles)
  BY BeforeIs DEF LastToggle, LastOf

\* What is found last is one of the actions before.
LEMMA LastOfIs ==
    ASSUME NEW q \in Seq(QueuedActions), NEW n \in 0 .. Len(q), NEW types, NEW l, l = LastOf(q, n, types)
    PROVE  l # 0 => l \in 1 .. n /\ q[l].type \in types
  <1> DEFINE T == {i \in 1 .. n : q[i].type \in types}
  <1>1. T \in SUBSET (1 .. n) /\ l = LastIndex(T)
    BY DEF LastOf
  <1>2. l # 0 => l \in T
    <2>1. n \in Nat
      OBVIOUS
    <2> HIDE DEF T
    <2> QED BY <1>1, <2>1, LastIndexIs
  <1> QED BY <1>2

\* The last action about a module is a registration or a removal of that module.
LEMMA LastAboutIs ==
    ASSUME NEW q \in Seq(QueuedActions), NEW n \in 0 .. Len(q), NEW m, NEW l, l = LastAbout(q, n, m)
    PROVE  l # 0 => l \in 1 .. n /\ q[l].type \in RegistryCalls /\ q[l].of = m
  <1> DEFINE T == {i \in 1 .. n : q[i].type \in RegistryCalls /\ q[i].of = m}
  <1>1. T \in SUBSET (1 .. n) /\ l = LastIndex(T)
    BY DEF LastAbout
  <1>2. l # 0 => l \in T
    <2>1. n \in Nat
      OBVIOUS
    <2> HIDE DEF T
    <2> QED BY <1>1, <2>1, LastIndexIs
  <1> QED BY <1>2

\* What one more action changes of the last ones.
LEMMA LastNext ==
    ASSUME NEW q \in Seq(QueuedActions), NEW n \in Nat, n < Len(q)
    PROVE  /\ \A types : LastOf(q, n + 1, types) =
                IF q[n + 1].type \in types THEN n + 1 ELSE LastOf(q, n, types)
           /\ \A m : LastAbout(q, n + 1, m) =
                IF q[n + 1].type \in RegistryCalls /\ q[n + 1].of = m THEN n + 1 ELSE LastAbout(q, n, m)
  <1>1. ASSUME NEW types
        PROVE  LastOf(q, n + 1, types) = IF q[n + 1].type \in types THEN n + 1 ELSE LastOf(q, n, types)
    <2> DEFINE T == {i \in 1 .. n + 1 : q[i].type \in types}
               S == {i \in 1 .. n : q[i].type \in types}
    <2>1. S = {i \in T : i <= n} /\ T \in SUBSET (1 .. n + 1)
      OBVIOUS
    <2>2. LastIndex(T) = IF n + 1 \in T THEN n + 1 ELSE LastIndex(S)
      <3> HIDE DEF S, T
      <3> QED BY <2>1, LastGrows
    <2>3. n + 1 \in T <=> q[n + 1].type \in types
      OBVIOUS
    <2> QED BY <2>2, <2>3 DEF LastOf
  <1>2. ASSUME NEW m
        PROVE  LastAbout(q, n + 1, m) =
                 IF q[n + 1].type \in RegistryCalls /\ q[n + 1].of = m THEN n + 1 ELSE LastAbout(q, n, m)
    <2> DEFINE T == {i \in 1 .. n + 1 : q[i].type \in RegistryCalls /\ q[i].of = m}
               S == {i \in 1 .. n : q[i].type \in RegistryCalls /\ q[i].of = m}
    <2>1. S = {i \in T : i <= n} /\ T \in SUBSET (1 .. n + 1)
      OBVIOUS
    <2>2. LastIndex(T) = IF n + 1 \in T THEN n + 1 ELSE LastIndex(S)
      <3> HIDE DEF S, T
      <3> QED BY <2>1, LastGrows
    <2>3. n + 1 \in T <=> q[n + 1].type \in RegistryCalls /\ q[n + 1].of = m
      OBVIOUS
    <2> QED BY <2>2, <2>3 DEF LastAbout
  <1> QED BY <1>1, <1>2

\* What a queued action is.
LEMMA QueuedIs ==
    ASSUME NEW a \in QueuedActions
    PROVE  /\ a.type \in RegistryCalls => a.of \in Registrable
           /\ a.type = "set-dao-recovery" => a.of = ""
  <1>1. PICK n \in Nat, c \in Calls :
            a = [id |-> n, type |-> c.type, of |-> c.of, val |-> c.val, bundle |-> 0]
    BY DEF QueuedActions
  <1>2. a.type = c.type /\ a.of = c.of
    BY <1>1
  <1> QED BY <1>2, DraftAssumption DEF RegistryCalls

-----------------------------------------------------------------------------
(* The run. *)

\* Before the first action the contracts are as the index has them, as far as it has.
LEMMA RunBegins ==
    ASSUME NEW q, TrueOf(known, contracts), contracts \in Contracts, ~contracts.trees
    PROVE  Tracks(q, 0, contracts) /\ Unalarmed(q, 0)
  <1>2. /\ \A types : LastOf(q, 0, types) = 0
        /\ \A m : LastAbout(q, 0, m) = 0
    <2>1. 1 .. 0 = {}
      OBVIOUS
    <2>2. \A types : {i \in 1 .. 0 : q[i].type \in types} = {}
      BY <2>1
    <2>3. \A m : {i \in 1 .. 0 : q[i].type \in RegistryCalls /\ q[i].of = m} = {}
      BY <2>1
    <2>4. LastIndex({}) = 0
      BY DEF LastIndex
    <2> QED BY <2>2, <2>3, <2>4 DEF LastOf, LastAbout
  <1>3. Tracks(q, 0, contracts)
    <2>1. contracts.paused \in BOOLEAN /\ contracts.recovery \in BOOLEAN /\ contracts.trees \in BOOLEAN
      BY DEF Contracts
    <2>2. PausedAfter(q, 0, contracts)
      BY <1>2, <2>1, Zenon DEF PausedAfter, TrueOf
    <2>3. RecoveryAfter(q, 0, contracts)
      BY <1>2, <2>1, Zenon DEF RecoveryAfter, TrueOf
    <2>4. ModulesAfter(q, 0, contracts)
      BY <1>2 DEF ModulesAfter, TrueOf
    <2>5. TreesAfter(q, 0, contracts)
      BY DEF TreesAfter
    <2> QED BY <2>2, <2>3, <2>4, <2>5 DEF Tracks
  <1>4. Unalarmed(q, 0)
    BY DEF Unalarmed
  <1> QED BY <1>3, <1>4

\* An action that runs leaves the contracts as the rules expect.
LEMMA RunTracks ==
    ASSUME NEW q \in Seq(QueuedActions), NEW n \in Nat, n < Len(q), NEW c \in Contracts,
           Tracks(q, n, c), Runs(c, q[n + 1])
    PROVE  After(c, q[n + 1]) \in Contracts /\ Tracks(q, n + 1, After(c, q[n + 1]))
  <1> DEFINE a == q[n + 1]
             d == After(c, a)
  <1>1. a \in QueuedActions
    OBVIOUS
  <1>2. /\ a.type \in RegistryCalls => a.of \in Registrable
        /\ a.type = "set-dao-recovery" => a.of = ""
    BY <1>1, QueuedIs
  <1>3. /\ c.paused \in BOOLEAN /\ c.recovery \in BOOLEAN /\ c.modules \in SUBSET Registrable
        /\ c.trees \in BOOLEAN
    BY DEF Contracts
  <1>4. /\ d.paused = IF a.type \in Toggles THEN a.type = "pause-auction" ELSE c.paused
        /\ d.recovery = IF a.type = "set-dao-recovery" THEN a.val = 1 ELSE c.recovery
        /\ d.modules = CASE a.type = "register-module" -> c.modules \union {a.of}
                         [] a.type = "unregister-module" -> c.modules \ {a.of}
                         [] OTHER -> c.modules
        /\ d.trees = (a.type = "treasury-authorize")
    BY DEF After
  <1>5. d \in Contracts
    <2>1. d = [paused |-> d.paused, recovery |-> d.recovery, modules |-> d.modules, trees |-> d.trees]
      BY DEF After
    <2>2. d.paused \in BOOLEAN
      BY <1>3, <1>4
    <2>3. d.recovery \in BOOLEAN
      BY <1>3, <1>4
    <2>4. d.modules \in SUBSET Registrable
      BY <1>2, <1>3, <1>4 DEF RegistryCalls
    <2>5. d.trees \in BOOLEAN
      BY <1>4
    <2> HIDE DEF d
    <2> QED BY <2>1, <2>2, <2>3, <2>4, <2>5 DEF Contracts
  <1>6. PausedAfter(q, n + 1, d)
    <2>1. PausedAfter(q, n, c)
      BY DEF Tracks
    <2>2. LastOf(q, n + 1, Toggles) = IF a.type \in Toggles THEN n + 1 ELSE LastOf(q, n, Toggles)
      BY LastNext
    <2>3. CASE a.type \in Toggles
      <3>1. LastOf(q, n + 1, Toggles) = n + 1 /\ (d.paused <=> a.type = "pause-auction")
        BY <1>4, <2>2, <2>3
      <3>2. n + 1 # 0
        OBVIOUS
      <3> HIDE DEF d
      <3> QED BY <3>1, <3>2 DEF PausedAfter
    <2>4. CASE a.type \notin Toggles
      <3>1. LastOf(q, n + 1, Toggles) = LastOf(q, n, Toggles) /\ d.paused = c.paused
        BY <1>4, <2>2, <2>4
      <3> HIDE DEF d
      <3> QED BY <2>1, <3>1 DEF PausedAfter
    <2> QED BY <2>3, <2>4
  <1>7. RecoveryAfter(q, n + 1, d)
    <2> DEFINE R == {"set-dao-recovery"}
    <2>1. RecoveryAfter(q, n, c)
      BY DEF Tracks
    <2>2. LastOf(q, n + 1, R) = IF a.type \in R THEN n + 1 ELSE LastOf(q, n, R)
      BY LastNext
    <2>3. CASE a.type \in R
      <3>1. LastOf(q, n + 1, R) = n + 1 /\ (d.recovery <=> a.val = 1)
        BY <1>4, <2>2, <2>3
      <3>2. n + 1 # 0
        OBVIOUS
      <3> HIDE DEF d
      <3> QED BY <3>1, <3>2 DEF RecoveryAfter
    <2>4. CASE a.type \notin R
      <3>1. LastOf(q, n + 1, R) = LastOf(q, n, R) /\ d.recovery = c.recovery
        BY <1>4, <2>2, <2>4
      <3> HIDE DEF d
      <3> QED BY <2>1, <3>1 DEF RecoveryAfter
    <2> QED BY <2>3, <2>4
  <1>8. ModulesAfter(q, n + 1, d)
    <2> SUFFICES ASSUME NEW m \in Registrable
                 PROVE  IF LastAbout(q, n + 1, m) = 0
                        THEN m \in known.modules => m \in d.modules
                        ELSE q[LastAbout(q, n + 1, m)].type = "register-module" <=> m \in d.modules
      BY DEF ModulesAfter
    <2>1. IF LastAbout(q, n, m) = 0
          THEN m \in known.modules => m \in c.modules
          ELSE q[LastAbout(q, n, m)].type = "register-module" <=> m \in c.modules
      BY DEF Tracks, ModulesAfter
    <2>2. LastAbout(q, n + 1, m) =
            IF a.type \in RegistryCalls /\ a.of = m THEN n + 1 ELSE LastAbout(q, n, m)
      BY LastNext
    <2>3. CASE a.type \in RegistryCalls /\ a.of = m
      <3>1. LastAbout(q, n + 1, m) = n + 1 /\ n + 1 # 0
        BY <2>2, <2>3
      <3>2. m \in d.modules <=> a.type = "register-module"
        BY <1>4, <2>3 DEF RegistryCalls
      <3> HIDE DEF d
      <3> QED BY <3>1, <3>2
    <2>4. CASE ~(a.type \in RegistryCalls /\ a.of = m)
      <3>1. LastAbout(q, n + 1, m) = LastAbout(q, n, m)
        BY <2>2, <2>4
      <3>2. m \in d.modules <=> m \in c.modules
        BY <1>4, <2>4 DEF RegistryCalls
      <3> HIDE DEF d
      <3> QED BY <2>1, <3>1, <3>2
    <2> QED BY <2>3, <2>4
  <1>9. TreesAfter(q, n + 1, d)
    <2>1. n + 1 > 0
      OBVIOUS
    <2> QED BY <1>4, <2>1 DEF TreesAfter
  <1> QED BY <1>5, <1>6, <1>7, <1>8, <1>9 DEF Tracks


-----------------------------------------------------------------------------
(* What the rules find is what the run meets.                              *)

\* A finding of the rules about an action is in the analysis.
LEMMA FoundBy ==
    ASSUME NEW a, NEW before, NEW f
    PROVE  /\ f \in PrerequisiteFindings(a, before, known) => f \in AnalyzeAction(a, before, known)
           /\ a.type \in Toggles /\ f \in ToggleFindings(a, before, known)
                => f \in AnalyzeAction(a, before, known)
           /\ a.type \notin Toggles /\ f \in ValueFindings(a, before)
                => f \in AnalyzeAction(a, before, known)
  BY DEF AnalyzeAction

Alarming(f) == f.severity = "error" \/ f.kind = "order"

\* Warnings about order, and errors, are what a draft is judged by.
LEMMA Alarms ==
    ASSUME NEW on
    PROVE  /\ Alarming(Warning(on)) /\ Warning(on).severity = "warning"
           /\ \A kind : Alarming(Finding("error", kind, on)) /\ Finding("error", kind, on).kind = kind
  BY DEF Alarming, Warning, Finding

\* An action the contracts refuse after those before it was found to be out of order or to repeat,
\* if the index has the tribe's state, or is of a kind the rules do not check.
LEMMA RefusedIsFound ==
    ASSUME NEW q \in Seq(QueuedActions), NEW n \in Nat, n < Len(q), NEW c \in Contracts,
           Tracks(q, n, c), known \in Tribes, known.given,
           known.paused # "unknown", known.recovery # "unknown",
           ~Runs(c, q[n + 1]), q[n + 1].type \notin Unchecked
    PROVE  \E f \in AnalyzeAction(q[n + 1], SubSeq(q, 1, n), known) : Alarming(f)
  <1> DEFINE a == q[n + 1]
             before == SubSeq(q, 1, n)
             toggle == LastOf(q, n, Toggles)
             switch == LastOf(q, n, {"set-dao-recovery"})
  <1>1. /\ c.paused \in BOOLEAN /\ c.recovery \in BOOLEAN /\ c.modules \in SUBSET Registrable
        /\ c.trees \in BOOLEAN
    BY DEF Contracts
  <1>2. known.paused \in {"on", "off"} /\ known.recovery \in {"on", "off"} /\ known.modules \in SUBSET Registrable
    BY DEF Tribes, Switch
  <1>3. /\ n \in 0 .. Len(q) /\ Len(before) = n /\ LastToggle(before) = toggle
        /\ \A i \in 1 .. n : before[i] = q[i]
        /\ \A types : OfTypes(before, types) = {i \in 1 .. n : q[i].type \in types}
    <2>1. n \in 0 .. Len(q)
      OBVIOUS
    <2> QED BY <2>1, BeforeIs, LastToggleIs
  <1>4. /\ a \in QueuedActions
        /\ toggle # 0 => toggle \in 1 .. n /\ q[toggle].type \in Toggles
        /\ switch # 0 => switch \in 1 .. n /\ q[switch].type = "set-dao-recovery"
    <2>1. a \in QueuedActions
      OBVIOUS
    <2>2. toggle # 0 => toggle \in 1 .. n /\ q[toggle].type \in Toggles
      BY <1>3, LastOfIs
    <2>3. switch # 0 => switch \in 1 .. n /\ q[switch].type \in {"set-dao-recovery"}
      BY <1>3, LastOfIs
    <2> QED BY <2>1, <2>2, <2>3
  <1>5. IF toggle = 0 THEN known.paused = "on" <=> c.paused ELSE q[toggle].type = "pause-auction" <=> c.paused
    BY DEF Tracks, PausedAfter
  <1>6. IF switch = 0 THEN known.recovery = "on" <=> c.recovery ELSE q[switch].val = 1 <=> c.recovery
    BY DEF Tracks, RecoveryAfter
  <1>7. c.trees <=> n > 0 /\ q[n].type = "treasury-authorize"
    BY DEF Tracks, TreesAfter
  <1>8. toggle # 0 => before[toggle] = q[toggle]
    BY <1>3, <1>4
  <1>9. switch # 0 => before[switch] = q[switch] /\ switch \in 1 .. Len(before)
    BY <1>3, <1>4
  <1>10. n > 0 => before[n] = q[n]
    BY <1>3
  <1> SUFFICES \E f : f \in AnalyzeAction(a, before, known) /\ Alarming(f)
    OBVIOUS
  <1> HIDE DEF a, before, toggle, switch
  <1>11. CASE IsTreasuryCall(a) /\ c.trees
    <2>1. Finding("error", "order", {Len(before)}) \in AuthorizeFindings(a, before)
      BY <1>3, <1>7, <1>10, <1>11 DEF AuthorizeFindings
    <2> QED BY <2>1, FoundBy, Alarms DEF PrerequisiteFindings
  <1>12. ASSUME ~Accepts(c, a)
         PROVE  \E f : f \in AnalyzeAction(a, before, known) /\ Alarming(f)
    <2>1. CASE a.type \in Toggles
      <3>1. a.type = "pause-auction" <=> c.paused
        BY <1>12, <2>1, <1>1 DEF Accepts, AuctionAccepts, TokenAccepts, Toggles, NeedsPausedAuction, NeedsModule
      <3>2. CASE toggle = 0
        <4>1. known.paused = IF a.type = "pause-auction" THEN "on" ELSE "off"
          BY <1>2, <1>5, <3>1, <3>2
        <4>2. Warning({}) \in ToggleFindings(a, before, known)
          BY <1>3, <3>2, <4>1 DEF ToggleFindings
        <4> QED BY <2>1, <4>2, FoundBy, Alarms
      <3>3. CASE toggle # 0
        <4>1. before[toggle].type = a.type
          BY <1>4, <1>5, <1>8, <2>1, <3>1, <3>3 DEF Toggles
        <4>2. Finding("error", "duplicate", {toggle}) \in ToggleFindings(a, before, known)
          BY <1>3, <3>3, <4>1 DEF ToggleFindings
        <4> QED BY <2>1, <4>2, FoundBy, Alarms
      <3> QED BY <3>2, <3>3
    <2>2. CASE a.type \in NeedsPausedAuction
      <3>1. a.type \notin Toggles /\ ~c.paused
        BY <1>12, <2>2 DEF Accepts, AuctionAccepts, TokenAccepts, Toggles, NeedsPausedAuction, NeedsModule
      <3>2. CASE toggle = 0
        <4>1. known.paused # "on"
          BY <1>5, <3>1, <3>2
        <4>2. Warning({}) \in PrerequisiteFindings(a, before, known)
          BY <1>3, <2>2, <3>2, <4>1 DEF PrerequisiteFindings
        <4> QED BY <4>2, FoundBy, Alarms
      <3>3. CASE toggle # 0
        <4>1. before[toggle].type = "unpause-auction"
          BY <1>4, <1>5, <1>8, <3>1, <3>3 DEF Toggles
        <4>2. Warning({toggle}) \in ValueFindings(a, before)
          BY <1>3, <2>2, <3>3, <4>1 DEF ValueFindings
        <4> QED BY <3>1, <4>2, FoundBy, Alarms
      <3> QED BY <3>2, <3>3
    <2>3. CASE a.type \in NeedsModule
      <3>1. a.of \notin c.modules
        BY <1>12, <2>3 DEF Accepts, AuctionAccepts, TokenAccepts, Toggles, NeedsPausedAuction, NeedsModule
      <3> DEFINE last == LastAbout(q, n, a.of)
                 found == {i \in OfTypes(before, {"register-module", "unregister-module"}) : before[i].of = a.of}
      <3>2. LastIndex(found) = last
        <4>1. found = {i \in 1 .. n : q[i].type \in RegistryCalls /\ q[i].of = a.of}
          BY <1>3 DEF RegistryCalls
        <4> HIDE DEF found
        <4> QED BY <4>1 DEF LastAbout
      <3>3. last # 0 => /\ last \in 1 .. n /\ q[last].type \in RegistryCalls /\ q[last].of = a.of
        BY <1>3, LastAboutIs
      <3>4. CASE last = 0
        <4>1. a.of \notin known.modules
          BY <1>2, <3>1, <3>4 DEF Tracks, ModulesAfter
        <4>2. ~KnownRegistered(a.of, before, known)
          <5> HIDE DEF last
          <5> QED BY <3>2, <3>4, <4>1 DEF KnownRegistered
        <4>3. Warning({}) \in PrerequisiteFindings(a, before, known)
          BY <2>3, <4>2 DEF PrerequisiteFindings
        <4> QED BY <4>3, FoundBy, Alarms
      <3>5. CASE last # 0
        <4>1. q[last] \in QueuedActions
          BY <3>3, <3>5
        <4>2. a.of \in Registrable
          BY <3>3, <3>5, <4>1, QueuedIs
        <4>3. q[last].type # "register-module"
          BY <3>1, <3>5, <4>2 DEF Tracks, ModulesAfter
        <4>4. before[last] = q[last]
          BY <1>3, <3>3, <3>5
        <4>5. ~KnownRegistered(a.of, before, known)
          <5> HIDE DEF last
          <5> QED BY <3>2, <3>5, <4>3, <4>4 DEF KnownRegistered
        <4>6. Warning({}) \in PrerequisiteFindings(a, before, known)
          BY <2>3, <4>5 DEF PrerequisiteFindings
        <4> QED BY <4>6, FoundBy, Alarms
      <3> QED BY <3>4, <3>5
    <2>4. CASE a.type = "set-dao-recovery"
      <3>1. c.recovery <=> a.val = 1
        BY <1>1, <1>12, <2>4 DEF Accepts, AuctionAccepts, TokenAccepts, Toggles, NeedsPausedAuction, NeedsModule
      <3>2. CASE switch = 0
        <4>1. known.recovery = IF a.val = 1 THEN "on" ELSE "off"
          BY <1>2, <1>6, <3>1, <3>2
        <4>2. Warning({}) \in PrerequisiteFindings(a, before, known)
          BY <2>4, <4>1 DEF PrerequisiteFindings
        <4> QED BY <4>2, FoundBy, Alarms
      <3>3. CASE switch # 0
        <4>1. q[switch] \in QueuedActions /\ q[switch].type = "set-dao-recovery"
          BY <1>4, <3>3
        <4>2. q[switch].of = "" /\ a.of = ""
          BY <1>4, <2>4, <4>1, QueuedIs
        <4>3. Resource(before[switch]) = Resource(a)
          BY <1>9, <2>4, <3>3, <4>1, <4>2 DEF Resource, Toggles
        <4> DEFINE f == Finding("error", IF SameCall(a, before[switch]) THEN "duplicate" ELSE "conflict", {switch})
        <4>4. f \in ValueFindings(a, before)
          BY <1>9, <3>3, <4>3 DEF ValueFindings
        <4>5. a.type \notin Toggles
          BY <2>4 DEF Toggles
        <4> QED BY <4>4, <4>5, FoundBy, Alarms
      <3> QED BY <3>2, <3>3
    <2>5. CASE a.type = "dao-transfer"
      <3>1. ~c.recovery
        BY <1>12, <2>5 DEF Accepts, AuctionAccepts, TokenAccepts, Toggles, NeedsPausedAuction, NeedsModule
      <3>2. LastIndex(OfTypes(before, {"set-dao-recovery"})) = switch
        BY <1>3 DEF switch, LastOf
      <3>3. ~(IF switch = 0 THEN known.recovery = "on" ELSE before[switch].val = 1)
        BY <1>6, <1>9, <3>1
      <3>4. Warning({switch} \ {0}) \in RecoveryFindings(a, before, known)
        BY <2>5, <3>2, <3>3 DEF RecoveryFindings
      <3> QED BY <3>4, FoundBy, Alarms DEF PrerequisiteFindings
    <2>6. CASE a.type = "treasury-buy-listing"
      <3>1. ~c.trees
        BY <1>12, <2>6 DEF Accepts, AuctionAccepts, TokenAccepts, Toggles, NeedsPausedAuction, NeedsModule
      <3>2. ~(Len(before) > 0 /\ before[Len(before)].type = "treasury-authorize")
        BY <1>3, <1>7, <1>10, <3>1
      <3>3. Finding("error", "order", {}) \in AuthorizeFindings(a, before)
        BY <2>6, <3>2 DEF AuthorizeFindings
      <3> QED BY <3>3, FoundBy, Alarms DEF PrerequisiteFindings
    <2>7. a.type \notin Unchecked
      BY DEF a
    <2> QED BY <1>12, <2>1, <2>2, <2>3, <2>4, <2>5, <2>6, <2>7
            DEF Accepts, AuctionAccepts, TokenAccepts, Toggles, NeedsPausedAuction, NeedsModule, Unchecked
  <1>13. ~Runs(c, a)
    BY DEF a
  <1> QED BY <1>11, <1>12, <1>13 DEF Runs

\* An action that runs after those before it is in no order that is an error, and is no pause or
\* resume that repeats.
LEMMA RunsUnalarmed ==
    ASSUME NEW q \in Seq(QueuedActions), NEW n \in Nat, n < Len(q), NEW c \in Contracts,
           Tracks(q, n, c), Runs(c, q[n + 1]), Unalarmed(q, n)
    PROVE  Unalarmed(q, n + 1)
  <1> DEFINE a == q[n + 1]
             before == SubSeq(q, 1, n)
             toggle == LastOf(q, n, Toggles)
  <1>1. c.paused \in BOOLEAN /\ c.trees \in BOOLEAN
    BY DEF Contracts
  <1>2. /\ n \in 0 .. Len(q) /\ Len(before) = n /\ LastToggle(before) = toggle
        /\ \A i \in 1 .. n : before[i] = q[i]
    <2>1. n \in 0 .. Len(q)
      OBVIOUS
    <2> QED BY <2>1, BeforeIs, LastToggleIs
  <1>3. toggle # 0 => toggle \in 1 .. n /\ q[toggle].type \in Toggles /\ before[toggle] = q[toggle]
    <2>1. toggle # 0 => toggle \in 1 .. n /\ q[toggle].type \in Toggles
      BY <1>2, LastOfIs
    <2> QED BY <1>2, <2>1
  <1>4. toggle # 0 => (q[toggle].type = "pause-auction" <=> c.paused)
    BY DEF Tracks, PausedAfter
  <1>5. c.trees <=> n > 0 /\ before[n].type = "treasury-authorize"
    BY <1>2 DEF Tracks, TreesAfter
  <1>6. Accepts(c, a) /\ (IsTreasuryCall(a) => ~c.trees)
    BY DEF Runs
  <1> HIDE DEF a, before, toggle
  <1>7. AuthorizeFindings(a, before) = {}
    <2>1. a.type = "treasury-buy-listing" => c.trees
      BY <1>6 DEF Accepts, AuctionAccepts, TokenAccepts, Toggles, NeedsPausedAuction, NeedsModule
    <2> QED BY <1>2, <1>5, <1>6, <2>1 DEF AuthorizeFindings
  <1>8. ASSUME NEW f \in PrerequisiteFindings(a, before, known) PROVE f.severity = "warning"
    BY <1>7, <1>8, Alarms DEF PrerequisiteFindings, RecoveryFindings
  <1>9. ASSUME a.type \in Toggles, NEW f \in ToggleFindings(a, before, known) PROVE f.severity = "warning"
    <2>1. a.type = "pause-auction" => ~c.paused
      BY <1>6 DEF Accepts, AuctionAccepts, TokenAccepts, NeedsPausedAuction, NeedsModule
    <2>2. a.type = "unpause-auction" => c.paused
      BY <1>6 DEF Accepts, AuctionAccepts, TokenAccepts, NeedsPausedAuction, NeedsModule
    <2>3. toggle # 0 => before[toggle].type # a.type
      BY <1>3, <1>4, <1>9, <2>1, <2>2 DEF Toggles
    <2> QED BY <1>2, <1>9, <2>3, Alarms DEF ToggleFindings
  <1>10. ASSUME NEW f \in ValueFindings(a, before), f.severity = "error" PROVE f.kind # "order"
    <2>1. CASE \E on : f = Warning(on)
      BY <1>10, <2>1, Alarms
    <2>2. CASE \E i \in 1 .. Len(before) :
                 f = Finding("error", IF SameCall(a, before[i]) THEN "duplicate" ELSE "conflict", {i})
      BY <2>2 DEF Finding
    <2> QED BY <1>10, <2>1, <2>2 DEF ValueFindings
  <1>11. ASSUME NEW f \in HighRiskFindings(a) PROVE f.severity = "warning"
    BY <1>11 DEF HighRiskFindings, Finding
  <1>12. ASSUME NEW f \in AnalyzeAction(a, before, known), f.severity = "error"
         PROVE  f.kind # "order" /\ a.type \notin Toggles
    BY <1>8, <1>9, <1>10, <1>11, <1>12 DEF AnalyzeAction
  <1>13. ASSUME NEW i \in 1 .. n + 1, NEW f \in AnalyzeAction(q[i], SubSeq(q, 1, i - 1), known),
                f.severity = "error"
         PROVE  f.kind # "order" /\ q[i].type \notin Toggles
    <2>1. CASE i \in 1 .. n
      BY <1>13, <2>1 DEF Unalarmed
    <2>2. CASE i = n + 1
      <3>1. q[i] = a /\ SubSeq(q, 1, i - 1) = before
        BY <2>2 DEF a, before
      <3> QED BY <1>12, <1>13, <3>1
    <2> QED BY <2>1, <2>2
  <1> QED BY <1>13 DEF Unalarmed

-----------------------------------------------------------------------------
(* The invariant. *)

\* A draft starts empty, with what the index last said of the contracts true of them.
LEMMA DraftStart == ASSUME DraftInit PROVE DraftInd
  <1>1. draft = <<>> /\ draft \in Seq(QueuedActions) /\ Len(draft) = 0 /\ at = 0
    BY DEF DraftInit
  <1>2. contracts \in Contracts /\ ~contracts.trees
    <2>1. contracts \in [paused : BOOLEAN, recovery : BOOLEAN, modules : SUBSET Registrable, trees : {FALSE}]
      BY DEF DraftInit
    <2>2. contracts.trees = FALSE
      BY <2>1
    <2> QED BY <2>1, <2>2 DEF Contracts
  <1>3. DraftTypes
    <2>1. MaxActions \in Nat
      BY DraftAssumption, Zenon
    <2> QED BY <1>1, <1>2, <2>1 DEF DraftInit, DraftTypes
  <1> QED BY <1>1, <1>2, <1>3 DEF DraftInit, DraftInd

\* Each step keeps the invariant.
LEMMA DraftStep == ASSUME DraftInd, [DraftNext]_draftVars PROVE DraftInd'
  <1>0. /\ DraftTypes /\ draft \in Seq(QueuedActions)
        /\ Len(draft) \in Nat /\ MaxActions \in Nat
    <2>1. DraftTypes /\ draft \in Seq(QueuedActions)
      BY DEF DraftInd
    <2>2. MaxActions \in Nat
      BY DraftAssumption, Zenon
    <2> QED BY <2>1, <2>2
  <1>1. ASSUME NEW call \in Calls, Queue(call) PROVE DraftInd'
    <2> DEFINE a == [id |-> Len(draft) + 1, type |-> call.type, of |-> call.of, val |-> call.val, bundle |-> 0]
    <2>1. a \in QueuedActions
      <3>1. Len(draft) + 1 \in Nat
        BY <1>0
      <3>2. \E n \in Nat, c \in Calls :
                a = [id |-> n, type |-> c.type, of |-> c.of, val |-> c.val, bundle |-> 0]
        BY <3>1, Zenon
      <3> HIDE DEF a
      <3> QED BY <3>2 DEF QueuedActions
    <2>2. draft' \in Seq(QueuedActions) /\ Len(draft') = Len(draft) + 1
      BY <1>0, <1>1, <2>1 DEF Queue
    <2> QED BY <1>0, <1>1, <2>2 DEF Queue, DraftInd, DraftTypes, TrueOf
  <1>2. ASSUME Execute PROVE DraftInd'
    <2>1. Tracks(draft, 0, contracts) /\ Unalarmed(draft, 0)
      BY <1>0, <1>2, RunBegins DEF Execute, DraftInd, DraftTypes
    <2>2. UNCHANGED <<known, contracts, draft>> /\ at' = 1 /\ outcome' = "running" /\ at' - 1 = 0
      BY <1>2 DEF Execute
    <2>3. Len(draft) > 0
      BY <1>0, <1>2 DEF Execute
    <2>4. DraftTypes'
      BY <1>0, <2>2 DEF DraftTypes
    <2>5. (Tracks(draft, at - 1, contracts) /\ Unalarmed(draft, at - 1))'
      BY <2>1, <2>2
         DEF Tracks, PausedAfter, RecoveryAfter, ModulesAfter, TreesAfter, Unalarmed
    <2> QED BY <1>0, <2>2, <2>3, <2>4, <2>5 DEF DraftInd
  <1>3. ASSUME RunCall PROVE DraftInd'
    <2>1. /\ at \in Nat /\ at - 1 \in Nat /\ at - 1 < Len(draft) /\ (at - 1) + 1 = at
          /\ Tracks(draft, at - 1, contracts) /\ Unalarmed(draft, at - 1)
          /\ contracts \in Contracts /\ outcome = "running" /\ UNCHANGED <<known, draft>>
      BY <1>0, <1>3 DEF RunCall, DraftInd, DraftTypes
    <2>2. CASE Runs(contracts, draft[at])
      <3> DEFINE d == After(contracts, draft[at])
      <3>1. contracts' = d /\ at' = at + 1 /\ outcome' = "running"
        BY <1>3, <2>1, <2>2 DEF RunCall
      <3>2. d \in Contracts /\ Tracks(draft, at, d)
        BY <1>0, <2>1, <2>2, RunTracks
      <3>3. Unalarmed(draft, at)
        BY <1>0, <2>1, <2>2, RunsUnalarmed
      <3>4. DraftTypes'
        BY <1>0, <2>1, <3>1, <3>2 DEF DraftTypes
      <3>5. at' - 1 = at
        BY <2>1, <3>1
      <3>6. (Tracks(draft, at - 1, contracts) /\ Unalarmed(draft, at - 1))'
        <4> HIDE DEF d
        <4> QED BY <2>1, <3>1, <3>2, <3>3, <3>5
               DEF Tracks, PausedAfter, RecoveryAfter, ModulesAfter, TreesAfter, Unalarmed
      <3> QED BY <1>0, <2>1, <3>1, <3>4, <3>6 DEF DraftInd
    <2>3. CASE ~Runs(contracts, draft[at])
      <3>1. UNCHANGED <<known, draft, contracts, at>> /\ outcome' = "failed"
        BY <1>3, <2>1, <2>3 DEF RunCall
      <3>2. DraftTypes'
        BY <1>0, <3>1 DEF DraftTypes
      <3>3. (Tracks(draft, at - 1, contracts) /\ Unalarmed(draft, at - 1))'
        BY <2>1, <3>1
           DEF Tracks, PausedAfter, RecoveryAfter, ModulesAfter, TreesAfter, Unalarmed
      <3>4. (~Runs(contracts, draft[at]))' /\ at' # Len(draft') + 1
        BY <1>0, <2>1, <2>3, <3>1 DEF Runs, Accepts, AuctionAccepts, TokenAccepts
      <3> QED BY <1>0, <2>1, <3>1, <3>2, <3>3, <3>4 DEF DraftInd
    <2> QED BY <2>2, <2>3
  <1>4. ASSUME FinishRun PROVE DraftInd'
    <2>1. /\ at = Len(draft) + 1 /\ Tracks(draft, at - 1, contracts) /\ Unalarmed(draft, at - 1)
          /\ UNCHANGED <<known, contracts, draft, at>>
          /\ outcome' = IF contracts.trees THEN "failed" ELSE "done"
      BY <1>0, <1>4 DEF FinishRun, DraftInd
    <2>2. DraftTypes'
      BY <1>0, <2>1 DEF DraftTypes
    <2>3. (Tracks(draft, at - 1, contracts) /\ Unalarmed(draft, at - 1))'
      BY <2>1 DEF Tracks, PausedAfter, RecoveryAfter, ModulesAfter, TreesAfter, Unalarmed
    <2> QED BY <1>0, <2>1, <2>2, <2>3 DEF DraftInd
  <1>5. ASSUME UNCHANGED draftVars PROVE DraftInd'
    BY <1>0, <1>5 DEF draftVars, DraftInd, DraftTypes, TrueOf, Tracks, PausedAfter, RecoveryAfter,
                      ModulesAfter, TreesAfter, Unalarmed, Runs, Accepts
  <1> QED BY <1>1, <1>2, <1>3, <1>4, <1>5 DEF DraftNext

\* While the Treasury runs a draft, of any length, the contracts are what the draft rules look up in
\* the actions that have run: the last pause, resume, switch or registration, the authorization.
THEOREM DraftInvariant == DraftSpec => []DraftInd
  BY DraftStart, DraftStep, PTL DEF DraftSpec

\* A draft without errors and order warnings runs to its end, or stops at a call of a kind the
\* rules do not check; an order error or a repeated pause or resume is never a false alarm
\* (analyzeProposalDraft against Treasury.execute).
THEOREM RulesAreSound == DraftSpec => []RulesHold
  <1>1. ASSUME DraftInd PROVE RulesHold
    <2>0. /\ DraftTypes /\ draft \in Seq(QueuedActions) /\ Len(draft) \in Nat
      BY <1>1 DEF DraftInd
    <2>1. CleanDraftRuns
      <3> SUFFICES ASSUME outcome = "failed", known.given, known.paused # "unknown", known.recovery # "unknown",
                          ~(at <= Len(draft) /\ draft[at].type \in Unchecked)
                   PROVE  \E f \in AnalyzeDraft(draft, known) : Alarming(f)
        BY DEF CleanDraftRuns, Alarming
      <3>1. /\ at \in 1 .. Len(draft) + 1 /\ Tracks(draft, at - 1, contracts)
            /\ IF at = Len(draft) + 1 THEN contracts.trees ELSE ~Runs(contracts, draft[at])
        BY <1>1 DEF DraftInd
      <3>2. ASSUME NEW i \in 1 .. Len(draft), NEW f \in FindingsAt(draft, i, known)
            PROVE  f \in AnalyzeDraft(draft, known)
        BY DEF AnalyzeDraft
      <3>3. CASE at = Len(draft) + 1
        <4>1. Len(draft) > 0 /\ draft[Len(draft)].type = "treasury-authorize"
          BY <2>0, <3>1, <3>3 DEF Tracks, TreesAfter
        <4>2. Finding("error", "order", {Len(draft)}) \in FindingsAt(draft, Len(draft), known)
          BY <4>1 DEF FindingsAt
        <4>3. Len(draft) \in 1 .. Len(draft)
          BY <2>0, <4>1
        <4>4. Alarming(Finding("error", "order", {Len(draft)}))
          BY Alarms
        <4> QED BY <3>2, <4>2, <4>3, <4>4
      <3>4. CASE at # Len(draft) + 1
        <4>1. /\ at \in 1 .. Len(draft) /\ at - 1 \in Nat /\ at - 1 < Len(draft) /\ (at - 1) + 1 = at
              /\ draft[at].type \notin Unchecked /\ ~Runs(contracts, draft[at])
          BY <2>0, <3>1, <3>4
        <4>2. contracts \in Contracts /\ known \in Tribes
          BY <2>0 DEF DraftTypes
        <4>3. PICK f \in AnalyzeAction(draft[at], SubSeq(draft, 1, at - 1), known) : Alarming(f)
          BY <2>0, <3>1, <4>1, <4>2, RefusedIsFound
        <4>4. f \in FindingsAt(draft, at, known)
          BY <4>3 DEF FindingsAt
        <4> QED BY <3>2, <4>1, <4>3, <4>4
      <3> QED BY <3>3, <3>4
    <2>2. BlockedDraftFails
      <3> SUFFICES ASSUME outcome = "done", NEW i \in 1 .. Len(draft), NEW f \in FindingsAt(draft, i, known),
                          f.severity = "error"
                   PROVE  f.kind # "order" /\ draft[i].type \notin Toggles
        BY DEF BlockedDraftFails
      <3>1. /\ at = Len(draft) + 1 /\ Tracks(draft, at - 1, contracts) /\ Unalarmed(draft, at - 1)
            /\ ~contracts.trees
        BY <1>1 DEF DraftInd
      <3>2. at - 1 = Len(draft)
        BY <2>0, <3>1
      <3>3. draft[Len(draft)].type # "treasury-authorize"
        BY <2>0, <3>1, <3>2 DEF Tracks, TreesAfter
      <3>4. f \in AnalyzeAction(draft[i], SubSeq(draft, 1, i - 1), known)
        BY <3>3 DEF FindingsAt
      <3> QED BY <3>1, <3>2, <3>4 DEF Unalarmed
    <2> QED BY <2>0, <2>1, <2>2 DEF RulesHold
  <1> QED BY <1>1, DraftInvariant, PTL

=============================================================================
