------------------------- MODULE SessionEntryProofs -------------------------
(***************************************************************************)
(* Proofs for every set of page loads and rows, any duplicates from before *)
(* the lock, any number of retries and of transactions abandoned half-way. *)
(* First that the advisory lock makes check-and-create one step: a row the *)
(* server creates is the only candidate of its pair.  LockConsistent is    *)
(* what makes this inductive.  Then that the ranking of duplicates sends   *)
(* every page to one row (RowInv).                                         *)
(***************************************************************************)
EXTENDS SessionEntry, FiniteSetTheorems, TLAPS

LockTypes ==
    /\ status \in [Row -> RowStatus]
    /\ pc \in [Request -> PageState]

EntryInv == LockTypes /\ LockConsistent /\ CreatedRowIsAlone

LEMMA EntryInit == Init => EntryInv
<1> SUFFICES ASSUME Init PROVE EntryInv
  OBVIOUS
<1>1. LockTypes
  BY DEF Init, LockTypes, PageState
<1>2. Present \subseteq Historic
  BY DEF Init, Present
<1>3. LockConsistent /\ CreatedRowIsAlone
  BY <1>2 DEF Init, LockConsistent, CreatedRowIsAlone, Candidates, InTransaction, Decision
<1>4. QED
  BY <1>1, <1>3 DEF EntryInv

\* A step that leaves every row's status and the lock alone, and starts no
\* transaction, keeps everything.
LEMMA QuietStep ==
    ASSUME EntryInv, UNCHANGED <<status, lock, pending>>, LockTypes',
           \A q \in Request : /\ InTransaction(q)' => InTransaction(q)
                              /\ pc'[q] = "create" => pc[q] = "create"
    PROVE  EntryInv'
  BY DEF EntryInv, LockConsistent, CreatedRowIsAlone, Candidates, Present

\* Ending the transaction of the holder, or of nobody.
LEMMA LeaveStep ==
    ASSUME EntryInv, NEW h \in Request, InTransaction(h), LeaveTransaction(h),
           UNCHANGED status, LockTypes',
           \A q \in Request : /\ InTransaction(q)' => InTransaction(q) /\ q # h
                              /\ pc'[q] = "create" => pc[q] = "create"
    PROVE  EntryInv'
<1>1. \A q \in Request : ~InTransaction(q)'
  BY DEF EntryInv, LockConsistent
<1>2. \A q \in Request : pc'[q] # "create"
  BY <1>1 DEF InTransaction, Decision
<1>3. Candidates' = Candidates
  BY DEF Candidates, Present
<1>4. pending' => lock' = Orphan /\ Candidates = {}
  BY HolderAssumption DEF EntryInv, LockConsistent, LeaveTransaction, ReleaseLock
<1>5. QED
  BY <1>1, <1>2, <1>3, <1>4 DEF EntryInv, LockConsistent, CreatedRowIsAlone

\* A row inserted while the pair offers none is alone.
LEMMA InsertStep ==
    ASSUME EntryInv, Candidates = {}, NEW r \in Row, InsertRow(r)
    PROVE  Candidates' = {r} /\ status' \in [Row -> RowStatus]
  BY DEF EntryInv, LockTypes, InsertRow, Candidates, Present, RowStatus

LEMMA EntryStep == EntryInv /\ [Next]_vars => EntryInv'
<1> SUFFICES ASSUME EntryInv, [Next]_vars PROVE EntryInv'
  OBVIOUS
<1> USE DEF rowVars, txVars
<1>1. ASSUME NEW q \in Request, Arrive(q) PROVE EntryInv'
  BY <1>1, QuietStep DEF Arrive, EntryInv, LockTypes, PageState, InTransaction, Decision
<1>2. ASSUME NEW q \in Request, TakeLock(q) PROVE EntryInv'
  BY <1>2, HolderAssumption
  DEF TakeLock, EntryInv, LockTypes, PageState, LockConsistent, CreatedRowIsAlone,
      InTransaction, Decision, Candidates, Present
<1>3. ASSUME NEW q \in Request, Select(q) PROVE EntryInv'
  BY <1>3
  DEF Select, Decide, EntryInv, LockTypes, PageState, LockConsistent, CreatedRowIsAlone,
      InTransaction, Decision, Candidates, Present
<1>4. ASSUME NEW q \in Request, Commit(q) PROVE EntryInv'
  <2>1. \A p \in Request : ~InTransaction(p)'
    BY <1>4 DEF Commit, EntryInv, LockTypes, LockConsistent, InTransaction, Decision
  <2>2. /\ pc' \in [Request -> PageState]
        /\ \A p \in Request : pc'[p] # "create"
    BY <1>4, <2>1 DEF Commit, EntryInv, LockTypes, PageState, Committed, InTransaction, Decision
  <2>3. ~pending /\ ~pending'
    BY <1>4, HolderAssumption DEF Commit, EntryInv, LockConsistent, InTransaction
  <2>4. CASE pc[q] = "create"
    <3>1. PICK r \in Row : InsertRow(r)
      BY <1>4, <2>4 DEF Commit
    <3>2. Candidates' = {r} /\ status' \in [Row -> RowStatus]
      BY <2>4, <3>1, InsertStep DEF EntryInv, LockConsistent
    <3>3. QED
      BY <2>1, <2>2, <2>3, <3>2 DEF EntryInv, LockTypes, LockConsistent, CreatedRowIsAlone
  <2>5. CASE pc[q] # "create"
    BY <1>4, <2>1, <2>2, <2>3, <2>5
    DEF Commit, EntryInv, LockTypes, LockConsistent, CreatedRowIsAlone, Candidates, Present
  <2>6. QED
    BY <2>4, <2>5
<1>5. ASSUME NEW q \in Request, Answer(q) PROVE EntryInv'
  BY <1>5, QuietStep DEF Answer, EntryInv, LockTypes, PageState, InTransaction, Decision, Committed
<1>6. ASSUME NEW q \in Request, Break(q) PROVE EntryInv'
  <2>1. /\ LockTypes' /\ UNCHANGED status
        /\ \A p \in Request : /\ InTransaction(p)' => InTransaction(p) /\ p # q
                              /\ pc'[p] = "create" => pc[p] = "create"
    BY <1>6 DEF Break, EntryInv, LockTypes, PageState, InTransaction, Decision
  <2>2. CASE InTransaction(q)
    BY <1>6, <2>1, <2>2, LeaveStep DEF Break
  <2>3. CASE ~InTransaction(q)
    BY <1>6, <2>1, <2>3, QuietStep DEF Break
  <2>4. QED
    BY <2>2, <2>3
<1>7. ASSUME NEW q \in Request, AnswerLost(q) PROVE EntryInv'
  BY <1>7, QuietStep DEF AnswerLost, EntryInv, LockTypes, PageState, InTransaction, Decision, Committed
<1>8. ASSUME NEW q \in Request, Flush(q) \/ Run(q) \/ Alert(q) PROVE EntryInv'
  BY <1>8, QuietStep DEF Flush, Run, Alert, EntryInv, LockTypes, InTransaction
<1>9. ASSUME NEW q \in Request, Submit(q) PROVE EntryInv'
  BY <1>9
  DEF Submit, EntryInv, LockTypes, RowStatus, PageState, LockConsistent, CreatedRowIsAlone,
      InTransaction, Decision, Candidates, Present
<1>10. ASSUME NEW q \in Request, Leave(q) PROVE EntryInv'
  BY <1>10, QuietStep DEF Leave, EntryInv, LockTypes, PageState, InTransaction, Decision
<1>11. ASSUME NEW r \in Row, Score(r) PROVE EntryInv'
  BY <1>11, QuietStep DEF Score, EntryInv, LockTypes, InTransaction
<1>12. CASE OrphanEnds
  <2>1. \A p \in Request : ~InTransaction(p) /\ ~InTransaction(p)'
    BY <1>12, HolderAssumption DEF OrphanEnds, EntryInv, LockConsistent, InTransaction
  <2>2. CASE pending /\ \E r \in Row : InsertRow(r)
    <3>1. PICK r \in Row : InsertRow(r)
      BY <2>2
    <3>2. Candidates' = {r} /\ status' \in [Row -> RowStatus]
      BY <2>2, <3>1, InsertStep DEF EntryInv, LockConsistent
    <3>3. QED
      BY <1>12, <2>1, <3>2
      DEF OrphanEnds, EntryInv, LockTypes, LockConsistent, CreatedRowIsAlone, InTransaction, Decision
  <2>3. CASE UNCHANGED rowVars
    BY <1>12, <2>1, <2>3
    DEF OrphanEnds, EntryInv, LockTypes, LockConsistent, CreatedRowIsAlone, InTransaction, Decision,
        Candidates, Present
  <2>4. QED
    BY <1>12, <2>2, <2>3 DEF OrphanEnds
<1>13. CASE Restart
  <2>1. /\ LockTypes' /\ UNCHANGED status
        /\ \A p \in Request : ~InTransaction(p)' /\ pc'[p] # "create"
    BY <1>13 DEF Restart, EntryInv, LockTypes, PageState, InTransaction, Decision
  <2>2. CASE lock \in Request /\ LeaveTransaction(lock)
    <3>1. pending' => lock' = Orphan /\ Candidates = {}
      BY <2>2, HolderAssumption DEF EntryInv, LockConsistent, LeaveTransaction, ReleaseLock
    <3>2. Candidates' = Candidates
      BY <2>1 DEF Candidates, Present
    <3>3. QED
      BY <2>1, <3>1, <3>2 DEF EntryInv, LockConsistent, CreatedRowIsAlone
  <2>3. CASE UNCHANGED txVars
    BY <2>1, <2>3, QuietStep
  <2>4. QED
    BY <1>13, <2>2, <2>3 DEF Restart
<1>14. CASE UNCHANGED vars
  BY <1>14, QuietStep DEF vars, EntryInv, LockTypes, InTransaction
<1>15. QED
  BY <1>1, <1>2, <1>3, <1>4, <1>5, <1>6, <1>7, <1>8, <1>9, <1>10, <1>11, <1>12,
     <1>13, <1>14 DEF Next, Handler

\* The lock has one holder from the SELECT to the end of its transaction, and
\* nothing the transaction saw changes under it.
THEOREM LockSerializes == Spec => []LockConsistent
<1>1. EntryInv => LockConsistent
  BY DEF EntryInv
<1>2. QED
  BY <1>1, EntryInit, EntryStep, PTL DEF Spec

\* A row the server created is the only candidate of its pair.
THEOREM OneRowPerPair == Spec => []CreatedRowIsAlone
<1>1. EntryInv => CreatedRowIsAlone
  BY DEF EntryInv
<1>2. QED
  BY <1>1, EntryInit, EntryStep, PTL DEF Spec

-----------------------------------------------------------------------------
(***************************************************************************)
(* Duplicates.  compareRealness is a strict order, total on rows that were *)
(* not updated at the same moment, and whatever a row gains it only moves  *)
(* up.  So the row one page works in stays the row every later page is     *)
(* given, and its work is never left behind.                               *)
(***************************************************************************)
Before(f, g) == \E i \in Field : f[i] > g[i] /\ \A j \in Field : j < i => f[j] = g[j]

LEMMA BeforeAsymmetric ==
    ASSUME NEW f \in [Field -> Nat], NEW g \in [Field -> Nat], Before(f, g)
    PROVE  ~Before(g, f)
  BY DEF Before, Field

LEMMA BeforeTotal ==
    ASSUME NEW f \in [Field -> Nat], NEW g \in [Field -> Nat], f[Updated] # g[Updated]
    PROVE  Before(f, g) \/ Before(g, f)
<1>1. Field = {1, 2, 3, 4, 5} /\ Updated = 5
  BY DEF Field, Updated
<1>2. \A i \in Field : f[i] \in Nat /\ g[i] \in Nat
  OBVIOUS
<1>3. QED
  BY <1>1, <1>2 DEF Before

LEMMA BeforeGrows ==
    ASSUME NEW f \in [Field -> Nat], NEW g \in [Field -> Nat], NEW h \in [Field -> Nat],
           Before(f, g), \A i \in Field : h[i] >= f[i]
    PROVE  Before(h, g)
<1>1. Field = {1, 2, 3, 4, 5}
  BY DEF Field
<1>2. \A i \in Field : f[i] \in Nat /\ g[i] \in Nat /\ h[i] \in Nat
  OBVIOUS
<1>3. PICK i \in Field : f[i] > g[i] /\ \A j \in Field : j < i => f[j] = g[j]
  BY DEF Before
<1>4. QED
  BY <1>1, <1>2, <1>3 DEF Before

Holding(q) == pc[q] \in {"resume", "resumed", "created", "editing"}

RowTypes ==
    /\ evidence \in [Row -> [Field -> Nat]] /\ clock \in Nat
    /\ DOMAIN choice = Request
    /\ \A q \in Request : Holding(q) => choice[q] \in Present

\* No two rows were updated at one moment.
Stamped ==
    /\ \A r \in Present : evidence[r][Updated] <= clock
    /\ \A r, s \in Present : evidence[r][Updated] = evidence[s][Updated] => r = s

\* The open row of a page comes before every other open row, and with an
\* assignment nothing is submitted while there is one.
Leads(q) ==
    Holding(q) /\ status[choice[q]] = "IN_PROGRESS" =>
        /\ \A s \in Open \ {choice[q]} : Before(evidence[choice[q]], evidence[s])
        /\ Assigned => Present = Open

RowInv == RowTypes /\ Stamped /\ \A q \in Request : Leads(q)

LEMMA RowInit == Init => RowInv
<1> SUFFICES ASSUME Init PROVE RowInv
  OBVIOUS
<1>1. Cardinality(Historic) \in Nat
  BY RowAssumption, FS_CardinalityType
<1>2. Present \subseteq Historic
  BY DEF Init, Present
<1>3. PICK rank \in [Historic -> 1..Cardinality(Historic)], worked \in [Historic -> 0..1] :
          /\ \A r, s \in Historic : rank[r] = rank[s] => r = s
          /\ evidence = [r \in Row |-> [i \in Field |->
                CASE r \in Present /\ i = Updated -> rank[r]
                  [] r \in Present /\ i = Windows -> worked[r]
                  [] OTHER -> 0]]
  BY DEF Init
<1>4. \A r \in Present : /\ r \in Row /\ rank[r] \in 1..Cardinality(Historic)
                         /\ evidence[r][Updated] = rank[r]
  <2>1. Updated \in Field /\ \A r \in Present : r \in Row /\ r \in Historic
    BY <1>2 DEF Updated, Field, Present
  <2>2. ASSUME NEW r \in Present PROVE evidence[r][Updated] = rank[r]
    <3>1. evidence[r][Updated] = CASE r \in Present /\ Updated = Updated -> rank[r]
                                   [] r \in Present /\ Updated = Windows -> worked[r]
                                   [] OTHER -> 0
      BY <1>3, <2>1
    <3>2. Updated # Windows
      BY DEF Updated, Windows
    <3>3. QED
      BY <3>1, <3>2
  <2>3. QED
    BY <2>1, <2>2
<1>5. evidence \in [Row -> [Field -> Nat]]
  <2>1. \A r \in Row, i \in Field :
            (CASE r \in Present /\ i = Updated -> rank[r]
               [] r \in Present /\ i = Windows -> worked[r]
               [] OTHER -> 0) \in Nat
    BY <1>1, <1>2 DEF Updated, Windows
  <2>2. QED
    BY <1>3, <2>1
<1>6. Stamped
  <2>1. clock = Cardinality(Historic)
    BY DEF Init
  <2>2. \A r, s \in Historic : rank[r] = rank[s] => r = s
    BY <1>3
  <2>3. \A r \in Present : evidence[r][Updated] <= clock
    BY <1>1, <1>4, <2>1
  <2>4. \A r, s \in Present : evidence[r][Updated] = evidence[s][Updated] => r = s
    BY <1>2, <1>4, <2>2
  <2>5. QED
    BY <2>3, <2>4 DEF Stamped
<1>7. \A q \in Request : ~Holding(q)
  BY DEF Init, Holding
<1>8. QED
  BY <1>1, <1>5, <1>6, <1>7 DEF RowInv, RowTypes, Leads, Init

\* Pages come and go, rows stay as they are.
LEMMA PagesMove ==
    ASSUME RowInv, UNCHANGED <<status, evidence, clock>>, DOMAIN choice' = Request,
           \A q \in Request : Holding(q)' => Holding(q) /\ choice'[q] = choice[q]
    PROVE  RowInv'
  BY DEF RowInv, RowTypes, Stamped, Leads, Present, Open

\* A row that a page works in gains something.
LEMMA RowGains ==
    ASSUME RowInv, NEW r \in Present,
           \A q \in Request : Holding(q) /\ status[choice[q]] = "IN_PROGRESS"
                                /\ status[r] = "IN_PROGRESS" => choice[q] = r,
           NEW gained \in [Field -> Nat],
           status[r] = "IN_PROGRESS" => \A i \in Field : gained[i] >= evidence[r][i],
           evidence' = [evidence EXCEPT ![r] = gained],
           clock' \in Nat, clock' >= clock,
           gained[Updated] = evidence[r][Updated] \/ (clock' > clock /\ gained[Updated] = clock'),
           UNCHANGED status, choice' = choice,
           \A q \in Request : Holding(q)' => Holding(q)
    PROVE  RowInv'
<1>1. /\ r \in Row /\ Updated \in Field
      /\ evidence' \in [Row -> [Field -> Nat]] /\ evidence'[r] = gained
      /\ \A s \in Row : s # r => evidence'[s] = evidence[s]
  BY DEF RowInv, RowTypes, Present, Updated, Field
<1>2. Present' = Present /\ Open' = Open /\ Present \subseteq Row /\ Open \subseteq Present
  BY DEF Present, Open
<1>3. RowTypes'
  BY <1>1, <1>2 DEF RowInv, RowTypes
<1>4. Stamped'
  <2>1. \A s \in Present : evidence[s][Updated] \in Nat /\ evidence'[s][Updated] \in Nat
    BY <1>1, <1>2 DEF RowInv, RowTypes
  <2>2. QED
    BY <1>1, <1>2, <2>1 DEF RowInv, RowTypes, Stamped
<1>5. ASSUME NEW q \in Request, Holding(q)', status[choice[q]] = "IN_PROGRESS"
      PROVE  /\ \A s \in Open \ {choice[q]} : Before(evidence'[choice[q]], evidence'[s])
             /\ Assigned => Present = Open
  <2>1. /\ Assigned => Present = Open
        /\ \A s \in Open \ {choice[q]} : Before(evidence[choice[q]], evidence[s])
        /\ choice[q] \in Open
    BY <1>5 DEF RowInv, RowTypes, Leads, Open, Present
  <2>2. CASE choice[q] = r
    <3>1. \A s \in Open \ {r} : /\ evidence[s] \in [Field -> Nat] /\ evidence'[s] = evidence[s]
                                /\ evidence[r] \in [Field -> Nat]
      BY <1>1, <1>2 DEF RowInv, RowTypes
    <3>2. \A i \in Field : gained[i] >= evidence[r][i]
      BY <1>5, <2>2
    <3>3. QED
      BY <1>1, <2>1, <2>2, <3>1, <3>2, BeforeGrows
  <2>3. CASE choice[q] # r
    <3>1. status[r] # "IN_PROGRESS"
      BY <1>5, <2>3
    <3>2. \A s \in Open : evidence'[s] = evidence[s]
      BY <1>1, <1>2, <3>1 DEF Open
    <3>3. QED
      BY <2>1, <3>2
  <2>4. QED
    BY <2>2, <2>3
<1>6. QED
  BY <1>2, <1>3, <1>4, <1>5 DEF RowInv, Leads

\* A row inserted while the pair offers none leads by being alone.
LEMMA RowInserted ==
    ASSUME EntryInv, RowInv, Candidates = {}, NEW r \in Row, InsertRow(r),
           DOMAIN choice' = Request,
           \A q \in Request : Holding(q)' => \/ choice'[q] = r
                                             \/ Holding(q) /\ choice'[q] = choice[q]
    PROVE  RowInv'
<1>1. /\ status' = [status EXCEPT ![r] = "IN_PROGRESS"] /\ status[r] = "absent"
      /\ clock' = clock + 1 /\ clock \in Nat /\ status \in [Row -> RowStatus]
      /\ evidence' = [evidence EXCEPT ![r] = [i \in Field |-> IF i = Updated THEN clock' ELSE 0]]
  BY DEF InsertRow, RowInv, RowTypes, EntryInv, LockTypes
<1>2. Open = {} /\ (Assigned => Present = {}) /\ r \notin Present
  BY <1>1 DEF Candidates, Open, Present
<1>3. Present' = Present \cup {r} /\ Open' = {r}
  BY <1>1, <1>2 DEF Present, Open, RowStatus
<1>4. evidence' \in [Row -> [Field -> Nat]] /\ evidence'[r][Updated] = clock'
  BY <1>1 DEF RowInv, RowTypes, Updated, Field
<1>5. \A s \in Present : evidence'[s] = evidence[s] /\ evidence[s][Updated] \in Nat
  BY <1>1, <1>2 DEF RowInv, RowTypes, Present, Updated, Field
<1>6. RowTypes'
  BY <1>1, <1>3, <1>4 DEF RowInv, RowTypes
<1>7. Stamped'
  BY <1>1, <1>3, <1>4, <1>5 DEF RowInv, Stamped
<1>8. ASSUME NEW q \in Request, Holding(q)', status'[choice'[q]] = "IN_PROGRESS"
      PROVE  choice'[q] = r
  BY <1>1, <1>2, <1>3, <1>8 DEF RowInv, RowTypes, Present, Open
<1>9. QED
  BY <1>2, <1>3, <1>6, <1>7, <1>8 DEF RowInv, Leads

\* Two pages with an open row have the same one.
LEMMA LeadersAgree ==
    ASSUME RowInv, NEW p \in Request, NEW q \in Request,
           Holding(p), status[choice[p]] = "IN_PROGRESS",
           Holding(q), status[choice[q]] = "IN_PROGRESS"
    PROVE  choice[p] = choice[q]
<1>1. choice[p] \in Open /\ choice[q] \in Open
  BY DEF RowInv, RowTypes, Open, Present
<1>2. evidence[choice[p]] \in [Field -> Nat] /\ evidence[choice[q]] \in [Field -> Nat]
  BY <1>1 DEF RowInv, RowTypes, Open
<1>3. QED
  BY <1>1, <1>2, BeforeAsymmetric DEF RowInv, Leads

LEMMA RowSelect ==
    ASSUME EntryInv, RowInv, NEW q \in Request, Select(q)
    PROVE  RowInv'
<1>1. /\ UNCHANGED <<status, evidence, clock>> /\ DOMAIN pc = Request
      /\ \A p \in Request : p # q => pc'[p] = pc[p] /\ choice'[p] = choice[p]
  BY DEF Select, Decide, rowVars, EntryInv, LockTypes, RowInv, RowTypes
<1>2. Present' = Present /\ Open' = Open
  BY <1>1 DEF Present, Open
<1>3. pc'[q] \in Decision /\ DOMAIN choice' = Request
  BY <1>1 DEF Select, Decide, Decision, RowInv, RowTypes
<1>4. ASSUME Holding(q)'
      PROVE  /\ choice'[q] \in Open
             /\ \A s \in Open \ {choice'[q]} : Before(evidence[choice'[q]], evidence[s])
             /\ Assigned => Present = Open
  <2>1. pc'[q] = "resume"
    BY <1>3, <1>4 DEF Holding, Decision
  <2>2. Candidates \ Open = {} /\ choice'[q] \in MostReal(Open)
    BY <1>1, <2>1 DEF Select, Decide, RowInv, RowTypes
  <2>3. choice'[q] \in Open /\ \A s \in Open : ~Before(evidence[s], evidence[choice'[q]])
    BY <2>2 DEF MostReal, Realer, Before
  <2>4. ASSUME NEW s \in Open, s # choice'[q] PROVE Before(evidence[choice'[q]], evidence[s])
    <3>1. /\ evidence[s] \in [Field -> Nat] /\ evidence[choice'[q]] \in [Field -> Nat]
          /\ evidence[s][Updated] # evidence[choice'[q]][Updated]
      BY <2>3, <2>4 DEF RowInv, RowTypes, Stamped, Present, Open
    <3>2. QED
      BY <2>3, <3>1, BeforeTotal
  <2>5. Assigned => Present = Open
    BY <2>2 DEF Candidates, Open, Present
  <2>6. QED
    BY <2>3, <2>4, <2>5
<1>5. ASSUME NEW p \in Request PROVE Leads(p)' /\ (Holding(p)' => choice'[p] \in Present)
  <2>1. CASE p = q
    BY <1>1, <1>2, <1>4, <2>1 DEF Leads, Open, Present
  <2>2. CASE p # q
    BY <1>1, <1>2, <2>2 DEF RowInv, RowTypes, Leads, Holding
  <2>3. QED
    BY <2>1, <2>2
<1>6. QED
  BY <1>1, <1>2, <1>3, <1>5 DEF RowInv, RowTypes, Stamped

LEMMA RowSubmit ==
    ASSUME EntryInv, RowInv, NEW q \in Request, Submit(q)
    PROVE  RowInv'
<1> DEFINE r == choice[q]
<1>1. /\ r \in Present /\ r \in Row /\ status[r] = "IN_PROGRESS" /\ Holding(q)
      /\ status \in [Row -> RowStatus]
      /\ status' = [status EXCEPT ![r] = "SUBMITTED"]
      /\ evidence' = [evidence EXCEPT ![r][Updated] = clock']
      /\ clock' = clock + 1 /\ clock \in Nat /\ choice' = choice /\ Updated \in Field
      /\ evidence \in [Row -> [Field -> Nat]]
  BY DEF Submit, Tick, RowInv, RowTypes, EntryInv, LockTypes, Holding, Present, Updated, Field
<1> HIDE DEF r
<1>2. Present' = Present /\ Open' = Open \ {r} /\ Present \subseteq Row
  BY <1>1 DEF Present, Open
<1>3. /\ evidence' \in [Row -> [Field -> Nat]] /\ evidence'[r][Updated] = clock + 1
      /\ \A s \in Row : s # r => evidence'[s] = evidence[s]
  BY <1>1
<1>4. \A p \in Request : Holding(p)' => Holding(p)
  BY DEF Submit, Holding, EntryInv, LockTypes
<1>5. \A s \in Present : evidence[s][Updated] \in Nat
  BY <1>1, <1>2
<1>6. Stamped'
  BY <1>1, <1>2, <1>3, <1>5 DEF RowInv, Stamped
<1>7. ASSUME NEW p \in Request, Holding(p)', status'[choice[p]] = "IN_PROGRESS" PROVE FALSE
  <2>1. choice[p] \in Row /\ choice[p] # r /\ status[choice[p]] = "IN_PROGRESS"
    BY <1>1, <1>2, <1>4, <1>7 DEF RowInv, RowTypes
  <2>2. choice[p] = r
    BY <1>1, <1>4, <1>7, <2>1, LeadersAgree DEF r
  <2>3. QED
    BY <2>1, <2>2
<1>8. QED
  BY <1>1, <1>2, <1>3, <1>4, <1>6, <1>7 DEF RowInv, RowTypes, Leads

\* A page, or the worker, writes one field of a row and when it did.
LEMMA RowWritten ==
    ASSUME RowInv, NEW r \in Present, NEW i \in {Windows, Forensics, Runs}, NEW n \in Nat,
           status[r] = "IN_PROGRESS" => n >= evidence[r][i],
           \A q \in Request : Holding(q) /\ status[choice[q]] = "IN_PROGRESS"
                                /\ status[r] = "IN_PROGRESS" => choice[q] = r,
           evidence' = [evidence EXCEPT ![r][i] = n, ![r][Updated] = clock'],
           Tick, UNCHANGED <<status, pc, choice>>
    PROVE  RowInv'
<1> DEFINE gained == [j \in Field |-> IF j = Updated THEN clock' ELSE IF j = i THEN n ELSE evidence[r][j]]
<1>1. /\ r \in Row /\ evidence \in [Row -> [Field -> Nat]] /\ clock \in Nat /\ clock' = clock + 1
      /\ i \in Field /\ Updated \in Field /\ i # Updated /\ evidence[r][Updated] <= clock
  BY DEF RowInv, RowTypes, Stamped, Present, Tick, Windows, Forensics, Runs, Updated, Field
<1>2. gained \in [Field -> Nat] /\ gained[Updated] = clock'
  BY <1>1
<1>3. status[r] = "IN_PROGRESS" => \A j \in Field : gained[j] >= evidence[r][j]
  BY <1>1
<1>4. evidence' = [evidence EXCEPT ![r] = gained]
  <2>1. [[evidence[r] EXCEPT ![i] = n] EXCEPT ![Updated] = clock'] = gained
    BY <1>1
  <2>2. QED
    BY <1>1, <2>1
<1>5. \A q \in Request : Holding(q)' => Holding(q)
  BY DEF Holding
<1>6. /\ clock' \in Nat /\ clock' >= clock /\ clock' > clock
      /\ UNCHANGED status /\ choice' = choice
  BY <1>1
<1> HIDE DEF gained
<1>7. QED
  BY <1>1, <1>2, <1>3, <1>4, <1>5, <1>6, RowGains

LEMMA PageWrites ==
    ASSUME EntryInv, RowInv, NEW q \in Request, Flush(q) \/ Run(q) \/ Alert(q)
    PROVE  RowInv'
<1> DEFINE r == choice[q]
<1>1. /\ Holding(q) /\ r \in Present /\ r \in Row /\ evidence \in [Row -> [Field -> Nat]]
      /\ UNCHANGED <<status, pc, choice>> /\ clock \in Nat
  BY DEF Flush, Run, Alert, Holding, RowInv, RowTypes, Present
<1>2. \A p \in Request : Holding(p) /\ status[choice[p]] = "IN_PROGRESS"
                            /\ status[r] = "IN_PROGRESS" => choice[p] = r
  BY <1>1, LeadersAgree
<1>3. CASE Flush(q)
  <2> DEFINE n == evidence[r][Windows] + 1
  <2>1. Tick /\ evidence' = [evidence EXCEPT ![r][Windows] = n, ![r][Updated] = clock']
    BY <1>3 DEF Flush, Write
  <2>2. n \in Nat /\ n >= evidence[r][Windows] /\ Windows \in {Windows, Forensics, Runs}
    BY <1>1 DEF Windows, Field
  <2> HIDE DEF r, n
  <2>3. QED
    BY <1>1, <1>2, <2>1, <2>2, RowWritten
<1>4. CASE Run(q)
  <2> DEFINE n == evidence[r][Runs] + 1
  <2>1. Tick /\ evidence' = [evidence EXCEPT ![r][Runs] = n, ![r][Updated] = clock']
    BY <1>4 DEF Run, Write
  <2>2. n \in Nat /\ n >= evidence[r][Runs] /\ Runs \in {Windows, Forensics, Runs}
    BY <1>1 DEF Runs, Field
  <2> HIDE DEF r, n
  <2>3. QED
    BY <1>1, <1>2, <2>1, <2>2, RowWritten
<1>5. CASE Alert(q)
  <2> DEFINE gained == [evidence[r] EXCEPT ![Alerts] = @ + 1]
  <2>1. evidence' = [evidence EXCEPT ![r] = gained] /\ clock' = clock
    BY <1>5 DEF Alert
  <2>2. /\ gained \in [Field -> Nat] /\ \A j \in Field : gained[j] >= evidence[r][j]
        /\ gained[Updated] = evidence[r][Updated]
    BY <1>1 DEF Alerts, Updated, Field
  <2>3. \A p \in Request : Holding(p)' => Holding(p)
    BY <1>1 DEF Holding
  <2>4. clock' \in Nat /\ clock' >= clock
    BY <1>1, <2>1
  <2> HIDE DEF r, gained
  <2>5. QED
    BY <1>1, <1>2, <2>1, <2>2, <2>3, <2>4, RowGains
<1>6. QED
  BY <1>3, <1>4, <1>5

LEMMA RowScored ==
    ASSUME EntryInv, RowInv, NEW r \in Row, Score(r)
    PROVE  RowInv'
<1>1. /\ r \in Present /\ status[r] # "IN_PROGRESS" /\ Tick /\ UNCHANGED <<status, pc, choice>>
      /\ evidence' = [evidence EXCEPT ![r][Forensics] = 1, ![r][Updated] = clock']
  BY DEF Score, Present
<1>2. 1 \in Nat /\ Forensics \in {Windows, Forensics, Runs}
  OBVIOUS
<1>3. QED
  BY <1>1, <1>2, RowWritten

LEMMA RowStep == EntryInv /\ RowInv /\ [Next]_vars => RowInv'
<1> SUFFICES ASSUME EntryInv, RowInv, [Next]_vars PROVE RowInv'
  OBVIOUS
<1>1. /\ DOMAIN pc = Request /\ DOMAIN choice = Request
      /\ \A q \in Request : pc[q] = "create" => Candidates = {}
      /\ pending => Candidates = {}
  BY DEF EntryInv, LockTypes, LockConsistent, RowInv, RowTypes
<1> USE DEF rowVars, txVars
<1>2. ASSUME NEW q \in Request, Arrive(q) \/ TakeLock(q) \/ Leave(q) \/ AnswerLost(q) \/ Answer(q)
      PROVE  RowInv'
  <2>1. /\ UNCHANGED <<status, evidence, clock>> /\ choice' = choice
        /\ \A p \in Request : Holding(p)' => Holding(p)
    BY <1>1, <1>2 DEF Arrive, TakeLock, Leave, AnswerLost, Answer, Holding, Committed
  <2>2. QED
    BY <1>1, <2>1, PagesMove
<1>3. ASSUME NEW q \in Request, Break(q) PROVE RowInv'
  <2>1. /\ UNCHANGED <<status, evidence, clock>> /\ DOMAIN choice' = Request
        /\ \A p \in Request : Holding(p)' => Holding(p) /\ choice'[p] = choice[p]
    BY <1>1, <1>3 DEF Break, Holding
  <2>2. QED
    BY <2>1, PagesMove
<1>4. ASSUME NEW q \in Request, Commit(q) PROVE RowInv'
  <2>1. DOMAIN choice' = Request
    BY <1>1, <1>4 DEF Commit
  <2>2. \A p \in Request : Holding(p)' /\ p # q => Holding(p)
    BY <1>1, <1>4 DEF Commit, Holding
  <2>3. CASE pc[q] = "create"
    <3>1. PICK r \in Row : InsertRow(r) /\ choice' = [choice EXCEPT ![q] = r]
      BY <1>4, <2>3 DEF Commit
    <3>2. choice'[q] = r /\ \A p \in Request : p # q => choice'[p] = choice[p]
      BY <1>1, <3>1
    <3>3. \A p \in Request : Holding(p)' => \/ choice'[p] = r
                                            \/ Holding(p) /\ choice'[p] = choice[p]
      BY <2>2, <3>2
    <3>4. QED
      BY <1>1, <2>1, <2>3, <3>1, <3>3, RowInserted
  <2>4. CASE pc[q] # "create"
    <3>1. UNCHANGED <<status, evidence, clock>> /\ choice' = choice
      BY <1>4, <2>4 DEF Commit
    <3>2. Holding(q)' => Holding(q)
      BY <1>1, <1>4, <2>4 DEF Commit, Holding, Decision
    <3>3. \A p \in Request : Holding(p)' => Holding(p) /\ choice'[p] = choice[p]
      BY <2>2, <3>1, <3>2
    <3>4. QED
      BY <2>1, <3>1, <3>3, PagesMove
  <2>5. QED
    BY <2>3, <2>4
<1>5. CASE OrphanEnds
  <2>1. /\ choice' = choice /\ DOMAIN choice' = Request
        /\ \A p \in Request : Holding(p)' => Holding(p) /\ choice'[p] = choice[p]
    BY <1>1, <1>5 DEF OrphanEnds, Holding
  <2>2. CASE pending /\ \E r \in Row : InsertRow(r)
    <3>1. PICK r \in Row : InsertRow(r)
      BY <2>2
    <3>2. QED
      BY <1>1, <2>1, <2>2, <3>1, RowInserted
  <2>3. CASE UNCHANGED rowVars
    BY <2>1, <2>3, PagesMove
  <2>4. QED
    BY <1>5, <2>2, <2>3 DEF OrphanEnds
<1>6. CASE Restart
  <2>1. /\ UNCHANGED <<status, evidence, clock>> /\ choice' = choice /\ DOMAIN choice' = Request
        /\ \A p \in Request : Holding(p)' => Holding(p)
    BY <1>1, <1>6 DEF Restart, Holding
  <2>2. QED
    BY <2>1, PagesMove
<1>7. CASE UNCHANGED vars
  <2>1. /\ UNCHANGED <<status, evidence, clock>> /\ choice' = choice /\ DOMAIN choice' = Request
        /\ \A p \in Request : Holding(p)' => Holding(p)
    BY <1>1, <1>7 DEF vars, Holding
  <2>2. QED
    BY <2>1, PagesMove
<1>8. QED
  BY <1>2, <1>3, <1>4, <1>5, <1>6, <1>7, RowSelect, RowSubmit, PageWrites, RowScored
  DEF Next, Handler

\* All editors of a student write to one open row, whatever duplicates the pair
\* has and whenever the pages resumed it.
THEOREM OneEditedRow == Spec => []EditorsShareRow
<1>1. RowInv => EditorsShareRow
  BY LeadersAgree DEF EditorsShareRow, Holding
<1>2. QED
  BY <1>1, EntryInit, EntryStep, RowInit, RowStep, PTL DEF Spec

\* Nobody edits an empty open row while another open row holds recorded work.
THEOREM RecordedWorkIsResumed == Spec => []WorkIsResumed
<1>1. RowInv => WorkIsResumed
  <2> SUFFICES ASSUME RowInv, NEW q \in Request, pc[q] = "editing", status[choice[q]] = "IN_PROGRESS",
                      NEW r \in Open, evidence[r][Windows] > 0
               PROVE  evidence[choice[q]][Windows] > 0
    BY DEF WorkIsResumed
  <2>1. CASE r # choice[q]
    <3>1. Before(evidence[choice[q]], evidence[r])
      BY <2>1 DEF RowInv, Leads, Holding
    <3>2. evidence[choice[q]] \in [Field -> Nat] /\ evidence[r] \in [Field -> Nat]
      BY DEF RowInv, RowTypes, Holding, Present, Open
    <3>3. QED
      BY <3>1, <3>2 DEF Before, Field, Windows
  <2>2. QED
    BY <2>1
<1>2. QED
  BY <1>1, EntryInit, EntryStep, RowInit, RowStep, PTL DEF Spec

\* With an assignment, nobody edits an open row of a pair that has a submitted
\* one.
THEOREM OneAttempt == Spec => []NoSecondAttempt
<1>1. RowInv => NoSecondAttempt
  BY DEF RowInv, Leads, NoSecondAttempt, Holding
<1>2. QED
  BY <1>1, EntryInit, EntryStep, RowInit, RowStep, PTL DEF Spec

\* With an assignment, the row a student works in is never one that the
\* instructor's lists hide.
THEOREM EditedIsShown == ASSUME Assigned PROVE Spec => []EditedRowIsShown
<1>1. RowInv => EditedRowIsShown
  <2> SUFFICES ASSUME RowInv, NEW q \in Request, pc[q] = "editing", DeletablePhantom(choice[q])
               PROVE  FALSE
    BY DEF EditedRowIsShown
  <2>1. /\ status[choice[q]] = "IN_PROGRESS" /\ evidence[choice[q]][Windows] = 0
        /\ Holding(q) /\ Present = Open
    BY DEF DeletablePhantom, IsPhantom, Holding, RowInv, Leads
  <2>2. PICK r \in Row \ {choice[q]} : IsReal(r)
    BY DEF DeletablePhantom
  <2>3. r \in Open /\ evidence[r][Windows] > 0
    BY <2>1, <2>2 DEF IsReal, Present, Open
  <2>4. Before(evidence[choice[q]], evidence[r])
    BY <2>1, <2>2, <2>3 DEF RowInv, Leads
  <2>5. evidence[choice[q]] \in [Field -> Nat] /\ evidence[r] \in [Field -> Nat]
    BY <2>1, <2>3 DEF RowInv, RowTypes, Present, Open
  <2>6. QED
    BY <2>1, <2>3, <2>4, <2>5 DEF Before, Field, Windows
<1>2. QED
  BY <1>1, EntryInit, EntryStep, RowInit, RowStep, PTL DEF Spec
=============================================================================
