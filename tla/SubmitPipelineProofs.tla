------------------------ MODULE SubmitPipelineProofs ------------------------
(***************************************************************************)
(* Proofs about SubmitPipeline, for every set of pages, keystrokes and     *)
(* requests, every number of attempts and every number of faults.          *)
(*                                                                         *)
(* The argument: Inductive holds initially and every step preserves it,    *)
(* one lemma per part and one step per action; the safety properties       *)
(* follow from it.  The two facts that make it inductive are that a page   *)
(* posts its submit only once the flush it awaits has settled              *)
(* (PagesConsistent), and that the flip seals the length of playback_log,  *)
(* below which every later read of the worker and every verdict stays      *)
(* (FlipConsistent, JobsConsistent).                                       *)
(***************************************************************************)
EXTENDS SubmitPipeline, TLAPS

\* Types are kept, and a request still at work keeps an attempt in hand.
LEMMA TypeStep ==
    ASSUME TypeOK, TriesLeft, PagesConsistent, [Next]_vars
    PROVE  (TypeOK /\ TriesLeft)'
<1> USE NoneAssumption, AttemptsAssumption, FaultsAssumption DEF clientVars,
        postVars, subVars, rowVars, queueVars, PageState, Banner, IngestState,
        ClientView, SubmitState, TypeOK, TriesLeft, PagesConsistent
<1>1. ASSUME NEW p \in Page, Open(p) PROVE (TypeOK /\ TriesLeft)'
  BY <1>1 DEF Open
<1>2. ASSUME NEW p \in Page, Close(p) PROVE (TypeOK /\ TriesLeft)'
  BY <1>2 DEF Close
<1>3. ASSUME NEW p \in Page, ClickSubmitEmpty(p) PROVE (TypeOK /\ TriesLeft)'
  BY <1>3 DEF ClickSubmitEmpty, SendSubmit
<1>4. ASSUME NEW p \in Page, Disarm(p) PROVE (TypeOK /\ TriesLeft)'
  BY <1>4 DEF Disarm, SendSubmit
<1>5. ASSUME NEW p \in Page, SubmitAnswer(p) PROVE (TypeOK /\ TriesLeft)'
  BY <1>5 DEF SubmitAnswer
<1>6. ASSUME NEW p \in Page, SubmitBreaks(p) PROVE (TypeOK /\ TriesLeft)'
  BY <1>6 DEF SubmitBreaks
<1>7. ASSUME NEW p \in Page, NEW k \in Key, Type(p, k) PROVE (TypeOK /\ TriesLeft)'
  BY <1>7 DEF Type, Armed
<1>8. ASSUME NEW p \in Page, NEW f \in Post, IntervalFlush(p, f) PROVE (TypeOK /\ TriesLeft)'
  BY <1>8 DEF IntervalFlush, Drain, Armed
<1>9. ASSUME NEW p \in Page, NEW f \in Post, ClickSubmit(p, f) PROVE (TypeOK /\ TriesLeft)'
  BY <1>9 DEF ClickSubmit, Drain
<1>10. ASSUME NEW f \in Post, FlushAnswer(f) PROVE (TypeOK /\ TriesLeft)'
  BY <1>10 DEF FlushAnswer
<1>11. ASSUME NEW f \in Post, FlushBreaks(f) PROVE (TypeOK /\ TriesLeft)'
  BY <1>11 DEF FlushBreaks
<1>12. ASSUME NEW f \in Post, IngestLost(f) PROVE (TypeOK /\ TriesLeft)'
  BY <1>12 DEF IngestLost
<1>13. ASSUME NEW f \in Post, IngestAppends(f) PROVE (TypeOK /\ TriesLeft)'
  BY <1>13 DEF IngestAppends, AppendWindow
<1>14. ASSUME NEW f \in Post, IngestAckLost(f) PROVE (TypeOK /\ TriesLeft)'
  BY <1>14 DEF IngestAckLost, AppendWindow, IngestRetry, Fault
<1>15. ASSUME NEW f \in Post, IngestFails(f) PROVE (TypeOK /\ TriesLeft)'
  BY <1>15 DEF IngestFails, IngestRetry, Fault
<1>16. ASSUME NEW f \in Post, IngestThrows(f) PROVE (TypeOK /\ TriesLeft)'
  BY <1>16 DEF IngestThrows, Fault
<1>17. ASSUME NEW p \in Page, SubmitLost(p) PROVE (TypeOK /\ TriesLeft)'
  BY <1>17 DEF SubmitLost
<1>18. ASSUME NEW p \in Page, SubmitCheck(p) PROVE (TypeOK /\ TriesLeft)'
  BY <1>18 DEF SubmitCheck
<1>19. ASSUME NEW p \in Page, SubmitFails(p) PROVE (TypeOK /\ TriesLeft)'
  BY <1>19 DEF SubmitFails, Fault
<1>20. ASSUME NEW p \in Page, SubmitFlips(p) PROVE (TypeOK /\ TriesLeft)'
  BY <1>20 DEF SubmitFlips, FlipStatus
<1>21. ASSUME NEW p \in Page, SubmitMatchesNoRow(p) PROVE (TypeOK /\ TriesLeft)'
  BY <1>21 DEF SubmitMatchesNoRow
<1>22. ASSUME NEW p \in Page, SubmitFlipAckLost(p) PROVE (TypeOK /\ TriesLeft)'
  BY <1>22 DEF SubmitFlipAckLost, FlipStatus, SubmitRetry, Fault
<1>23. ASSUME NEW p \in Page, SubmitFlipFails(p) PROVE (TypeOK /\ TriesLeft)'
  BY <1>23 DEF SubmitFlipFails, SubmitRetry, Fault
<1>24. ASSUME NEW p \in Page, SubmitEnqueues(p) PROVE (TypeOK /\ TriesLeft)'
  BY <1>24 DEF SubmitEnqueues, AddJob
<1>25. ASSUME NEW p \in Page, SubmitEnqueueFails(p) PROVE (TypeOK /\ TriesLeft)'
  BY <1>25 DEF SubmitEnqueueFails, AddJob, Fault
<1>26. CASE WorkerReads
  BY <1>26 DEF WorkerReads
<1>27. CASE WorkerStores
  BY <1>27 DEF WorkerStores, StoreVerdict
<1>28. CASE WorkerFails
  <2>1. judged' \in BOOLEAN /\ verdict' \in Nat
    BY <1>28 DEF WorkerFails, StoreVerdict
  <2>2. faults' \in 0..MaxFaults
    BY <1>28 DEF WorkerFails, Fault
  <2>3. QED
    BY <1>28, <2>1, <2>2 DEF WorkerFails
<1>29. CASE WindowMoves
  BY <1>29 DEF WindowMoves
<1>30. CASE Restart
  <2>1. worker' \in {"idle", "running"} /\ stalls' \in Nat /\ waiting' \in Nat
    BY <1>30 DEF Restart, RequeueStalled
  <2>2. jobFailed' \in BOOLEAN
    BY <1>30 DEF Restart, RequeueStalled
  <2>3. TypeOK'
    BY <1>30, <2>1, <2>2 DEF Restart, Fault
  <2>4. TriesLeft'
    BY <1>30 DEF Restart
  <2>5. QED
    BY <2>3, <2>4
<1>31. CASE UNCHANGED vars
  BY <1>31 DEF vars
<1>32. QED
    BY <1>1, <1>2, <1>3, <1>4, <1>5, <1>6, <1>7, <1>8, <1>9, <1>10, <1>11,
     <1>12, <1>13, <1>14, <1>15, <1>16, <1>17, <1>18, <1>19, <1>20, <1>21,
     <1>22, <1>23, <1>24, <1>25, <1>26, <1>27, <1>28, <1>29, <1>30, <1>31 DEF
     Next, PageStep, SubmitStep, IngestStep, WorkerStep

\* Used requests stay used, and an accepted window stays in the log.
LEMMA PostsStep ==
    ASSUME TypeOK, TypeOK', PostsConsistent, [Next]_vars
    PROVE  PostsConsistent'
<1> USE DEF clientVars, postVars, subVars, rowVars, queueVars, PageState,
        Banner, IngestState, ClientView, SubmitState, TypeOK, PostsConsistent,
        InLog
<1>1. ASSUME NEW p \in Page, Open(p) PROVE PostsConsistent'
  BY <1>1 DEF Open
<1>2. ASSUME NEW p \in Page, Close(p) PROVE PostsConsistent'
  BY <1>2 DEF Close
<1>3. ASSUME NEW p \in Page, ClickSubmitEmpty(p) PROVE PostsConsistent'
  BY <1>3 DEF ClickSubmitEmpty, SendSubmit
<1>4. ASSUME NEW p \in Page, Disarm(p) PROVE PostsConsistent'
  BY <1>4 DEF Disarm, SendSubmit
<1>5. ASSUME NEW p \in Page, SubmitAnswer(p) PROVE PostsConsistent'
  BY <1>5 DEF SubmitAnswer
<1>6. ASSUME NEW p \in Page, SubmitBreaks(p) PROVE PostsConsistent'
  BY <1>6 DEF SubmitBreaks
<1>7. ASSUME NEW p \in Page, NEW k \in Key, Type(p, k) PROVE PostsConsistent'
  BY <1>7 DEF Type, Armed
<1>8. ASSUME NEW p \in Page, NEW f \in Post, IntervalFlush(p, f) PROVE PostsConsistent'
  BY <1>8 DEF IntervalFlush, Drain, Armed
<1>9. ASSUME NEW p \in Page, NEW f \in Post, ClickSubmit(p, f) PROVE PostsConsistent'
  BY <1>9 DEF ClickSubmit, Drain
<1>10. ASSUME NEW f \in Post, FlushAnswer(f) PROVE PostsConsistent'
  BY <1>10 DEF FlushAnswer
<1>11. ASSUME NEW f \in Post, FlushBreaks(f) PROVE PostsConsistent'
  BY <1>11 DEF FlushBreaks
<1>12. ASSUME NEW f \in Post, IngestLost(f) PROVE PostsConsistent'
  BY <1>12 DEF IngestLost
<1>13. ASSUME NEW f \in Post, IngestAppends(f) PROVE PostsConsistent'
  BY <1>13 DEF IngestAppends, AppendWindow
<1>14. ASSUME NEW f \in Post, IngestAckLost(f) PROVE PostsConsistent'
  BY <1>14 DEF IngestAckLost, AppendWindow, IngestRetry, Fault
<1>15. ASSUME NEW f \in Post, IngestFails(f) PROVE PostsConsistent'
  BY <1>15 DEF IngestFails, IngestRetry, Fault
<1>16. ASSUME NEW f \in Post, IngestThrows(f) PROVE PostsConsistent'
  BY <1>16 DEF IngestThrows, Fault
<1>17. ASSUME NEW p \in Page, SubmitLost(p) PROVE PostsConsistent'
  BY <1>17 DEF SubmitLost
<1>18. ASSUME NEW p \in Page, SubmitCheck(p) PROVE PostsConsistent'
  BY <1>18 DEF SubmitCheck
<1>19. ASSUME NEW p \in Page, SubmitFails(p) PROVE PostsConsistent'
  BY <1>19 DEF SubmitFails, Fault
<1>20. ASSUME NEW p \in Page, SubmitFlips(p) PROVE PostsConsistent'
  BY <1>20 DEF SubmitFlips, FlipStatus
<1>21. ASSUME NEW p \in Page, SubmitMatchesNoRow(p) PROVE PostsConsistent'
  BY <1>21 DEF SubmitMatchesNoRow
<1>22. ASSUME NEW p \in Page, SubmitFlipAckLost(p) PROVE PostsConsistent'
  BY <1>22 DEF SubmitFlipAckLost, FlipStatus, SubmitRetry, Fault
<1>23. ASSUME NEW p \in Page, SubmitFlipFails(p) PROVE PostsConsistent'
  BY <1>23 DEF SubmitFlipFails, SubmitRetry, Fault
<1>24. ASSUME NEW p \in Page, SubmitEnqueues(p) PROVE PostsConsistent'
  BY <1>24 DEF SubmitEnqueues, AddJob
<1>25. ASSUME NEW p \in Page, SubmitEnqueueFails(p) PROVE PostsConsistent'
  BY <1>25 DEF SubmitEnqueueFails, AddJob, Fault
<1>26. CASE WorkerReads
  BY <1>26 DEF WorkerReads
<1>27. CASE WorkerStores
  BY <1>27 DEF WorkerStores, StoreVerdict
<1>28. CASE WorkerFails
  BY <1>28 DEF WorkerFails, StoreVerdict, Fault
<1>29. CASE WindowMoves
  BY <1>29 DEF WindowMoves
<1>30. CASE Restart
  BY <1>30 DEF Restart, Fault, RequeueStalled
<1>31. CASE UNCHANGED vars
  BY <1>31 DEF vars
<1>32. QED
    BY <1>1, <1>2, <1>3, <1>4, <1>5, <1>6, <1>7, <1>8, <1>9, <1>10, <1>11,
     <1>12, <1>13, <1>14, <1>15, <1>16, <1>17, <1>18, <1>19, <1>20, <1>21,
     <1>22, <1>23, <1>24, <1>25, <1>26, <1>27, <1>28, <1>29, <1>30, <1>31 DEF
     Next, PageStep, SubmitStep, IngestStep, WorkerStep

\* No page posts its submit while the flush it awaits is open.
LEMMA PagesStep ==
    ASSUME TypeOK, TypeOK', PostsConsistent, PagesConsistent, [Next]_vars
    PROVE  PagesConsistent'
<1> USE NoneAssumption DEF clientVars, postVars, subVars, rowVars, queueVars,
        PageState, Banner, IngestState, ClientView, SubmitState, TypeOK,
        PostsConsistent, PagesConsistent
<1>1. ASSUME NEW p \in Page, Open(p) PROVE PagesConsistent'
  BY <1>1 DEF Open
<1>2. ASSUME NEW p \in Page, Close(p) PROVE PagesConsistent'
  BY <1>2 DEF Close
<1>3. ASSUME NEW p \in Page, ClickSubmitEmpty(p) PROVE PagesConsistent'
  BY <1>3 DEF ClickSubmitEmpty, SendSubmit
<1>4. ASSUME NEW p \in Page, Disarm(p) PROVE PagesConsistent'
  BY <1>4 DEF Disarm, SendSubmit
<1>5. ASSUME NEW p \in Page, SubmitAnswer(p) PROVE PagesConsistent'
  BY <1>5 DEF SubmitAnswer
<1>6. ASSUME NEW p \in Page, SubmitBreaks(p) PROVE PagesConsistent'
  BY <1>6 DEF SubmitBreaks
<1>7. ASSUME NEW p \in Page, NEW k \in Key, Type(p, k) PROVE PagesConsistent'
  BY <1>7 DEF Type, Armed
<1>8. ASSUME NEW p \in Page, NEW f \in Post, IntervalFlush(p, f) PROVE PagesConsistent'
  BY <1>8 DEF IntervalFlush, Drain, Armed
<1>9. ASSUME NEW p \in Page, NEW f \in Post, ClickSubmit(p, f) PROVE PagesConsistent'
  BY <1>9 DEF ClickSubmit, Drain
<1>10. ASSUME NEW f \in Post, FlushAnswer(f) PROVE PagesConsistent'
  BY <1>10 DEF FlushAnswer
<1>11. ASSUME NEW f \in Post, FlushBreaks(f) PROVE PagesConsistent'
  BY <1>11 DEF FlushBreaks
<1>12. ASSUME NEW f \in Post, IngestLost(f) PROVE PagesConsistent'
  BY <1>12 DEF IngestLost
<1>13. ASSUME NEW f \in Post, IngestAppends(f) PROVE PagesConsistent'
  BY <1>13 DEF IngestAppends, AppendWindow
<1>14. ASSUME NEW f \in Post, IngestAckLost(f) PROVE PagesConsistent'
  BY <1>14 DEF IngestAckLost, AppendWindow, IngestRetry, Fault
<1>15. ASSUME NEW f \in Post, IngestFails(f) PROVE PagesConsistent'
  BY <1>15 DEF IngestFails, IngestRetry, Fault
<1>16. ASSUME NEW f \in Post, IngestThrows(f) PROVE PagesConsistent'
  BY <1>16 DEF IngestThrows, Fault
<1>17. ASSUME NEW p \in Page, SubmitLost(p) PROVE PagesConsistent'
  BY <1>17 DEF SubmitLost
<1>18. ASSUME NEW p \in Page, SubmitCheck(p) PROVE PagesConsistent'
  BY <1>18 DEF SubmitCheck
<1>19. ASSUME NEW p \in Page, SubmitFails(p) PROVE PagesConsistent'
  BY <1>19 DEF SubmitFails, Fault
<1>20. ASSUME NEW p \in Page, SubmitFlips(p) PROVE PagesConsistent'
  BY <1>20 DEF SubmitFlips, FlipStatus
<1>21. ASSUME NEW p \in Page, SubmitMatchesNoRow(p) PROVE PagesConsistent'
  BY <1>21 DEF SubmitMatchesNoRow
<1>22. ASSUME NEW p \in Page, SubmitFlipAckLost(p) PROVE PagesConsistent'
  BY <1>22 DEF SubmitFlipAckLost, FlipStatus, SubmitRetry, Fault
<1>23. ASSUME NEW p \in Page, SubmitFlipFails(p) PROVE PagesConsistent'
  BY <1>23 DEF SubmitFlipFails, SubmitRetry, Fault
<1>24. ASSUME NEW p \in Page, SubmitEnqueues(p) PROVE PagesConsistent'
  BY <1>24 DEF SubmitEnqueues, AddJob
<1>25. ASSUME NEW p \in Page, SubmitEnqueueFails(p) PROVE PagesConsistent'
  BY <1>25 DEF SubmitEnqueueFails, AddJob, Fault
<1>26. CASE WorkerReads
  BY <1>26 DEF WorkerReads
<1>27. CASE WorkerStores
  BY <1>27 DEF WorkerStores, StoreVerdict
<1>28. CASE WorkerFails
  BY <1>28 DEF WorkerFails, StoreVerdict, Fault
<1>29. CASE WindowMoves
  BY <1>29 DEF WindowMoves
<1>30. CASE Restart
  BY <1>30 DEF Restart, Fault, RequeueStalled
<1>31. CASE UNCHANGED vars
  BY <1>31 DEF vars
<1>32. QED
    BY <1>1, <1>2, <1>3, <1>4, <1>5, <1>6, <1>7, <1>8, <1>9, <1>10, <1>11,
     <1>12, <1>13, <1>14, <1>15, <1>16, <1>17, <1>18, <1>19, <1>20, <1>21,
     <1>22, <1>23, <1>24, <1>25, <1>26, <1>27, <1>28, <1>29, <1>30, <1>31 DEF
     Next, PageStep, SubmitStep, IngestStep, WorkerStep

\* The flip happens once, and the submitter's acknowledged final flush lies
\* below the length it seals.
LEMMA FlipStep ==
    ASSUME Inductive, TypeOK', [Next]_vars
    PROVE  FlipConsistent'
<1> USE NoneAssumption DEF clientVars, postVars, subVars, rowVars, queueVars,
        PageState, Banner, IngestState, ClientView, SubmitState, Inductive,
        TypeOK, PostsConsistent, PagesConsistent, FlipConsistent,
        FinalFlushWithin, InLog
<1>1. ASSUME NEW p \in Page, Open(p) PROVE FlipConsistent'
  BY <1>1 DEF Open
<1>2. ASSUME NEW p \in Page, Close(p) PROVE FlipConsistent'
  BY <1>2 DEF Close
<1>3. ASSUME NEW p \in Page, ClickSubmitEmpty(p) PROVE FlipConsistent'
  BY <1>3 DEF ClickSubmitEmpty, SendSubmit
<1>4. ASSUME NEW p \in Page, Disarm(p) PROVE FlipConsistent'
  BY <1>4 DEF Disarm, SendSubmit
<1>5. ASSUME NEW p \in Page, SubmitAnswer(p) PROVE FlipConsistent'
  BY <1>5 DEF SubmitAnswer
<1>6. ASSUME NEW p \in Page, SubmitBreaks(p) PROVE FlipConsistent'
  BY <1>6 DEF SubmitBreaks
<1>7. ASSUME NEW p \in Page, NEW k \in Key, Type(p, k) PROVE FlipConsistent'
  BY <1>7 DEF Type, Armed
<1>8. ASSUME NEW p \in Page, NEW f \in Post, IntervalFlush(p, f) PROVE FlipConsistent'
  BY <1>8 DEF IntervalFlush, Drain, Armed
<1>9. ASSUME NEW p \in Page, NEW f \in Post, ClickSubmit(p, f) PROVE FlipConsistent'
  BY <1>9 DEF ClickSubmit, Drain
<1>10. ASSUME NEW f \in Post, FlushAnswer(f) PROVE FlipConsistent'
  BY <1>10 DEF FlushAnswer
<1>11. ASSUME NEW f \in Post, FlushBreaks(f) PROVE FlipConsistent'
  BY <1>11 DEF FlushBreaks
<1>12. ASSUME NEW f \in Post, IngestLost(f) PROVE FlipConsistent'
  BY <1>12 DEF IngestLost
<1>13. ASSUME NEW f \in Post, IngestAppends(f) PROVE FlipConsistent'
  BY <1>13 DEF IngestAppends, AppendWindow
<1>14. ASSUME NEW f \in Post, IngestAckLost(f) PROVE FlipConsistent'
  BY <1>14 DEF IngestAckLost, AppendWindow, IngestRetry, Fault
<1>15. ASSUME NEW f \in Post, IngestFails(f) PROVE FlipConsistent'
  BY <1>15 DEF IngestFails, IngestRetry, Fault
<1>16. ASSUME NEW f \in Post, IngestThrows(f) PROVE FlipConsistent'
  BY <1>16 DEF IngestThrows, Fault
<1>17. ASSUME NEW p \in Page, SubmitLost(p) PROVE FlipConsistent'
  BY <1>17 DEF SubmitLost
<1>18. ASSUME NEW p \in Page, SubmitCheck(p) PROVE FlipConsistent'
  BY <1>18 DEF SubmitCheck
<1>19. ASSUME NEW p \in Page, SubmitFails(p) PROVE FlipConsistent'
  BY <1>19 DEF SubmitFails, Fault
<1>20. ASSUME NEW p \in Page, SubmitFlips(p) PROVE FlipConsistent'
  BY <1>20 DEF SubmitFlips, FlipStatus
<1>21. ASSUME NEW p \in Page, SubmitMatchesNoRow(p) PROVE FlipConsistent'
  BY <1>21 DEF SubmitMatchesNoRow
<1>22. ASSUME NEW p \in Page, SubmitFlipAckLost(p) PROVE FlipConsistent'
  BY <1>22 DEF SubmitFlipAckLost, FlipStatus, SubmitRetry, Fault
<1>23. ASSUME NEW p \in Page, SubmitFlipFails(p) PROVE FlipConsistent'
  BY <1>23 DEF SubmitFlipFails, SubmitRetry, Fault
<1>24. ASSUME NEW p \in Page, SubmitEnqueues(p) PROVE FlipConsistent'
  BY <1>24 DEF SubmitEnqueues, AddJob
<1>25. ASSUME NEW p \in Page, SubmitEnqueueFails(p) PROVE FlipConsistent'
  BY <1>25 DEF SubmitEnqueueFails, AddJob, Fault
<1>26. CASE WorkerReads
  BY <1>26 DEF WorkerReads
<1>27. CASE WorkerStores
  BY <1>27 DEF WorkerStores, StoreVerdict
<1>28. CASE WorkerFails
  BY <1>28 DEF WorkerFails, StoreVerdict, Fault
<1>29. CASE WindowMoves
  BY <1>29 DEF WindowMoves
<1>30. CASE Restart
  BY <1>30 DEF Restart, Fault, RequeueStalled
<1>31. CASE UNCHANGED vars
  BY <1>31 DEF vars
<1>32. QED
    BY <1>1, <1>2, <1>3, <1>4, <1>5, <1>6, <1>7, <1>8, <1>9, <1>10, <1>11,
     <1>12, <1>13, <1>14, <1>15, <1>16, <1>17, <1>18, <1>19, <1>20, <1>21,
     <1>22, <1>23, <1>24, <1>25, <1>26, <1>27, <1>28, <1>29, <1>30, <1>31 DEF
     Next, PageStep, SubmitStep, IngestStep, WorkerStep

\* One job at a time, reading at least what the flip sealed.
LEMMA JobsStep ==
    ASSUME TypeOK, TypeOK', FlipConsistent, JobsConsistent, [Next]_vars
    PROVE  JobsConsistent'
<1> USE DEF clientVars, postVars, subVars, rowVars, queueVars, PageState,
        Banner, IngestState, ClientView, SubmitState, TypeOK, FlipConsistent,
        JobsConsistent
<1>1. ASSUME NEW p \in Page, Open(p) PROVE JobsConsistent'
  BY <1>1 DEF Open
<1>2. ASSUME NEW p \in Page, Close(p) PROVE JobsConsistent'
  BY <1>2 DEF Close
<1>3. ASSUME NEW p \in Page, ClickSubmitEmpty(p) PROVE JobsConsistent'
  BY <1>3 DEF ClickSubmitEmpty, SendSubmit
<1>4. ASSUME NEW p \in Page, Disarm(p) PROVE JobsConsistent'
  BY <1>4 DEF Disarm, SendSubmit
<1>5. ASSUME NEW p \in Page, SubmitAnswer(p) PROVE JobsConsistent'
  BY <1>5 DEF SubmitAnswer
<1>6. ASSUME NEW p \in Page, SubmitBreaks(p) PROVE JobsConsistent'
  BY <1>6 DEF SubmitBreaks
<1>7. ASSUME NEW p \in Page, NEW k \in Key, Type(p, k) PROVE JobsConsistent'
  BY <1>7 DEF Type, Armed
<1>8. ASSUME NEW p \in Page, NEW f \in Post, IntervalFlush(p, f) PROVE JobsConsistent'
  BY <1>8 DEF IntervalFlush, Drain, Armed
<1>9. ASSUME NEW p \in Page, NEW f \in Post, ClickSubmit(p, f) PROVE JobsConsistent'
  BY <1>9 DEF ClickSubmit, Drain
<1>10. ASSUME NEW f \in Post, FlushAnswer(f) PROVE JobsConsistent'
  BY <1>10 DEF FlushAnswer
<1>11. ASSUME NEW f \in Post, FlushBreaks(f) PROVE JobsConsistent'
  BY <1>11 DEF FlushBreaks
<1>12. ASSUME NEW f \in Post, IngestLost(f) PROVE JobsConsistent'
  BY <1>12 DEF IngestLost
<1>13. ASSUME NEW f \in Post, IngestAppends(f) PROVE JobsConsistent'
  BY <1>13 DEF IngestAppends, AppendWindow
<1>14. ASSUME NEW f \in Post, IngestAckLost(f) PROVE JobsConsistent'
  BY <1>14 DEF IngestAckLost, AppendWindow, IngestRetry, Fault
<1>15. ASSUME NEW f \in Post, IngestFails(f) PROVE JobsConsistent'
  BY <1>15 DEF IngestFails, IngestRetry, Fault
<1>16. ASSUME NEW f \in Post, IngestThrows(f) PROVE JobsConsistent'
  BY <1>16 DEF IngestThrows, Fault
<1>17. ASSUME NEW p \in Page, SubmitLost(p) PROVE JobsConsistent'
  BY <1>17 DEF SubmitLost
<1>18. ASSUME NEW p \in Page, SubmitCheck(p) PROVE JobsConsistent'
  BY <1>18 DEF SubmitCheck
<1>19. ASSUME NEW p \in Page, SubmitFails(p) PROVE JobsConsistent'
  BY <1>19 DEF SubmitFails, Fault
<1>20. ASSUME NEW p \in Page, SubmitFlips(p) PROVE JobsConsistent'
  BY <1>20 DEF SubmitFlips, FlipStatus
<1>21. ASSUME NEW p \in Page, SubmitMatchesNoRow(p) PROVE JobsConsistent'
  BY <1>21 DEF SubmitMatchesNoRow
<1>22. ASSUME NEW p \in Page, SubmitFlipAckLost(p) PROVE JobsConsistent'
  BY <1>22 DEF SubmitFlipAckLost, FlipStatus, SubmitRetry, Fault
<1>23. ASSUME NEW p \in Page, SubmitFlipFails(p) PROVE JobsConsistent'
  BY <1>23 DEF SubmitFlipFails, SubmitRetry, Fault
<1>24. ASSUME NEW p \in Page, SubmitEnqueues(p) PROVE JobsConsistent'
  BY <1>24 DEF SubmitEnqueues, AddJob
<1>25. ASSUME NEW p \in Page, SubmitEnqueueFails(p) PROVE JobsConsistent'
  <2>1. CASE AddJob(p)
    BY <1>25, <2>1 DEF SubmitEnqueueFails, AddJob
  <2>2. CASE UNCHANGED queueVars
    BY <1>25, <2>2 DEF SubmitEnqueueFails
  <2>3. QED
    BY <1>25, <2>1, <2>2 DEF SubmitEnqueueFails
<1>26. CASE WorkerReads
  BY <1>26 DEF WorkerReads
<1>27. CASE WorkerStores
  BY <1>27 DEF WorkerStores, StoreVerdict
<1>28. CASE WorkerFails
  BY <1>28 DEF WorkerFails, StoreVerdict, Fault
<1>29. CASE WindowMoves
  BY <1>29 DEF WindowMoves
<1>30. CASE Restart
  <2>1. CASE worker = "running"
    <3>1. waiting = 0 /\ enqueuedBy # {} /\ worker' = "idle" /\ waiting' \in {0, 1}
      BY <1>30, <2>1 DEF Restart, RequeueStalled
    <3>2. UNCHANGED <<log, read, judged, verdict, enqueuedBy, sealedLen>>
      BY <1>30 DEF Restart
    <3>3. QED
      BY <3>1, <3>2
  <2>2. CASE worker # "running"
    BY <1>30, <2>2 DEF Restart, RequeueStalled
  <2>3. QED
    BY <2>1, <2>2
<1>31. CASE UNCHANGED vars
  BY <1>31 DEF vars
<1>32. QED
    BY <1>1, <1>2, <1>3, <1>4, <1>5, <1>6, <1>7, <1>8, <1>9, <1>10, <1>11,
     <1>12, <1>13, <1>14, <1>15, <1>16, <1>17, <1>18, <1>19, <1>20, <1>21,
     <1>22, <1>23, <1>24, <1>25, <1>26, <1>27, <1>28, <1>29, <1>30, <1>31 DEF
     Next, PageStep, SubmitStep, IngestStep, WorkerStep

\* A keystroke enters one buffer, and leaves it for one request body.
LEMMA DrainStep ==
    ASSUME TypeOK, PostsConsistent, EachKeystrokeDrainedOnce, [Next]_vars
    PROVE  EachKeystrokeDrainedOnce'
<1> USE DEF clientVars, postVars, subVars, rowVars, queueVars, TypeOK,
        PostsConsistent, EachKeystrokeDrainedOnce
<1>1. ASSUME NEW p \in Page, Open(p) PROVE EachKeystrokeDrainedOnce'
  BY <1>1 DEF Open
<1>2. ASSUME NEW p \in Page, Close(p) PROVE EachKeystrokeDrainedOnce'
  BY <1>2 DEF Close
<1>3. ASSUME NEW p \in Page, ClickSubmitEmpty(p) PROVE EachKeystrokeDrainedOnce'
  BY <1>3 DEF ClickSubmitEmpty, SendSubmit
<1>4. ASSUME NEW p \in Page, Disarm(p) PROVE EachKeystrokeDrainedOnce'
  BY <1>4 DEF Disarm, SendSubmit
<1>5. ASSUME NEW p \in Page, SubmitAnswer(p) PROVE EachKeystrokeDrainedOnce'
  BY <1>5 DEF SubmitAnswer
<1>6. ASSUME NEW p \in Page, SubmitBreaks(p) PROVE EachKeystrokeDrainedOnce'
  BY <1>6 DEF SubmitBreaks
<1>7. ASSUME NEW p \in Page, NEW k \in Key, Type(p, k) PROVE EachKeystrokeDrainedOnce'
  <2>1. \A j \in Key : j \in typed' <=> \/ \E q \in Page : j \in buffer'[q]
                                        \/ \E f \in Post : j \in body'[f]
    BY <1>7 DEF Type, Armed
  <2>2. \A q \in Page, f \in Post : buffer'[q] \cap body'[f] = {}
    BY <1>7 DEF Type, Armed
  <2>3. \A q, r \in Page : q # r => buffer'[q] \cap buffer'[r] = {}
    BY <1>7 DEF Type, Armed
  <2>4. UNCHANGED body
    BY <1>7 DEF Type
  <2>5. QED
    BY <2>1, <2>2, <2>3, <2>4
<1>8. ASSUME NEW p \in Page, NEW f \in Post, IntervalFlush(p, f) PROVE EachKeystrokeDrainedOnce'
  BY <1>8 DEF IntervalFlush, Drain, Armed
<1>9. ASSUME NEW p \in Page, NEW f \in Post, ClickSubmit(p, f) PROVE EachKeystrokeDrainedOnce'
  BY <1>9 DEF ClickSubmit, Drain
<1>10. ASSUME NEW f \in Post, FlushAnswer(f) PROVE EachKeystrokeDrainedOnce'
  BY <1>10 DEF FlushAnswer
<1>11. ASSUME NEW f \in Post, FlushBreaks(f) PROVE EachKeystrokeDrainedOnce'
  BY <1>11 DEF FlushBreaks
<1>12. ASSUME NEW f \in Post, IngestLost(f) PROVE EachKeystrokeDrainedOnce'
  BY <1>12 DEF IngestLost
<1>13. ASSUME NEW f \in Post, IngestAppends(f) PROVE EachKeystrokeDrainedOnce'
  BY <1>13 DEF IngestAppends, AppendWindow
<1>14. ASSUME NEW f \in Post, IngestAckLost(f) PROVE EachKeystrokeDrainedOnce'
  BY <1>14 DEF IngestAckLost, AppendWindow, IngestRetry, Fault
<1>15. ASSUME NEW f \in Post, IngestFails(f) PROVE EachKeystrokeDrainedOnce'
  BY <1>15 DEF IngestFails, IngestRetry, Fault
<1>16. ASSUME NEW f \in Post, IngestThrows(f) PROVE EachKeystrokeDrainedOnce'
  BY <1>16 DEF IngestThrows, Fault
<1>17. ASSUME NEW p \in Page, SubmitLost(p) PROVE EachKeystrokeDrainedOnce'
  BY <1>17 DEF SubmitLost
<1>18. ASSUME NEW p \in Page, SubmitCheck(p) PROVE EachKeystrokeDrainedOnce'
  BY <1>18 DEF SubmitCheck
<1>19. ASSUME NEW p \in Page, SubmitFails(p) PROVE EachKeystrokeDrainedOnce'
  BY <1>19 DEF SubmitFails, Fault
<1>20. ASSUME NEW p \in Page, SubmitFlips(p) PROVE EachKeystrokeDrainedOnce'
  BY <1>20 DEF SubmitFlips, FlipStatus
<1>21. ASSUME NEW p \in Page, SubmitMatchesNoRow(p) PROVE EachKeystrokeDrainedOnce'
  BY <1>21 DEF SubmitMatchesNoRow
<1>22. ASSUME NEW p \in Page, SubmitFlipAckLost(p) PROVE EachKeystrokeDrainedOnce'
  BY <1>22 DEF SubmitFlipAckLost, FlipStatus, SubmitRetry, Fault
<1>23. ASSUME NEW p \in Page, SubmitFlipFails(p) PROVE EachKeystrokeDrainedOnce'
  BY <1>23 DEF SubmitFlipFails, SubmitRetry, Fault
<1>24. ASSUME NEW p \in Page, SubmitEnqueues(p) PROVE EachKeystrokeDrainedOnce'
  BY <1>24 DEF SubmitEnqueues, AddJob
<1>25. ASSUME NEW p \in Page, SubmitEnqueueFails(p) PROVE EachKeystrokeDrainedOnce'
  BY <1>25 DEF SubmitEnqueueFails, AddJob, Fault
<1>26. CASE WorkerReads
  BY <1>26 DEF WorkerReads
<1>27. CASE WorkerStores
  BY <1>27 DEF WorkerStores, StoreVerdict
<1>28. CASE WorkerFails
  BY <1>28 DEF WorkerFails, StoreVerdict, Fault
<1>29. CASE WindowMoves
  BY <1>29 DEF WindowMoves
<1>30. CASE Restart
  BY <1>30 DEF Restart, Fault, RequeueStalled
<1>31. CASE UNCHANGED vars
  BY <1>31 DEF vars
<1>32. QED
    BY <1>1, <1>2, <1>3, <1>4, <1>5, <1>6, <1>7, <1>8, <1>9, <1>10, <1>11,
     <1>12, <1>13, <1>14, <1>15, <1>16, <1>17, <1>18, <1>19, <1>20, <1>21,
     <1>22, <1>23, <1>24, <1>25, <1>26, <1>27, <1>28, <1>29, <1>30, <1>31 DEF
     Next, PageStep, SubmitStep, IngestStep, WorkerStep

LEMMA InductiveInit == Init => Inductive
<1> SUFFICES ASSUME Init PROVE Inductive
  OBVIOUS
<1> USE NoneAssumption, AttemptsAssumption, FaultsAssumption DEF Init
<1>1. TypeOK /\ TriesLeft
  <2>1. log \in Seq(Post)
    OBVIOUS
  <2>2. /\ MaxAttempts \in Nat /\ 0 \in 0..MaxAttempts /\ 0 \in 0..MaxFaults
        /\ 0 < MaxAttempts
    OBVIOUS
  <2>3. TypeOK
    BY <2>1, <2>2
    DEF TypeOK, PageState, Banner, IngestState, ClientView, SubmitState
  <2>4. QED
    BY <2>2, <2>3 DEF TriesLeft
<1>2. PostsConsistent /\ PagesConsistent
  BY DEF PostsConsistent, PagesConsistent
<1>3. FlipConsistent /\ JobsConsistent
  BY DEF FlipConsistent, JobsConsistent
<1>4. QED
  BY <1>1, <1>2, <1>3 DEF Inductive

LEMMA InductiveStep == Inductive /\ [Next]_vars => Inductive'
<1> SUFFICES ASSUME Inductive, [Next]_vars PROVE Inductive'
  OBVIOUS
<1> USE DEF Inductive
<1>1. TypeOK' /\ TriesLeft'
  BY TypeStep
<1>2. PostsConsistent' /\ PagesConsistent'
  BY <1>1, PostsStep, PagesStep
<1>3. FlipConsistent' /\ JobsConsistent'
  BY <1>1, FlipStep, JobsStep
<1>4. QED
  BY <1>1, <1>2, <1>3

\* The inductive invariant holds of every behaviour of the pipeline.
THEOREM InductiveInvariant == Spec => []Inductive
  BY InductiveInit, InductiveStep, PTL DEF Spec

\* Every variable keeps its type.
THEOREM TypeCorrect == Spec => []TypeOK
<1>1. Inductive => TypeOK
  BY DEF Inductive
<1>2. QED
  BY <1>1, InductiveInvariant, PTL

\* A flush whose page heard 202 is in playback_log.
THEOREM AcceptedRecorded == Spec => []AcceptedIsRecorded
<1>1. Inductive => AcceptedIsRecorded
  BY DEF Inductive, PostsConsistent, AcceptedIsRecorded, InLog
<1>2. QED
  BY <1>1, InductiveInvariant, PTL

\* However many pages submit and however often the UPDATE is retried, one
\* request adds the job, and two jobs are never outstanding together.
THEOREM OneJob == Spec => []OneJobPerSubmission
<1>1. Inductive => OneJobPerSubmission
  BY DEF Inductive, TypeOK, FlipConsistent, JobsConsistent, OneJobPerSubmission
<1>2. QED
  BY <1>1, InductiveInvariant, PTL

\* The verdict was computed from the submitting page's acknowledged final flush.
THEOREM VerdictSeesFinalFlush == Spec => []VerdictReadsFinalFlush
<1>1. Inductive => VerdictReadsFinalFlush
  <2> SUFFICES ASSUME Inductive, judged, NEW p \in enqueuedBy,
                      awaits[p] # None, heard[awaits[p]] = "acked"
               PROVE  \E i \in 1..verdict : log[i] = awaits[p]
    BY DEF VerdictReadsFinalFlush
  <2>1. p \in Page /\ flippedBy = p /\ sealedLen \in Nat /\ verdict \in Nat
    BY DEF Inductive, TypeOK, FlipConsistent
  <2>2. \E i \in 1..sealedLen : log[i] = awaits[p]
    BY <2>1 DEF Inductive, FlipConsistent, FinalFlushWithin, InLog
  <2>3. sealedLen <= verdict
    BY DEF Inductive, JobsConsistent
  <2>4. QED
    BY <2>1, <2>2, <2>3
<1>2. QED
  BY <1>1, InductiveInvariant, PTL

\* Every keystroke is in exactly one buffer or one request body.
THEOREM DrainedOnce == Spec => []EachKeystrokeDrainedOnce
<1>1. Init => EachKeystrokeDrainedOnce
  BY DEF Init, EachKeystrokeDrainedOnce
<1>2. Inductive /\ EachKeystrokeDrainedOnce /\ [Next]_vars => EachKeystrokeDrainedOnce'
  BY DrainStep DEF Inductive
<1>3. QED
  BY <1>1, <1>2, InductiveInvariant, PTL DEF Spec

-----------------------------------------------------------------------------
(* SubmitPipeline implements EvidenceRecord.                               *)

RecordView == <<KeysUpTo(Len(log)), status = "SUBMITTED", KeysUpTo(sealedLen),
                judged, KeysUpTo(verdict)>>

\* Appending the window of a used request adds its keystrokes to the record,
\* and to nothing that was read or sealed before.
LEMMA AppendKeys ==
    ASSUME Inductive, NEW f \in Post, AppendWindow(f),
           UNCHANGED <<body, judged, verdict>>
    PROVE  Record!Record(body[f])
<1> USE DEF Inductive, TypeOK, FlipConsistent, JobsConsistent, AppendWindow, KeysUpTo
<1>1. KeysUpTo(Len(log))' = KeysUpTo(Len(log)) \cup body[f]
  <2>1. Len(log') = Len(log) + 1 /\ log'[Len(log) + 1] = f
    OBVIOUS
  <2>2. \A i \in 1..Len(log) : log'[i] = log[i]
    OBVIOUS
  <2>3. \A k \in Key : (\E i \in 1..Len(log') : k \in body'[log'[i]])
                         <=> \/ \E i \in 1..Len(log) : k \in body[log[i]]
                             \/ k \in body[f]
    BY <2>1, <2>2
  <2>4. body[f] \subseteq Key
    OBVIOUS
  <2>5. QED
    BY <2>3, <2>4
<1>2. KeysUpTo(sealedLen)' = KeysUpTo(sealedLen)
  OBVIOUS
<1>3. KeysUpTo(verdict)' = KeysUpTo(verdict)
  OBVIOUS
<1>4. QED
  BY <1>1, <1>2, <1>3 DEF Record!Record

\* The flip seals what is recorded.
LEMMA FlipKeys ==
    ASSUME Inductive, NEW p \in Page, FlipStatus(p), UNCHANGED <<body, judged, verdict>>
    PROVE  Record!Submit
  BY DEF FlipStatus, KeysUpTo, Record!Submit

\* Storing the results of a running job judges what the job read.
LEMMA StoreKeys ==
    ASSUME Inductive, worker = "running", StoreVerdict,
           UNCHANGED <<body, log, status, sealedLen>>
    PROVE  Record!Judge(KeysUpTo(read))
<1> USE DEF Inductive, TypeOK, FlipConsistent, JobsConsistent, StoreVerdict, KeysUpTo
<1>1. status = "SUBMITTED"
  OBVIOUS
<1>2. /\ KeysUpTo(sealedLen) \subseteq KeysUpTo(read)
      /\ KeysUpTo(verdict) \subseteq KeysUpTo(read)
      /\ KeysUpTo(read) \subseteq KeysUpTo(Len(log))
  OBVIOUS
<1>3. /\ UNCHANGED <<KeysUpTo(Len(log)), KeysUpTo(sealedLen)>>
      /\ KeysUpTo(verdict)' = KeysUpTo(read)
  OBVIOUS
<1>4. QED
  BY <1>1, <1>2, <1>3 DEF Record!Judge

\* Draining a buffer into an unused request leaves the record alone.
LEMMA DrainKeys ==
    ASSUME Inductive, NEW p \in Page, NEW f \in Post, Drain(p, f),
           UNCHANGED <<log, status, sealedLen, judged, verdict>>
    PROVE  UNCHANGED RecordView
<1>1. \A i \in 1..Len(log) : body'[log[i]] = body[log[i]]
  BY DEF Inductive, TypeOK, PostsConsistent, Drain
<1>2. Len(log) \in Nat /\ sealedLen \in 0..Len(log) /\ verdict \in 0..Len(log)
  BY DEF Inductive, TypeOK, FlipConsistent, JobsConsistent
<1>3. \A n \in 0..Len(log) :
        \A k \in Key : (\E i \in 1..n : k \in body'[log[i]])
                         <=> (\E i \in 1..n : k \in body[log[i]])
  BY <1>1, <1>2
<1>4. UNCHANGED <<KeysUpTo(Len(log)), KeysUpTo(sealedLen), KeysUpTo(verdict)>>
  BY <1>2, <1>3 DEF KeysUpTo
<1>5. QED
  BY <1>4 DEF RecordView

\* Everything else leaves what the record is made of alone.
LEMMA QuietKeys ==
    ASSUME UNCHANGED <<body, log, status, sealedLen, judged, verdict>>
    PROVE  UNCHANGED RecordView
  BY DEF RecordView, KeysUpTo

\* Every step of the pipeline is a step of the record, or leaves it alone.
LEMMA RecordStep ==
    ASSUME Inductive, [Next]_vars
    PROVE  [Record!Next]_(Record!vars)
<1> USE DEF clientVars, postVars, subVars, rowVars, queueVars
<1> DEFINE Simulated == [Record!Next]_(Record!vars)
<1>a. UNCHANGED RecordView => Simulated
  BY DEF RecordView, Record!vars
<1>b. \A S \in SUBSET Key : Record!Record(S) \/ Record!Judge(S) => Simulated
  BY DEF Record!Next
<1>c. Record!Submit => Simulated
  BY DEF Record!Next
<1>d. KeysUpTo(read) \in SUBSET Key
  BY DEF KeysUpTo
<1>e. body \in [Post -> SUBSET Key]
  BY DEF Inductive, TypeOK
<1> HIDE DEF Simulated
<1> SUFFICES Simulated
  BY DEF Simulated
<1>1. ASSUME NEW p \in Page, Open(p) PROVE Simulated
  BY <1>1, QuietKeys, <1>a DEF Open
<1>2. ASSUME NEW p \in Page, Close(p) PROVE Simulated
  BY <1>2, QuietKeys, <1>a DEF Close
<1>3. ASSUME NEW p \in Page, ClickSubmitEmpty(p) PROVE Simulated
  BY <1>3, QuietKeys, <1>a DEF ClickSubmitEmpty, SendSubmit
<1>4. ASSUME NEW p \in Page, Disarm(p) PROVE Simulated
  BY <1>4, QuietKeys, <1>a DEF Disarm, SendSubmit
<1>5. ASSUME NEW p \in Page, SubmitAnswer(p) PROVE Simulated
  BY <1>5, QuietKeys, <1>a DEF SubmitAnswer
<1>6. ASSUME NEW p \in Page, SubmitBreaks(p) PROVE Simulated
  BY <1>6, QuietKeys, <1>a DEF SubmitBreaks
<1>7. ASSUME NEW p \in Page, NEW k \in Key, Type(p, k) PROVE Simulated
  BY <1>7, QuietKeys, <1>a DEF Type, Armed
<1>8. ASSUME NEW p \in Page, NEW f \in Post, IntervalFlush(p, f) PROVE Simulated
  BY <1>8, DrainKeys, <1>a DEF IntervalFlush
<1>9. ASSUME NEW p \in Page, NEW f \in Post, ClickSubmit(p, f) PROVE Simulated
  BY <1>9, DrainKeys, <1>a DEF ClickSubmit
<1>10. ASSUME NEW f \in Post, FlushAnswer(f) PROVE Simulated
  BY <1>10, QuietKeys, <1>a DEF FlushAnswer
<1>11. ASSUME NEW f \in Post, FlushBreaks(f) PROVE Simulated
  BY <1>11, QuietKeys, <1>a DEF FlushBreaks
<1>12. ASSUME NEW f \in Post, IngestLost(f) PROVE Simulated
  BY <1>12, QuietKeys, <1>a DEF IngestLost
<1>13. ASSUME NEW f \in Post, IngestAppends(f) PROVE Simulated
  <2>1. Record!Record(body[f])
    BY <1>13, AppendKeys DEF IngestAppends
  <2>2. QED
    BY <2>1, <1>b, <1>e
<1>14. ASSUME NEW f \in Post, IngestAckLost(f) PROVE Simulated
  <2>1. Record!Record(body[f])
    BY <1>14, AppendKeys DEF IngestAckLost, IngestRetry
  <2>2. QED
    BY <2>1, <1>b, <1>e
<1>15. ASSUME NEW f \in Post, IngestFails(f) PROVE Simulated
  BY <1>15, QuietKeys, <1>a DEF IngestFails, IngestRetry, Fault
<1>16. ASSUME NEW f \in Post, IngestThrows(f) PROVE Simulated
  BY <1>16, QuietKeys, <1>a DEF IngestThrows, Fault
<1>17. ASSUME NEW p \in Page, SubmitLost(p) PROVE Simulated
  BY <1>17, QuietKeys, <1>a DEF SubmitLost
<1>18. ASSUME NEW p \in Page, SubmitCheck(p) PROVE Simulated
  BY <1>18, QuietKeys, <1>a DEF SubmitCheck
<1>19. ASSUME NEW p \in Page, SubmitFails(p) PROVE Simulated
  BY <1>19, QuietKeys, <1>a DEF SubmitFails, Fault
<1>20. ASSUME NEW p \in Page, SubmitFlips(p) PROVE Simulated
  BY <1>20, FlipKeys, <1>c DEF SubmitFlips
<1>21. ASSUME NEW p \in Page, SubmitMatchesNoRow(p) PROVE Simulated
  BY <1>21, QuietKeys, <1>a DEF SubmitMatchesNoRow
<1>22. ASSUME NEW p \in Page, SubmitFlipAckLost(p) PROVE Simulated
  BY <1>22, FlipKeys, <1>c DEF SubmitFlipAckLost, SubmitRetry
<1>23. ASSUME NEW p \in Page, SubmitFlipFails(p) PROVE Simulated
  BY <1>23, QuietKeys, <1>a DEF SubmitFlipFails, SubmitRetry, Fault
<1>24. ASSUME NEW p \in Page, SubmitEnqueues(p) PROVE Simulated
  BY <1>24, QuietKeys, <1>a DEF SubmitEnqueues, AddJob
<1>25. ASSUME NEW p \in Page, SubmitEnqueueFails(p) PROVE Simulated
  BY <1>25, QuietKeys, <1>a DEF SubmitEnqueueFails, AddJob, Fault
<1>26. CASE WorkerReads
  BY <1>26, QuietKeys, <1>a DEF WorkerReads
<1>27. CASE WorkerStores
  BY <1>27, StoreKeys, <1>b, <1>d DEF WorkerStores
<1>28. CASE WorkerFails
  <2>1. CASE StoreVerdict
    BY <1>28, <2>1, StoreKeys, <1>b, <1>d DEF WorkerFails
  <2>2. CASE UNCHANGED <<judged, verdict>>
    BY <1>28, <2>2, QuietKeys, <1>a DEF WorkerFails
  <2>3. QED
    BY <1>28, <2>1, <2>2 DEF WorkerFails
<1>29. CASE WindowMoves
  BY <1>29, QuietKeys, <1>a DEF WindowMoves
<1>30. CASE Restart
  BY <1>30, QuietKeys, <1>a DEF Restart, Fault, RequeueStalled
<1>31. CASE UNCHANGED vars
  BY <1>31, QuietKeys, <1>a DEF vars
<1>32. QED
    BY <1>1, <1>2, <1>3, <1>4, <1>5, <1>6, <1>7, <1>8, <1>9, <1>10, <1>11,
     <1>12, <1>13, <1>14, <1>15, <1>16, <1>17, <1>18, <1>19, <1>20, <1>21,
     <1>22, <1>23, <1>24, <1>25, <1>26, <1>27, <1>28, <1>29, <1>30, <1>31 DEF
     Next, PageStep, SubmitStep, IngestStep, WorkerStep

LEMMA RecordInit == Init => Record!Init
  BY DEF Init, KeysUpTo, Record!Init

\* The pipeline keeps the promise of EvidenceRecord: one submission, a verdict
\* only after it, covering at least what was recorded at that moment, made only
\* of recorded keystrokes, and never shrinking when a job runs again.
THEOREM RecordPromise == Spec => KeepsRecordPromise
  BY RecordInit, RecordStep, InductiveInvariant, PTL
  DEF Spec, KeepsRecordPromise, Record!Spec
=============================================================================
