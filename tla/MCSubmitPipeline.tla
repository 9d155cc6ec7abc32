-------------------------- MODULE MCSubmitPipeline --------------------------
(***************************************************************************)
(* Small instances of SubmitPipeline.  MaxAttempts is 2 rather than the    *)
(* code's 3: one retry that succeeds and one that gives up.                *)
(***************************************************************************)
EXTENDS SubmitPipeline, TLC

\* Pages, keystrokes and requests are interchangeable (safety runs only).
Symmetric == Permutations(Page) \cup Permutations(Key) \cup Permutations(Post)
=============================================================================
