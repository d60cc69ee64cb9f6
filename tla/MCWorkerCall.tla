----------------------------- MODULE MCWorkerCall -----------------------------
(* A value a setter stores that is no default, and one thermal command of    *)
(* each kind, with a row the worker does not know.                           *)
EXTENDS WorkerCall

MCValues == {50}
MCTunes == {<<1, 0, 3>>, <<2, 1, 1>>, <<3, 0, 1>>, <<4, 0, 1>>, <<4, 1, 5>>,
            <<5, 0, 1>>}
=============================================================================
