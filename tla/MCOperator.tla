----------------------------- MODULE MCOperator -----------------------------
(* Operator for TLC: the .cfg gives the deployment type and the URLs as    *)
(* model values.                                                          *)
EXTENDS Operator

\* Two URLs that answer and one that does not, so that an edit can keep the
\* condition or flip it; the assets list the first.
MCReachable == {"u1", "u3"}
MCUrls == {"u1", "u2", "u3"}
MCInitialUrls == {"u1"}
=============================================================================
