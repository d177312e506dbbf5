---------------------------- MODULE MCBodyReader ----------------------------
(* Five calls, two of them on one request.                                   *)
EXTENDS BodyReader, TLC

CONSTANTS r1, r2, r3, r4, r5, q1, q2, q3

MCRequestOf == r1 :> q1 @@ r2 :> q1 @@ r3 :> q2 @@ r4 :> q3 @@ r5 :> q3

\* Two configs, the last one seen wins, and a call without a config.
MCLimitOf == r1 :> 2 @@ r2 :> 0 @@ r3 :> 1 @@ r4 :> 1 @@ r5 :> 2

\* On one request the first call wants more than the second, on another they want the
\* same.
MCMaxBytesOf == r1 :> 2 @@ r2 :> 1 @@ r3 :> 1 @@ r4 :> 1 @@ r5 :> 1
=============================================================================
