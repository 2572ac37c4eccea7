----------------------------- MODULE MCThreading -----------------------------
(* Instances of Threading for TLC: a conversation of three messages, the    *)
(* second an answer to the first under another subject, the third by         *)
(* subject only and late enough to need the second's date.                   *)
EXTENDS Threading, TLC

CONSTANTS m1, m2, m3

Subjects3 == (m1 :> "hello" @@ m2 :> "news" @@ m3 :> "hello")
Senders3 == (m1 :> "ann" @@ m2 :> "bob" @@ m3 :> "ann")
Answers3 == (m1 :> {} @@ m2 :> {m1} @@ m3 :> {})
Sent3 == (m1 :> 1 @@ m2 :> 3 @@ m3 :> 5)
=============================================================================
