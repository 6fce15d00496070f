----------------------------- MODULE MCTgUpload -----------------------------
(* TgUpload for two voice messages, two pictures and a big file.           *)
EXTENDS TgUpload, TLC
CONSTANTS v1, v2, p1, p2, f1
SendSrc   == [s \in Send |-> CASE s \in {v1, v2} -> "voice"
                               [] s \in {p1, p2} -> "photo"
                               [] OTHER -> "file"]
SendParts == [s \in Send |-> IF s \in {v2, p1, p2} THEN 1 ELSE 2]
=============================================================================
