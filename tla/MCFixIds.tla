------------------------------- MODULE MCFixIds -------------------------------
(***************************************************************************)
(* The image's xk6 user and group, another account with both as its group, *)
(* root, and an id nobody has.  Files: the user's own, walked and not,     *)
(* root's with the group xk6, xk6's with the group root, one from the host *)
(* with the unknown uid.                                                   *)
(***************************************************************************)
EXTENDS FixIds

MCIds == 0..3
MCUsers == {"root", "xk6", "other"}
MCGroups == {"root", "xk6", "other"}
MCPasswd == [u \in MCUsers |-> CASE u = "root" -> [uid |-> 0, gid |-> 0]
                                 [] u = "xk6" -> [uid |-> 1, gid |-> 1]
                                 [] OTHER -> [uid |-> 2, gid |-> 1]]
MCEtc == [g \in MCGroups |-> CASE g = "root" -> [gid |-> 0, members |-> {"root"}]
                               [] g = "xk6" -> [gid |-> 1, members |-> {}]
                               [] OTHER -> [gid |-> 2, members |-> {"xk6"}]]
MCFiles == {"mine", "mount", "root", "mixed", "host"}
MCWalked == MCFiles \ {"mount"}
MCOwner == [f \in MCFiles |-> CASE f \in {"mine", "mount"} -> [uid |-> 1, gid |-> 1]
                                [] f = "root" -> [uid |-> 0, gid |-> 1]
                                [] f = "mixed" -> [uid |-> 1, gid |-> 0]
                                [] OTHER -> [uid |-> 3, gid |-> 1]]
==============================================================================
