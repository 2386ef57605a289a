----------------------------- MODULE MCStartup -----------------------------
(***************************************************************************)
(* Instances of Startup: installations of earlier versions, each started   *)
(* again and again while devices pair, push and pull and users are         *)
(* deleted; and a new one that is started in every way and configured.     *)
(***************************************************************************)
EXTENDS Startup, TLC

CONSTANTS u1, u2, a, b, c, v1, o1, o2, o3, s1, p1, p2, root, admin, w1, w2

Owns(u, d) == [user |-> u, device |-> d]
OldRow(user) == [NoRow EXCEPT !.key = "plain", !.user = user]
OldOp(id, seq, d) == [id |-> id, seq |-> seq, device |-> d,
                      user |-> NoUser, vault |-> NoVault]

NewDb == [layout |-> [t \in Tables |-> "absent"], users |-> {},
          devices |-> [d \in Devices |-> NoRow], owners |-> {}, ops |-> {},
          rev |-> 0, tombs |-> {}, cached |-> {}, tokens |-> {}]

\* Two devices, of which b's row has no user; each has pushed an operation.
OldDb(rowA, owners) ==
    [layout |-> [t \in Tables |-> "old"], users |-> {u1, u2},
     devices |-> [d \in Devices |-> CASE d = a -> rowA
                                      [] d = b -> OldRow(NoUser)
                                      [] d = c -> NoRow],
     owners |-> owners, ops |-> {OldOp(o1, 1, a), OldOp(o2, 2, b)}, rev |-> 2,
     tombs |-> {[op |-> o2, user |-> NoUser, vault |-> NoVault]},
     cached |-> {[user |-> NoUser, vault |-> NoVault]},
     tokens |-> {[secret |-> s1, user |-> u1, hashed |-> FALSE]}]

SoleOwners == OldDb(OldRow(NoUser), {Owns(u1, a), Owns(u1, b)})
TwoOwners == OldDb(OldRow(NoUser), {Owns(u1, a), Owns(u1, b), Owns(u2, b)})
\* A version that knew the column, and had no tokens yet.
KnownOwner == [OldDb(OldRow(u1), {Owns(u2, b)}) EXCEPT
                  !.tokens = {}, !.layout["tokens"] = "absent"]
\* The first version: no column user_id, no cached answers.
FirstDb == [OldDb(OldRow(NoUser), {Owns(u1, a)}) EXCEPT
               !.cached = {}, !.layout["cached"] = "absent",
               !.layout["devices"] = "oldest"]
AllDbs == {NewDb, SoleOwners, TwoOwners, KnownOwner, FirstDb}

\* Ways to start.
Compose == [NoFlags EXCEPT !.url = w1, !.require = TRUE]
Starts == {NoFlags,
           [NoFlags EXCEPT !.user = root, !.password = p1],
           [NoFlags EXCEPT !.user = admin, !.password = p2, !.init = TRUE],
           [Compose EXCEPT !.bootstrap = p1],
           [Compose EXCEPT !.bootstrap = p2],
           Compose}
Forms == [url : {NoUrl, w2}, register : BOOLEAN]

\* Configured by hand, or not at all.
ByHand == [kind |-> "whole", admin |-> NoAccounts, url |-> w2, register |-> "false"]

OldSites == {[db |-> t, file |-> Absent, starts |-> {NoFlags}, forms |-> {}] :
                t \in AllDbs \ {NewDb}}
NewSites == {[db |-> NewDb, file |-> f, starts |-> Starts, forms |-> Forms] :
                f \in {Absent, ByHand}}
AllSites == OldSites \cup NewSites
ConsoleSites == {x \in NewSites : x.file = Absent}
=============================================================================
