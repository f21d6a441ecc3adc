------------------------------ MODULE MCAccess ------------------------------
(* TLC instances of Access: aliases that become known to be one person's,  *)
(* ids that two platforms share, group admins, and a limited sender.       *)
EXTENDS Access, TLC

CONSTANTS t1, t2

WA(id) == [platform |-> "whatsapp", id |-> id]
TG(id) == [platform |-> "telegram", id |-> id]
DC(id) == [platform |-> "discord", id |-> id]

OwnerPn == WA("op")   OwnerLid == WA("ol")   BobPn == WA("bp")   BobLid == WA("bl")
Cid     == TG("x")    Dee   == DC("x")    Eve    == TG("y")
Fay     == WA("fp")

People == {OwnerPn, OwnerLid, BobPn, BobLid, Cid, Dee, Eve, Fay}

PersonOf == (OwnerPn :> "ann") @@ (OwnerLid :> "ann") @@ (BobPn :> "bob") @@ (BobLid :> "bob") @@ (Cid :> "cid") @@ (Dee :> "dee") @@ (Eve :> "eve") @@ (Fay :> "fay")

LidSet == {BobLid, OwnerLid}
OwnerSet == {OwnerPn, Cid}

RoomOf(p, id, group) == [platform |-> p, id |-> id, group |-> group]
Group == RoomOf("whatsapp", "g", TRUE)
Other == RoomOf("whatsapp", "h", TRUE)
Tele  == RoomOf("telegram", "r", TRUE)
Chat  == RoomOf("telegram", "c", FALSE)
Guild == RoomOf("discord", "r", TRUE)
RoomSet == {Group, Other, Tele, Chat, Guild}

Says(via, pn, room, entry, op) == [via |-> via, pn |-> pn, room |-> room, entry |-> entry, op |-> op]
Assign(tool, target, role, scope) == [tool |-> tool, target |-> target, role |-> role, scope |-> scope]
Do(tool) == Assign(tool, None, None, None)

Quiet == [r \in RoomSet |-> {}]
Row(user, scope, role) == [user |-> user, scope |-> scope, role |-> role]

Linking ==
  [connects |-> FALSE, turns |-> {t1, t2}, most |-> 3, limited |-> FALSE, promoted |-> {}, rows |-> {}, natives |-> Quiet,
   messages |-> {Says(OwnerPn, OwnerPn, Group, "slash", Assign("grant", BobPn, "admin", "global")),
                 Says(OwnerPn, OwnerPn, Group, "slash", Assign("revoke", BobLid, "admin", "global")),
                 Says(BobLid, None, Other, "slash", Do("config")),
                 Says(BobLid, BobPn, Other, "model", Do("config")),
                 Says(BobPn, BobPn, Other, "slash", Do("language"))}]

Sharing ==
  [connects |-> TRUE, turns |-> {t1, t2}, most |-> 3, limited |-> FALSE, promoted |-> {}, rows |-> {Row(Dee, "r", "premium")}, natives |-> [Quiet EXCEPT ![Guild] = {}],
   messages |-> {Says(Cid, None, Tele, "slash", Assign("grant", Cid, "admin", "here")),
                 Says(Cid, None, Tele, "model", Assign("revoke", Cid, "admin", "here")),
                 Says(Dee, None, Guild, "slash", Do("config")), Says(Dee, None, Guild, "model", Do("language")),
                 Says(Eve, None, Chat, "model", Do("language"))}]

Admins ==
  [connects |-> FALSE, turns |-> {t1, t2}, most |-> 2, limited |-> FALSE, promoted |-> {BobLid}, rows |-> {Row(Fay, "g", "admin")}, natives |-> [Quiet EXCEPT ![Group] = {BobLid}],
   messages |-> {Says(BobLid, None, Group, "slash", Do("config")), Says(BobPn, BobPn, Group, "slash", Do("language")),
                 Says(BobLid, BobPn, Group, "model", Assign("grant", Fay, "premium", "global")),
                 Says(BobLid, BobPn, Group, "slash", Assign("grant", Fay, "user", "here")),
                 Says(BobLid, BobPn, Other, "model", Assign("grant", Fay, "premium", "here"))}]

Flood ==
  [connects |-> FALSE, turns |-> {t1}, most |-> 5, limited |-> TRUE, promoted |-> {}, rows |-> {Row(Eve, "r", "premium")}, natives |-> Quiet,
   messages |-> {Says(Eve, None, Tele, "slash", Do("chat")), Says(Eve, None, Chat, "slash", Do("chat"))}]

Cast == {Linking, Sharing, Admins, Flood}

Privileges == [r \in {"user", "premium", "admin", "owner"} |->
  CASE r = "user" -> [max |-> 1, window |-> 2] [] r \in {"premium", "admin"} -> [max |-> 2, window |-> 2] [] r = "owner" -> [max |-> -1, window |-> 2]]

Symmetry == Permutations(Turns)
=============================================================================
