------------------------------ MODULE MCPending -----------------------------
(* TLC instances of what waits for a later message or time, each played by *)
(* itself: flows (each with its faults, two started in one turn while the  *)
(* job prunes, sessions of an earlier version) and reminders.              *)
EXTENDS Flows, Scheduler

Chat  == "dm"
Group == "group"

P1 == [kind |-> "pdf", pages |-> <<1, 2, 3>>]
P2 == [kind |-> "pdf", pages |-> <<4>>]
Bad == [kind |-> "pdf", pages |-> <<>>]
Img == [kind |-> "image", pages |-> <<9>>]

Says(r, text) == [room |-> r, text |-> text, files |-> <<>>, calls |-> <<>>]
Shows(r, files) == [room |-> r, text |-> "word", files |-> files, calls |-> <<>>]
Asks(r, files, actions) == [room |-> r, text |-> "word", files |-> files, calls |-> [i \in 1..Len(actions) |-> [action |-> actions[i]]]]
Wants(r, files, call) == [room |-> r, text |-> "word", files |-> files, calls |-> <<call>>]

NoRows == [k \in Keys |-> None]
Scene(messages, most, jobs, restarts, faults) ==
  [messages |-> messages, most |-> most, jobs |-> jobs, restarts |-> restarts, faults |-> faults, rows |-> NoRows, registered |-> Flow]

Confirming == Scene({Asks(Chat, <<>>, <<"menfess">>), Says(Chat, "yes"), Says(Chat, "/cancel"), Says(Chat, "/other")}, 3, 1, 1, 1)

Collecting ==
  Scene({Asks(Group, <<P1>>, <<"merge">>), Asks(Group, <<P1, Bad>>, <<"merge">>), Shows(Group, <<P2>>), Shows(Group, <<P1>>), Shows(Group, <<Img>>),
         Says(Group, "done")}, 4, 1, 1, 0)

Drawing == Scene({Asks(Group, <<>>, <<"img_to_pdf">>), Shows(Group, <<Img>>), Says(Group, "done"), Asks(Group, <<Img>>, <<"img_to_pdf">>)}, 4, 0, 0, 1)

Mixed == Scene({Asks(Chat, <<>>, <<"merge", "menfess">>), Says(Chat, "yes"), Says(Chat, "word"), Shows(Chat, <<P2>>)}, 3, 1, 1, 0)

Trio == Scene({Asks(Chat, <<>>, <<"merge", "connect", "menfess">>), Says(Chat, "word"), Says(Chat, "/cancel")}, 3, 1, 0, 0)

Connecting ==
  Scene({Asks(Chat, <<>>, <<"connect">>), Says(Chat, "word"), Says(Chat, "blank"), Asks(Group, <<>>, <<"disconnect">>), Asks(Group, <<>>, <<"connect">>)}, 4, 0, 0, 1)

Edit(action, from, to, numbers) == [action |-> action, from |-> from, to |-> to, numbers |-> numbers]
Editing ==
  Scene({Wants(Group, <<P1>>, Edit("split", from, to, <<>>)) : from \in 0..3, to \in 0..4}
        \cup {Wants(Group, <<P1>>, Edit("remove_pages", 0, 0, numbers)) : numbers \in {<<>>, <<1, 2>>, <<3, 1, 3>>, <<2, 1, 3>>, <<4>>}}
        \cup {Wants(Group, files, Edit(action, 0, 0, <<>>)) : files \in {<<>>, <<P2>>, <<Img>>}, action \in {"rotate", "info"}}, 1, 0, 0, 0)

Old(f, chat) == [id |-> f, step |-> "password", files |-> <<>>, room |-> None, chat |-> chat, expires |-> 1]
Session(flows, room) == [flows |-> flows, active |-> flows[Len(flows)].id, room |-> room, version |-> 1]
Legacy(row) == [Scene({Says(Chat, "word"), Says(Group, "word")}, 2, 1, 0, 0) EXCEPT !.rows[AnyRoom] = row, !.registered = {"menfess_confirm"}]

Cast ==
  {Confirming, Collecting, Drawing, Mixed, Trio, Connecting, Editing, Legacy(Garbage),
   Legacy(Session(<<Old("media_connect", None)>>, None)), Legacy(Session(<<Old("menfess_confirm", Chat)>>, None)),
   Legacy(Session(<<Old("menfess_confirm", None)>>, Chat))}

Lives == [f \in {"menfess_confirm", "pdf_img_collect", "pdf_merge_collect", "media_connect"} |->
            CASE f = "menfess_confirm" -> 0 [] f = "media_connect" -> 1 [] OTHER -> 2]

VARIABLE part  \* what is played

PendingInit ==
  /\ part \in {"flows", "reminders"}
  /\ Init /\ SchedulerInit
  /\ part = "reminders" => scene = Confirming
  /\ part = "flows" => senders = {}

PendingNext ==
  \/ part = "flows" /\ Next /\ UNCHANGED <<part, schedulerVars>>
  \/ part = "reminders" /\ SchedulerNext /\ UNCHANGED <<part, vars>>

PendingSpec == PendingInit /\ [][PendingNext]_<<part, vars, schedulerVars>>
=============================================================================
