-------------------------- MODULE MCIngressGroups --------------------------
(* Two Ingresses and one explicit group; every setting lets the users make a  *)
(* few changes of some kinds and the environment fail a few times, or one     *)
(* deployment be faster than the informer.                                    *)
EXTENDS IngressGroups

MCNames == <<"i1", "i2">>
MCExplicit == {"x"}

Ok(group) == [state |-> "ok", group |-> group]
Bad(state) == [state |-> state, group |-> ""]

Base ==
  [present |-> {"i1", "i2"}, start |-> [i \in {"i1", "i2"} |-> "x"],
   byClassName |-> {}, secretRefs |-> {"i1"}, class |-> Ok(""), classes |-> {Ok("")},
   moves |-> {"", "x"}, edits |-> {}, maxEdits |-> 2, maxFaults |-> 0, maxLags |-> 1,
   returns |-> FALSE, plan |-> FALSE, nlb |-> FALSE, nlbOnly |-> {}]

(* Ingresses join and leave groups, change, go and come back. *)
Membership1 ==
  [Base EXCEPT !.edits = {"move", "change", "delete"},
               !.moves = {"", "x", "bad", "off"}]
Membership2 ==
  [Base EXCEPT !.edits = {"create", "delete", "backend"},
               !.present = {"i2"}, !.maxFaults = 1]

(* The class and its parameters change. *)
ClassChanges ==
  [Base EXCEPT !.edits = {"class", "change", "delete"}, !.byClassName = {"i1"},
               !.start = [i \in {"i1", "i2"} |-> ""],
               !.classes = {Ok(""), Ok("x"), Bad("invalid"), Bad("foreign")}]

(* Plans and the hostnames of a frontend NLB. *)
Plans ==
  [Base EXCEPT !.edits = {"create", "move"}, !.present = {"i2"},
               !.plan = TRUE, !.maxLags = 0, !.nlb = TRUE, !.nlbOnly = {"i2"}]
PlanFails ==
  [Plans EXCEPT !.edits = {"create"}, !.maxEdits = 1, !.maxFaults = 1, !.maxLags = 1]

MCSettings == {Membership1, Membership2, ClassChanges, Plans, PlanFails}

(* The class becomes invalid by accident. *)
AccidentSettings ==
  {[ClassChanges EXCEPT !.edits = {"class", "change"}, !.classes = {Ok(""), Bad("invalid")}]}

(* Users who change their minds. *)
ReturningSettings ==
  {[Base EXCEPT !.edits = {"move"}, !.moves = {"", "x"}, !.returns = TRUE]}
=============================================================================
