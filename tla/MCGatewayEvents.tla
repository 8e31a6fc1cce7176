-------------------------- MODULE MCGatewayEvents --------------------------
(***************************************************************************)
(* Small worlds for GatewayEvents.  Each names its objects, their first    *)
(* versions and what users may make of them.                               *)
(***************************************************************************)
EXTENDS GatewayEvents, TLC

RouteKinds == {"http", "grpc", "tcp", "udp", "tls"}

First(k, refs) ==
  [live |-> TRUE, ver |-> 1, refs |-> refs, flag |-> TRUE,
   st |-> CASE k \in RouteKinds -> <<>> [] k = "class" -> {} [] OTHER -> None]

To(refs) == [live |-> TRUE, refs |-> refs, flag |-> TRUE]
Closed(refs) == [live |-> TRUE, refs |-> refs, flag |-> FALSE]
Gone(refs) == [live |-> FALSE, refs |-> refs, flag |-> TRUE]

World(kind, other, init, edit, b) ==
  [kind |-> kind,
   ns |-> [o \in DOMAIN kind |-> IF o \in other THEN "b" ELSE "a"],
   init |-> [o \in DOMAIN kind |-> First(kind[o], init[o])],
   variants |-> [o \in DOMAIN kind |-> IF o \in DOMAIN edit THEN edit[o] ELSE {}],
   budget |-> b, warm |-> FALSE]

\* The same world after the controller has come to rest in it.
Warm(w) ==
  LET Status(o) ==
        LET rec == w.init[o] IN
        CASE w.kind[o] \in RouteKinds ->
               [p \in {x \in rec.refs : w.kind[x] \in {"gw", "ls"}} |->
                  [gen |-> 1, info |-> [accepted |-> TRUE, resolved |-> TRUE]]]
          [] w.kind[o] = "ls" ->
               [accepted |-> TRUE, gen |-> 1,
                routes |-> {{r \in DOMAIN w.kind : o \in w.init[r].refs}}]
          [] OTHER -> rec.st
  IN  [w EXCEPT !.warm = TRUE,
                !.init = [o \in DOMAIN w.kind |->
                            [w.init[o] EXCEPT !.st = Status(o)]]]

Budget(e, f, r) == [edits |-> e, faults |-> f, restarts |-> r]

\* A Route moves between two Gateways.
Moving(b) ==
  World("k1" :> "class" @@ "g1" :> "gw" @@ "g2" :> "gw" @@ "r1" :> "http", {},
        "k1" :> {} @@ "g1" :> {"k1"} @@ "g2" :> {"k1"} @@ "r1" :> {"g1"},
        "r1" :> {To({"g2"}), To({"g1", "g2"})}, b)

\* A Route of two Gateways, one of which closes and opens.
Closing(b) ==
  World("k1" :> "class" @@ "g1" :> "gw" @@ "g2" :> "gw" @@ "r1" :> "grpc", {},
        "k1" :> {} @@ "g1" :> {"k1"} @@ "g2" :> {"k1"} @@ "r1" :> {"g1", "g2"},
        "g1" :> {To({"k1"}), Closed({"k1"})} @@ "r1" :> {To({"g1", "g2"})}, b)

\* A Route on a ListenerSet that changes its Gateway, closes or goes away.
Sets(b) ==
  World("k1" :> "class" @@ "g1" :> "gw" @@ "g2" :> "gw" @@ "l1" :> "ls"
          @@ "r1" :> "tcp", {},
        "k1" :> {} @@ "g1" :> {"k1"} @@ "g2" :> {"k1"} @@ "l1" :> {"g1"}
          @@ "r1" :> {"l1"},
        "l1" :> {To({"g1"}), To({"g2"}), Closed({"g1"}), Gone({"g1"})}
          @@ "g1" :> {Closed({"k1"})}, b)

\* The configuration of the class and its default target group configuration.
Configs(b) ==
  World("k1" :> "class" @@ "g1" :> "gw" @@ "b1" :> "lbc" @@ "b2" :> "lbc"
          @@ "t1" :> "tgc", {},
        "k1" :> {"b1"} @@ "g1" :> {"k1", "b2"} @@ "b1" :> {"t1"} @@ "b2" :> {}
          @@ "t1" :> {},
        "b1" :> {To({"t1"}), To({})} @@ "b2" :> {To({}), To({"t1"})}
          @@ "t1" :> {To({})}, b)

\* A Service in another namespace, its grant and its configuration.
Services(b) ==
  World("k1" :> "class" @@ "g1" :> "gw" @@ "r1" :> "udp" @@ "s1" :> "svc"
          @@ "n1" :> "grant" @@ "t1" :> "tgc", {"s1", "n1", "t1"},
        "k1" :> {} @@ "g1" :> {"k1"} @@ "r1" :> {"g1", "s1"} @@ "s1" :> {}
          @@ "n1" :> {"a"} @@ "t1" :> {"s1"},
        "s1" :> {To({}), Gone({})} @@ "n1" :> {To({"a"}), To({})}
          @@ "t1" :> {To({"s1"}), To({}), Gone({"s1"})}, b)

\* A listener rule configuration and the Secret of its OIDC action.
Secrets(b) ==
  World("k1" :> "class" @@ "g1" :> "gw" @@ "r1" :> "http" @@ "c1" :> "lrc"
          @@ "x1" :> "secret", {},
        "k1" :> {} @@ "g1" :> {"k1"} @@ "r1" :> {"g1", "c1"} @@ "c1" :> {"x1"}
          @@ "x1" :> {},
        "c1" :> {To({"x1"}), To({})} @@ "x1" :> {To({})}, b)

MCSettings ==
  {Warm(Moving(Budget(2, 0, 0))), Moving(Budget(1, 0, 1)),
   Warm(Closing(Budget(1, 1, 0))),
   Warm(Sets(Budget(1, 2, 0))), Sets(Budget(0, 1, 1)),
   Configs(Budget(2, 1, 0)), Services(Budget(2, 0, 0)), Secrets(Budget(2, 1, 0))}

\* A Route that leaves a Gateway.
MCDetach == {Moving(Budget(1, 0, 0))}
=============================================================================
