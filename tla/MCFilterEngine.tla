--------------------------- MODULE MCFilterEngine ---------------------------
(* Two clients, the default profile (1) and one more (2), a site and a       *)
(* subdomain of it, a plain blocklist and one of a category, a schedule of   *)
(* either mode.                                                              *)
EXTENDS FilterEngine

MCAbove == [d \in {"site", "sub"} |-> IF d = "sub" THEN {"sub", "site"} ELSE {d}]
MCHolds == [l \in {"l1", "cat"} |-> IF l = "l1" THEN {"sub"} ELSE {"site"}]
MCWindow == [s \in {"on", "off"} |-> {0}]

For(d, until, sched) == [domain |-> d, until |-> until, sched |-> sched]
NoDevices == [c \in Client |-> None]
Kids == [Blank EXCEPT !.lists = {"l1", "cat"}, !.ips = {"c1"}]

\* Right after setup: one blocklist, no profile.
Fresh ==
    [lists |-> {"l1"}, allow |-> {}, rules |-> [allow |-> {}, block |-> {}],
     profiles |-> {}, prof |-> [p \in Profile |-> Blank],
     shared |-> [entries |-> {}, profs |-> {}],
     scheds |-> {}, binds |-> {}, gpause |-> NoGlobalPause, dev |-> NoDevices]

\* Two profiles with a common list, one of them under schedules.
Family ==
    [Fresh EXCEPT
        !.lists = {"l1", "cat"}, !.profiles = {1, 2},
        !.prof = [p \in Profile |-> IF p = 1 THEN [Blank EXCEPT !.lists = {"l1"}] ELSE Kids],
        !.scheds = {"on", "off"},
        !.binds = {[sched |-> "off", prof |-> 2, list |-> "cat"]},
        !.allow = {For("sub", Never, "off")}]

\* Clients known by identity, an allowance that runs out, a pause that runs.
Known ==
    [Fresh EXCEPT
        !.lists = {"l1", "cat"}, !.profiles = {1, 2},
        !.prof = [p \in Profile |->
                     IF p = 1 THEN [Blank EXCEPT !.lists = {"cat"}]
                     ELSE [Kids EXCEPT !.lists = {"l1"}, !.ips = {}, !.ids = {"c1"},
                                       !.dyn = TRUE, !.safe = TRUE,
                                       !.allow = {For("site", 1, None)},
                                       !.pause = [until |-> 1, clients |-> {"c2"}]]],
        !.shared = [entries |-> {For("site", Never, "off")}, profs |-> {1}],
        !.scheds = {"off"},
        !.dev = [c \in Client |-> IF c = "c2" THEN [prof |-> 2, by |-> "ip"] ELSE None]]

MCStart == {Fresh, Family, Known}
=============================================================================
