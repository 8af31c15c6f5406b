----------------------------- MODULE MCWebControl -----------------------------
(***************************************************************************)
(* Configurations in which the entry of the process "dif", port 1,         *)
(* instance 1, has what can be in its way: entries of its name on another  *)
(* port or of another instance, one of it without parameters, two of it.   *)
(***************************************************************************)
EXTENDS WebControl

E(name, port, instance, p) ==
    [name |-> name, port |-> port, instance |-> instance, PARAMETER |-> p]

Process == [name |-> "dif", port |-> 1, instance |-> 1]

Configurations ==
    { [hosts |-> "others", entries |-> << >>],
      [hosts |-> "ours", entries |-> << E("dif", 1, 0, "a"), E("dif", 1, 1, "b") >>],
      [hosts |-> "ours", entries |-> << E("dif", 0, 1, "a"), E("dif", 1, 1, Null),
                                        E("dif", 1, 1, "d"), E("dif", 1, 1, "e") >>] }
==============================================================================
