----------------------------- MODULE MCWorkloads -----------------------------
(* A compose project of two containers, one with a docker ps line that does not
   unmarshal, and a third container of the same image that was started by hand. *)
EXTENDS Workloads

MCContainers ==
    << [name |-> "xui", image |-> "x", line |-> "ok", bindings |-> {<<443, 443>>}],
       [name |-> "agent", image |-> "x", line |-> "ok", bindings |-> {<<80, 8080>>}],
       [name |-> "old", image |-> "o", line |-> "bad", bindings |-> {}] >>
MCVolumes  == <<"db", "logs">>
MCComposed == {"xui", "old"}
MCJobs     == <<"batch">>
==============================================================================
