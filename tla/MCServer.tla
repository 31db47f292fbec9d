------------------------------ MODULE MCServer ------------------------------
(***************************************************************************)
(* Configurations for checking Server.  Clients connect in the order of    *)
(* their numbers, which loses nothing: they are alike until they connect.  *)
(* Descriptors are model values: accept hands out any free one, and events *)
(* are handled in any order.                                               *)
(***************************************************************************)
EXTENDS Server, TLC

CONSTANTS f1, f2

TwoClients == {1, 2}
OneFd == {f1}
TwoFds == {f1, f2}
FdSymmetry == Permutations(TwoFds)

(* One client, a queue of one job.                                         *)
Base ==
    [worker_threads |-> 1, worker_queue_limit |-> 1, max_connections |-> 1,
     max_output_buffer |-> 2, idle_timeout |-> FALSE, clients |-> {1},
     messages |-> {"cmd"}, max_sends |-> 3, faults |-> {}]

(* One connection on which everything may happen.                          *)
AnyInput ==
    [Base EXCEPT !.worker_threads = 2, !.max_output_buffer = 1,
                 !.messages = {"cmd", "bad", "part"}, !.max_sends = 4,
                 !.faults = {"eof", "reset", "error", "stop", "accept",
                            "overflow"}]

(* Connections side by side and after each other on a descriptor.          *)
SharedDescriptors ==
    [Base EXCEPT !.worker_threads = 2, !.max_connections = 2,
                 !.idle_timeout = TRUE, !.clients = {1, 2}, !.max_sends = 2,
                 !.faults = {"error"}]

SafetyConfigs == {AnyInput, SharedDescriptors}

(* The queue fills up, or never does.                                      *)
FullQueue ==
    [Base EXCEPT !.max_output_buffer = 1, !.messages = {"cmd", "bad", "part"},
                 !.faults = {"eof"}]
LiveConfigs ==
    {FullQueue, [FullQueue EXCEPT !.worker_queue_limit = 4,
                                  !.worker_threads = 2,
                                  !.max_output_buffer = 2]}

OneConfig == {Base}
ErrorConfig == {[Base EXCEPT !.messages = {"cmd", "bad"}]}
=============================================================================
