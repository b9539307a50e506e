----------------------------- MODULE MCMStorage -----------------------------
(* The settings in which the storage process is checked.                   *)
EXTENDS MStorage

CONSTANTS u, p

Plain == [uris |-> {u, p}, commands |-> {"put", "remove"},
          targets |-> {"all", "other"}, threads |-> {"n_channel"},
          failures |-> {"store"}, items |-> 1, requests |-> 3, crashes |-> 1]
Batch == [Plain EXCEPT !.commands = {"put"}, !.targets = {"all"},
                       !.failures = {}, !.items = 2, !.requests = 2,
                       !.crashes = 0]
AtStart == [Plain EXCEPT !.uris = {p}, !.targets = {"all"}, !.failures = {},
                         !.threads = {"n_channel", "init"}, !.requests = 1,
                         !.crashes = 0]
Faults == [Plain EXCEPT !.uris = {p}, !.targets = {"all"},
                        !.failures = {"store", "push"}]

AclErr == [Plain EXCEPT !.uris = {p}, !.targets = {"all"}, !.failures = {"acl"},
                        !.requests = 2, !.crashes = 0]

AllSettings == {Plain, Batch, AtStart, Faults, AclErr}
=============================================================================
