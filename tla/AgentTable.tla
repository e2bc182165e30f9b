----------------------------- MODULE AgentTable -----------------------------
(***************************************************************************)
(* How the tables of the agents (ShellAgents, SnmpAgents, CloudAgents,     *)
(* VmAgents) describe an agent agents/X/fence_X.py:                        *)
(*                                                                         *)
(*   X_get_power_status   what the callback makes of the device's answer:  *)
(*       a record with one field per word of the device, and one per fault *)
(*       of it: "other", a word that the code does not name; "absent", an  *)
(*       answer without the plug; "garbled", an answer that does not       *)
(*       match; "refused", an error reply.  The values are                 *)
(*         "on", "off"   the status returned                               *)
(*         "error"       any other value returned                          *)
(*         "raise"       an Exception: exit code 1, but the on portion of  *)
(*                       a reboot swallows it                              *)
(*         "fail"        fail(), fail_usage() or sys.exit(): SystemExit    *)
(*         "missing"     "off" with --missing-as-off, else "fail"          *)
(*         "contrary"    "off" if --action is on, else "on"                *)
(*   X_set_power_status   what on and off ask of the device, and what the  *)
(*       callback does when the device refuses.  The requests are "on",    *)
(*       "off", "toggle" (a power button), "soft" (the guest is asked to   *)
(*       shut down) and "exit" (the callback ends the process)             *)
(*   X_get_outlet_list    the status that a list shows for an answer,      *)
(*       "unknown" for one that is neither on nor off, "none" for no line  *)
(*   X_reboot_cycle       what the callback of the method "cycle" returns  *)
(*       when the device takes the command and when it refuses: "true",    *)
(*       "false" (None as well), "raise", "fail" or "unless_off", that is  *)
(*       "true" for a machine that is off, else "fail"                     *)
(*   X_main               what main does before and with fence_action      *)
(***************************************************************************)

\* The entries of f, and those of g for the words that f does not have: the
\* operator of module TLC, with a definition that the provers can expand.
f @@ g == [w \in DOMAIN f \cup DOMAIN g |-> IF w \in DOMAIN f THEN f[w] ELSE g[w]]

\* set_power_status: requests for --action on and off, reaction to a refusal.
Set(on, off, refused) == [on |-> on, off |-> off, refused |-> refused]

\* reboot_cycle: what it returns for a command taken and for one refused.
Cycled(taken, refused) == [taken |-> taken, refused |-> refused]

(***************************************************************************)
(* main: the device_opt of the agent; the steps between show_docs and      *)
(* fence_action; the callbacks given to fence_action, of "set", "get",     *)
(* "list", "cycle" and "sync"; and what becomes of the session with the    *)
(* device: "none" is opened, a "pipe" ends with the process, a session     *)
(* known by a token is ended by an exit handler ("atexit") or is left to   *)
(* expire ("left").  "dropped": no session, and main does not pass the     *)
(* value of fence_action to sys.exit, so that its code 2 becomes 0.        *)
(***************************************************************************)
Main(device_opt, steps, fns, session) ==
    [device_opt |-> device_opt, defaults |-> {}, steps |-> steps, fns |-> fns, session |-> session]

\* main gives these options of all_opt a default of its own.
Having(defaults, main) == [main EXCEPT !.defaults = defaults]

(***************************************************************************)
(* An agent: its main and its callbacks, <<>> for one that it has not, and *)
(* how a callback finds the machine of its status or command:              *)
(*   "plug"    by --plug                                                   *)
(*   "uuid"    by --uuid once some plug has been a UUID, else by --plug    *)
(*   "first"   as the first plug resolved, which a variable or --uuid keeps*)
(*   "last"    a command goes to the machine of the last status            *)
(*   "once"    the status is the one that main has read                    *)
(***************************************************************************)
AgentRow(main, get, set, list, cycle, names) ==
    [main |-> main, get |-> get, set |-> set, list |-> list, cycle |-> cycle, names |-> names]
=============================================================================
