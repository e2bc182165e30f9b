--------------------------- MODULE AgentRunProofs ---------------------------
(***************************************************************************)
(* What AgentRun promises for every agent of the tables, any number of     *)
(* plugs, any input, any timeouts and any number of retries.  The rows of  *)
(* the tables are looked at one by one, for the few facts that the proofs  *)
(* need of them; everything else is about the control and the device.      *)
(***************************************************************************)
EXTENDS AgentRun, TLAPS

----------------------------------------------------------------------------
(* What the proofs need of a row.                                          *)

\* The answer w is one that agent a is known to take for off.
Taken(a, w) == a \in DOMAIN TakenForOff /\ w \in TakenForOff[a]

\* Each answer that is taken for off says so, or is known not to.
OffOK(a, answers) ==
    \A w \in DOMAIN answers : answers[w] = "off" => w \in SaysOff \/ Taken(a, w)

\* The requests.  A button needs a machine whose state is known.
SetOK(a, row) ==
    IF a \notin Buttons
    THEN "set" \in row.main.fns =>
            row.set.on \in {"on", "exit"} /\ row.set.off \in {"off", "soft", "exit"}
    ELSE /\ row.set.on = "toggle" /\ row.set.off = IF a = "ilo" THEN "off" ELSE "toggle"
         /\ row.names = "plug" /\ {"port", "no_status"} \cap row.main.device_opt = {}
         /\ \A w \in DOMAIN row.get : /\ row.get[w] = "on" => w \in SaysOn
                                      /\ row.get[w] # "contrary"

\* Some step of main waits for --delay; fence_wti has one for each way of login.
DelayOK(a, row) ==
    LET s == row.main.steps
    IN /\ Len(s) \in Nat
       /\ IF a = "wti"
          THEN Len(s) = 3 /\ s[1] = "time_sleep" /\ s[2] = "prompts" /\ s[3] = "fence_login"
          ELSE \E i \in 1 .. Len(s) : s[i] \in DelaySteps

\* Who keeps the machine of a plug for the next one.
NamesOK(a, row) ==
    /\ row.names \in {"plug", "uuid", "first", "last", "once"}
    /\ row.names = "first" => a \in {"ifmib", "ipdu", "apc_snmp", "eaton_snmp", "vmware_soap"}
    /\ row.names = "uuid" => a \in {"virsh", "ironic", "xenapi", "nutanix_ahv"}

\* A clean answer means what it says, but for agents of Defective; so below.
CleanGet(a, row) ==
    \A w \in DOMAIN row.get :
        /\ w # "none"
        /\ w \in SaysOn => row.get[w] = "on" \/ a = "gce_baremetal"
        /\ w \in SaysOff => row.get[w] = "off" \/ a = "gce_baremetal"
        /\ w \in Clear => row.get[w] \in {"on", "off", "contrary"}

\* A clean line of a list is not taken for an error.
CleanList(a, row) ==
    \A w \in DOMAIN row.list :
        w \in Clear => \/ row.list[w] \notin {"raise", "fail"}
                       \/ a \in {"cdu", "eaton_ssh", "raritan_px3"}

\* On asks for on and off for off, and a power cycle that is taken succeeds.
CleanSet(a, row) ==
    /\ "set" \in row.main.fns /\ a \notin Buttons =>
          /\ row.set.on = "on" \/ a \in {"gce_baremetal", "crosslink", "raritan_px3"}
          /\ row.set.off = "off" \/ a \in {"gce_baremetal", "crosslink", "raritan_px3", "skalar_graceful"}
    /\ \/ "method" \in row.main.device_opt /\ "cycle" \in row.main.fns
       \/ "diag" \in row.main.device_opt
       => row.cycle.taken = "true" \/ a \in {"docker", "nutanix_ahv", "raritan_px3"}

\* The steps that look at the options or look a plug up, and whose they are.
StepOK(a, s) ==
    /\ s = "check_plug" => a = "cisco_mds"
    /\ s = "plug_found" => a = "raritan_px3"
    /\ s = "managed_given" => a = "lpar"
    /\ s = "password_login" => a = "xenapi"
    /\ s = "prepare_command" => a \in {"vmware", "vmware_server1"}
    /\ s = "validate_input" => a = "ovm"
    /\ s \in {"plug_given", "clouds_yaml"} => a = "openstack"
    /\ s = "drac_version" => a = "drac5"
    /\ s = "prompts" => a = "wti"
    /\ s = "azure_clients" => a = "azure_arm"

\* main: who misses what, who has no set function, who forgets the value of
\* fence_action.
CleanMain(a, row) ==
    /\ \A i \in 1 .. Len(row.main.steps) : StepOK(a, row.main.steps[i])
    /\ \/ {"set", "sync"} \cap row.main.fns # {}
       \/ /\ a = "rcd_serial" /\ "cycle" \in row.main.fns
          /\ {"no_on", "no_off"} \subseteq row.main.device_opt
    /\ row.names = "last" => a \in {"rhevm", "vmware_rest"} /\ "no_status" \notin row.main.device_opt
    /\ row.names = "once" => a = "raritan_px3"
    /\ row.main.session = "dropped" => a \in {"gce_baremetal", "ecloud"}

\* A login: the options that main asks for and gives defaults to.
LoginOK(a, main) ==
    LET d == main.device_opt
        f == main.defaults
        s == main.steps
    IN /\ \A i \in 2 .. Len(s) : s[i] \notin {"set_ssh", "set_prompt"}
       /\ \A i \in 1 .. Len(s) : s[i] = "fence_login" =>
             /\ {"ipaddr", "login", "passwd"} \subseteq d
             /\ {"web", "snmp", "community", "target", "ipport", "identity_file",
                 "passwd_script", "telnet_path"} \cap d = {}
             /\ {"no_login", "no_password"} \cap d = {} \/ a = "wti"
             /\ f \subseteq {"secure", "cmd_prompt", "ssl", "ipport", "ipport_unless_ssh"}
             /\ f \cap {"secure", "cmd_prompt", "ssl"} \subseteq d
             /\ "managed" \in d => a = "lpar"
             /\ "ipport" \in f => a = "raritan_px3"
             /\ "ipport_unless_ssh" \in f => "secure" \notin f
             /\ IF "ssl" \in d
                THEN /\ "ssl" \in f /\ "secure" \notin d /\ s[1] # "set_ssh"
                     /\ {"ipport", "ipport_unless_ssh"} \cap f = {}
                ELSE IF s[1] = "set_ssh"
                THEN "secure" \in d /\ i > 1
                ELSE /\ "cmd_prompt" \in f \/ (i > 1 /\ s[1] = "set_prompt")
                     /\ \/ "secure" \in f \/ "telnet" \in d
                        \/ a = "cyberpower_ssh"

\* What the theorems need to know of the row of agent a: its answers, what it
\* asks of the device, and its main.
AnswersOK(a, row) ==
    OffOK(a, row.get) /\ OffOK(a, row.list) /\ CleanGet(a, row) /\ CleanList(a, row)
RequestsOK(a, row) == SetOK(a, row) /\ CleanSet(a, row)
MainOK(a, row) ==
    DelayOK(a, row) /\ NamesOK(a, row) /\ CleanMain(a, row) /\ LoginOK(a, row.main)
RowOK(a, row) == AnswersOK(a, row) /\ RequestsOK(a, row) /\ MainOK(a, row)

----------------------------------------------------------------------------
(* The tables, row by row.                                                 *)

\* The answers that are known to be taken for off, agent by agent.
LEMMA TakenFacts ==
    /\ \A a \in {"ilo_mp", "ilo_ssh", "vbox", "lpar", "emerson", "ibmblade", "intelmodular",
                 "cisco_mds", "ifmib", "ipdu", "apc_snmp", "lindypdu", "vmware", "ibmz"} :
          Taken(a, "other")
    /\ \A a \in {"vmware_rest", "vmware_vcloud", "ovm"} : Taken(a, "SUSPENDED")
    /\ \A a \in {"skalar", "skalar_graceful"} :
          \A w \in {"SUSPENDED", "ERROR", "CREATING", "NODE_OFFLINE", "STARTING"} : Taken(a, w)
    /\ \A w \in {"garbled", "no_state", "in_shutdown", "pmsuspended"} : Taken("virsh", w)
    /\ Taken("crosslink", "garbled") /\ Taken("crosslink", "silent")
    /\ Taken("amt", "S3") /\ Taken("amt", "other") /\ Taken("wti", "group_other")
    /\ Taken("zvmip", "absent") /\ Taken("zvmip", "error_reply")
    /\ Taken("rhevm", "no_status") /\ Taken("nutanix_ahv", "PAUSED")
    /\ \A w \in {"other", "missing", "mismatch"} : Taken("cisco_ucs", w)
    /\ Taken("vmware_server1", "other") /\ Taken("vmware_server1", "absent")
    /\ Taken("vmware_soap", "other") /\ Taken("vmware_soap", "suspended")
<1> USE DEF Taken, TakenForOff, @@
<1>1. \A a \in {"ilo_mp", "ilo_ssh", "vbox", "lpar", "emerson", "ibmblade", "intelmodular",
                "cisco_mds", "ifmib", "ipdu", "apc_snmp", "lindypdu", "vmware", "ibmz"} :
         Taken(a, "other")
    OBVIOUS
<1>2. \A a \in {"vmware_rest", "vmware_vcloud", "ovm"} : Taken(a, "SUSPENDED")
    OBVIOUS
<1>3. \A a \in {"skalar", "skalar_graceful"} :
         \A w \in {"SUSPENDED", "ERROR", "CREATING", "NODE_OFFLINE", "STARTING"} : Taken(a, w)
    OBVIOUS
<1>4. \A w \in {"garbled", "no_state", "in_shutdown", "pmsuspended"} : Taken("virsh", w)
    OBVIOUS
<1>5. /\ Taken("crosslink", "garbled") /\ Taken("crosslink", "silent")
      /\ Taken("amt", "S3") /\ Taken("amt", "other") /\ Taken("wti", "group_other")
      /\ Taken("zvmip", "absent") /\ Taken("zvmip", "error_reply")
    OBVIOUS
<1>6. /\ Taken("rhevm", "no_status") /\ Taken("nutanix_ahv", "PAUSED")
      /\ \A w \in {"other", "missing", "mismatch"} : Taken("cisco_ucs", w)
    OBVIOUS
<1>7. /\ Taken("vmware_server1", "other") /\ Taken("vmware_server1", "absent")
      /\ Taken("vmware_soap", "other") /\ Taken("vmware_soap", "suspended")
    OBVIOUS
<1> HIDE DEF Taken, TakenForOff, @@
<1> QED BY <1>1, <1>2, <1>3, <1>4, <1>5, <1>6, <1>7

\* Every row of ShellTable.
LEMMA ShellRows == \A a \in DOMAIN ShellTable : RowOK(a, ShellTable[a])
<1>d. DOMAIN ShellTable = {"alom", "ilo_mp", "drac", "rsa", "ilo_moonshot",
        "cyberpower_ssh", "rsb", "brocade", "ilo_ssh", "raritan", "netio", "virsh",
        "rcd_serial", "ldom", "bladecenter", "crosslink", "hds_cb", "hpblade", "amt",
        "ironic", "vbox", "drac5", "sanbox2", "ilo", "ilo_old", "ilo2", "eps", "lpar",
        "wti", "apc", "apc5", "cdu", "powerman", "ipmilan", "eaton_ssh", "amt_ws",
        "zvmip", "raritan_px3"}
    BY DEF ShellTable
<1>alom. RowOK("alom", ShellTable["alom"])
  <2>1. ShellTable["alom"] = AgentRow(alom_main, alom_get_power_status,
              alom_set_power_status, <<>>, <<>>, "plug")
      BY DEF ShellTable
  <2>2. AnswersOK("alom", ShellTable["alom"])
      BY <2>1
          DEF AnswersOK, OffOK, CleanGet, CleanList, SaysOn, SaysOff, Clear, AgentRow,
              alom_get_power_status
  <2>3. RequestsOK("alom", ShellTable["alom"])
      BY <2>1
          DEF RequestsOK, SetOK, CleanSet, Buttons, AgentRow, alom_main, Having, Main, Card,
              alom_set_power_status, Set
  <2>4. /\ ShellTable["alom"].main.device_opt = {"passwd", "secure", "ipaddr", "login",
              "cmd_prompt"}
        /\ ShellTable["alom"].main.defaults = {"secure", "cmd_prompt"}
        /\ ShellTable["alom"].main.fns = {"get", "set"}
        /\ ShellTable["alom"].main.session = "pipe" /\ ShellTable["alom"].names = "plug"
        /\ Len(ShellTable["alom"].main.steps) = 1
        /\ ShellTable["alom"].main.steps[1] = "fence_login"
      BY <2>1
          DEF AgentRow, alom_main, Having, Main, Card
  <2>5. MainOK("alom", ShellTable["alom"])
      BY <2>4 DEF MainOK, DelayOK, CleanMain, StepOK, LoginOK, NamesOK,
              DelaySteps
  <2> QED BY <2>2, <2>3, <2>5 DEF RowOK
<1>ilo_mp. RowOK("ilo_mp", ShellTable["ilo_mp"])
  <2>1. ShellTable["ilo_mp"] = AgentRow(ilo_mp_main, ilo_mp_get_power_status,
              ilo_mp_set_power_status, <<>>, <<>>, "plug")
      BY DEF ShellTable
  <2>2. AnswersOK("ilo_mp", ShellTable["ilo_mp"])
      BY <2>1, TakenFacts
          DEF AnswersOK, OffOK, CleanGet, CleanList, SaysOn, SaysOff, Clear, AgentRow,
              ilo_mp_get_power_status
  <2>3. RequestsOK("ilo_mp", ShellTable["ilo_mp"])
      BY <2>1
          DEF RequestsOK, SetOK, CleanSet, Buttons, AgentRow, ilo_mp_main, Having, Main,
              Card, ilo_mp_set_power_status, Set
  <2>4. /\ ShellTable["ilo_mp"].main.device_opt = {"passwd", "secure", "telnet", "ipaddr", "login",
              "cmd_prompt"}
        /\ ShellTable["ilo_mp"].main.defaults = {"cmd_prompt"}
        /\ ShellTable["ilo_mp"].main.fns = {"get", "set"}
        /\ ShellTable["ilo_mp"].main.session = "pipe" /\ ShellTable["ilo_mp"].names = "plug"
        /\ Len(ShellTable["ilo_mp"].main.steps) = 2
        /\ ShellTable["ilo_mp"].main.steps[1] = "fence_login"
        /\ ShellTable["ilo_mp"].main.steps[2] = "SMCLP"
      BY <2>1
          DEF AgentRow, ilo_mp_main, Having, Main, Card
  <2>5. MainOK("ilo_mp", ShellTable["ilo_mp"])
      BY <2>4 DEF MainOK, DelayOK, CleanMain, StepOK, LoginOK, NamesOK,
              DelaySteps
  <2> QED BY <2>2, <2>3, <2>5 DEF RowOK
<1>drac. RowOK("drac", ShellTable["drac"])
  <2>1. ShellTable["drac"] = AgentRow(drac_main, drac_get_power_status,
              drac_set_power_status, <<>>, <<>>, "plug")
      BY DEF ShellTable
  <2>2. AnswersOK("drac", ShellTable["drac"])
      BY <2>1
          DEF AnswersOK, OffOK, CleanGet, CleanList, SaysOn, SaysOff, Clear, AgentRow,
              drac_get_power_status
  <2>3. RequestsOK("drac", ShellTable["drac"])
      BY <2>1
          DEF RequestsOK, SetOK, CleanSet, Buttons, AgentRow, drac_main, Having, Main, Card,
              drac_set_power_status, Set
  <2>4. /\ ShellTable["drac"].main.device_opt = {"passwd", "telnet", "ipaddr", "login",
              "cmd_prompt"}
        /\ ShellTable["drac"].main.defaults = {"cmd_prompt"}
        /\ ShellTable["drac"].main.fns = {"get", "set"}
        /\ ShellTable["drac"].main.session = "pipe" /\ ShellTable["drac"].names = "plug"
        /\ Len(ShellTable["drac"].main.steps) = 1
        /\ ShellTable["drac"].main.steps[1] = "fence_login"
      BY <2>1
          DEF AgentRow, drac_main, Having, Main, Card
  <2>5. MainOK("drac", ShellTable["drac"])
      BY <2>4 DEF MainOK, DelayOK, CleanMain, StepOK, LoginOK, NamesOK,
              DelaySteps
  <2> QED BY <2>2, <2>3, <2>5 DEF RowOK
<1>rsa. RowOK("rsa", ShellTable["rsa"])
  <2>1. ShellTable["rsa"] = AgentRow(rsa_main, rsa_get_power_status,
              rsa_set_power_status, <<>>, <<>>, "plug")
      BY DEF ShellTable
  <2>2. AnswersOK("rsa", ShellTable["rsa"])
      BY <2>1
          DEF AnswersOK, OffOK, CleanGet, CleanList, SaysOn, SaysOff, Clear, AgentRow,
              rsa_get_power_status
  <2>3. RequestsOK("rsa", ShellTable["rsa"])
      BY <2>1
          DEF RequestsOK, SetOK, CleanSet, Buttons, AgentRow, rsa_main, Having, Main, Card,
              rsa_set_power_status, Set
  <2>4. /\ ShellTable["rsa"].main.device_opt = {"passwd", "secure", "telnet", "ipaddr", "login",
              "cmd_prompt"}
        /\ ShellTable["rsa"].main.defaults = {"cmd_prompt"}
        /\ ShellTable["rsa"].main.fns = {"get", "set"}
        /\ ShellTable["rsa"].main.session = "pipe" /\ ShellTable["rsa"].names = "plug"
        /\ Len(ShellTable["rsa"].main.steps) = 1
        /\ ShellTable["rsa"].main.steps[1] = "fence_login"
      BY <2>1
          DEF AgentRow, rsa_main, Having, Main, Card
  <2>5. MainOK("rsa", ShellTable["rsa"])
      BY <2>4 DEF MainOK, DelayOK, CleanMain, StepOK, LoginOK, NamesOK,
              DelaySteps
  <2> QED BY <2>2, <2>3, <2>5 DEF RowOK
<1>ilo_moonshot. RowOK("ilo_moonshot", ShellTable["ilo_moonshot"])
  <2>1. ShellTable["ilo_moonshot"] = AgentRow(ilo_moonshot_main,
              ilo_moonshot_get_power_status, ilo_moonshot_set_power_status,
              ilo_moonshot_get_power_status, <<>>, "plug")
      BY DEF ShellTable
  <2>2. AnswersOK("ilo_moonshot", ShellTable["ilo_moonshot"])
      BY <2>1
          DEF AnswersOK, OffOK, CleanGet, CleanList, SaysOn, SaysOff, Clear, AgentRow,
              ilo_moonshot_get_power_status
  <2>3. RequestsOK("ilo_moonshot", ShellTable["ilo_moonshot"])
      BY <2>1
          DEF RequestsOK, SetOK, CleanSet, Buttons, AgentRow, ilo_moonshot_main, Having,
              Main, Card, ilo_moonshot_set_power_status, Set
  <2>4. /\ ShellTable["ilo_moonshot"].main.device_opt = {"port", "passwd", "secure", "ipaddr",
              "login", "cmd_prompt"}
        /\ ShellTable["ilo_moonshot"].main.defaults = {"secure", "cmd_prompt"}
        /\ ShellTable["ilo_moonshot"].main.fns = {"get", "set", "list"}
        /\ ShellTable["ilo_moonshot"].main.session = "pipe" /\
              ShellTable["ilo_moonshot"].names = "plug"
        /\ Len(ShellTable["ilo_moonshot"].main.steps) = 1
        /\ ShellTable["ilo_moonshot"].main.steps[1] = "fence_login"
      BY <2>1
          DEF AgentRow, ilo_moonshot_main, Having, Main, Card
  <2>5. MainOK("ilo_moonshot", ShellTable["ilo_moonshot"])
      BY <2>4 DEF MainOK, DelayOK, CleanMain, StepOK, LoginOK, NamesOK,
              DelaySteps
  <2> QED BY <2>2, <2>3, <2>5 DEF RowOK
<1>cyberpower_ssh. RowOK("cyberpower_ssh", ShellTable["cyberpower_ssh"])
  <2>1. ShellTable["cyberpower_ssh"] = AgentRow(cyberpower_ssh_main,
              cyberpower_ssh_get_power_status, cyberpower_ssh_set_power_status,
              cyberpower_ssh_get_power_status, <<>>, "plug")
      BY DEF ShellTable
  <2>2. AnswersOK("cyberpower_ssh", ShellTable["cyberpower_ssh"])
      BY <2>1
          DEF AnswersOK, OffOK, CleanGet, CleanList, SaysOn, SaysOff, Clear, AgentRow,
              cyberpower_ssh_get_power_status
  <2>3. RequestsOK("cyberpower_ssh", ShellTable["cyberpower_ssh"])
      BY <2>1
          DEF RequestsOK, SetOK, CleanSet, Buttons, AgentRow, cyberpower_ssh_main, Having,
              Main, Card, cyberpower_ssh_set_power_status, Set
  <2>4. /\ ShellTable["cyberpower_ssh"].main.device_opt = {"port", "passwd", "secure", "ipaddr",
              "login", "cmd_prompt"}
        /\ ShellTable["cyberpower_ssh"].main.defaults = {"cmd_prompt"}
        /\ ShellTable["cyberpower_ssh"].main.fns = {"get", "set", "list"}
        /\ ShellTable["cyberpower_ssh"].main.session = "pipe" /\
              ShellTable["cyberpower_ssh"].names = "plug"
        /\ Len(ShellTable["cyberpower_ssh"].main.steps) = 1
        /\ ShellTable["cyberpower_ssh"].main.steps[1] = "fence_login"
      BY <2>1
          DEF AgentRow, cyberpower_ssh_main, Having, Main, Card
  <2>5. MainOK("cyberpower_ssh", ShellTable["cyberpower_ssh"])
      BY <2>4 DEF MainOK, DelayOK, CleanMain, StepOK, LoginOK, NamesOK,
              DelaySteps
  <2> QED BY <2>2, <2>3, <2>5 DEF RowOK
<1>rsb. RowOK("rsb", ShellTable["rsb"])
  <2>1. ShellTable["rsb"] = AgentRow(rsb_main, rsb_get_power_status,
              rsb_set_power_status, <<>>, <<>>, "plug")
      BY DEF ShellTable
  <2>2. AnswersOK("rsb", ShellTable["rsb"])
      BY <2>1
          DEF AnswersOK, OffOK, CleanGet, CleanList, SaysOn, SaysOff, Clear, AgentRow,
              rsb_get_power_status
  <2>3. RequestsOK("rsb", ShellTable["rsb"])
      BY <2>1
          DEF RequestsOK, SetOK, CleanSet, Buttons, AgentRow, rsb_main, Having, Main, Card,
              rsb_set_power_status, Set
  <2>4. /\ ShellTable["rsb"].main.device_opt = {"passwd", "secure", "telnet", "ipaddr", "login",
              "cmd_prompt"}
        /\ ShellTable["rsb"].main.defaults = {"ipport_unless_ssh", "cmd_prompt"}
        /\ ShellTable["rsb"].main.fns = {"get", "set"}
        /\ ShellTable["rsb"].main.session = "pipe" /\ ShellTable["rsb"].names = "plug"
        /\ Len(ShellTable["rsb"].main.steps) = 1
        /\ ShellTable["rsb"].main.steps[1] = "fence_login"
      BY <2>1
          DEF AgentRow, rsb_main, Having, Main, Card
  <2>5. MainOK("rsb", ShellTable["rsb"])
      BY <2>4 DEF MainOK, DelayOK, CleanMain, StepOK, LoginOK, NamesOK,
              DelaySteps
  <2> QED BY <2>2, <2>3, <2>5 DEF RowOK
<1>brocade. RowOK("brocade", ShellTable["brocade"])
  <2>1. ShellTable["brocade"] = AgentRow(brocade_main, brocade_get_power_status,
              brocade_set_power_status, brocade_get_power_status, <<>>, "plug")
      BY DEF ShellTable
  <2>2. AnswersOK("brocade", ShellTable["brocade"])
      BY <2>1
          DEF AnswersOK, OffOK, CleanGet, CleanList, SaysOn, SaysOff, Clear, AgentRow,
              brocade_get_power_status
  <2>3. RequestsOK("brocade", ShellTable["brocade"])
      BY <2>1
          DEF RequestsOK, SetOK, CleanSet, Buttons, AgentRow, brocade_main, Having, Main,
              Card, brocade_set_power_status, Set
  <2>4. /\ ShellTable["brocade"].main.device_opt = {"port", "passwd", "secure", "telnet", "ipaddr",
              "login", "fabric_fencing", "cmd_prompt"}
        /\ ShellTable["brocade"].main.defaults = {"cmd_prompt"}
        /\ ShellTable["brocade"].main.fns = {"get", "set", "list"}
        /\ ShellTable["brocade"].main.session = "pipe" /\ ShellTable["brocade"].names =
              "plug"
        /\ Len(ShellTable["brocade"].main.steps) = 1
        /\ ShellTable["brocade"].main.steps[1] = "fence_login"
      BY <2>1
          DEF AgentRow, brocade_main, Having, Main, Card
  <2>5. MainOK("brocade", ShellTable["brocade"])
      BY <2>4 DEF MainOK, DelayOK, CleanMain, StepOK, LoginOK, NamesOK,
              DelaySteps
  <2> QED BY <2>2, <2>3, <2>5 DEF RowOK
<1>ilo_ssh. RowOK("ilo_ssh", ShellTable["ilo_ssh"])
  <2>1. ShellTable["ilo_ssh"] = AgentRow(ilo_ssh_main, ilo_ssh_get_power_status,
              ilo_ssh_set_power_status, <<>>, ilo_ssh_reboot_cycle, "plug")
      BY DEF ShellTable
  <2>2. AnswersOK("ilo_ssh", ShellTable["ilo_ssh"])
      BY <2>1, TakenFacts
          DEF AnswersOK, OffOK, CleanGet, CleanList, SaysOn, SaysOff, Clear, AgentRow,
              ilo_ssh_get_power_status
  <2>3. RequestsOK("ilo_ssh", ShellTable["ilo_ssh"])
      BY <2>1
          DEF RequestsOK, SetOK, CleanSet, Buttons, AgentRow, ilo_ssh_main, Having, Main,
              Card, ilo_ssh_set_power_status, Set, ilo_ssh_reboot_cycle, Cycled
  <2>4. /\ ShellTable["ilo_ssh"].main.device_opt = {"method", "passwd", "secure", "telnet",
              "ipaddr", "login", "cmd_prompt"}
        /\ ShellTable["ilo_ssh"].main.defaults = {"cmd_prompt"}
        /\ ShellTable["ilo_ssh"].main.fns = {"get", "set", "cycle"}
        /\ ShellTable["ilo_ssh"].main.session = "pipe" /\ ShellTable["ilo_ssh"].names =
              "plug"
        /\ Len(ShellTable["ilo_ssh"].main.steps) = 2
        /\ ShellTable["ilo_ssh"].main.steps[1] = "fence_login"
        /\ ShellTable["ilo_ssh"].main.steps[2] = "SMCLP"
      BY <2>1
          DEF AgentRow, ilo_ssh_main, Having, Main, Card
  <2>5. MainOK("ilo_ssh", ShellTable["ilo_ssh"])
      BY <2>4 DEF MainOK, DelayOK, CleanMain, StepOK, LoginOK, NamesOK,
              DelaySteps
  <2> QED BY <2>2, <2>3, <2>5 DEF RowOK
<1>raritan. RowOK("raritan", ShellTable["raritan"])
  <2>1. ShellTable["raritan"] = AgentRow(raritan_main, raritan_get_power_status,
              raritan_set_power_status, <<>>, <<>>, "plug")
      BY DEF ShellTable
  <2>2. AnswersOK("raritan", ShellTable["raritan"])
      BY <2>1
          DEF AnswersOK, OffOK, CleanGet, CleanList, SaysOn, SaysOff, Clear, AgentRow,
              raritan_get_power_status
  <2>3. RequestsOK("raritan", ShellTable["raritan"])
      BY <2>1
          DEF RequestsOK, SetOK, CleanSet, Buttons, AgentRow, raritan_main, Having, Main,
              raritan_set_power_status, Set
  <2>4. /\ ShellTable["raritan"].main.fns = {"get", "set"}
        /\ ShellTable["raritan"].main.session = "pipe" /\ ShellTable["raritan"].names =
              "plug"
        /\ Len(ShellTable["raritan"].main.steps) = 3
        /\ ShellTable["raritan"].main.steps[1] = "run_delay"
        /\ ShellTable["raritan"].main.steps[2] = "open"
        /\ ShellTable["raritan"].main.steps[3] = "monitor_returns"
      BY <2>1
          DEF AgentRow, raritan_main, Having, Main
  <2>5. MainOK("raritan", ShellTable["raritan"])
      BY <2>4 DEF MainOK, DelayOK, CleanMain, StepOK, LoginOK, NamesOK,
              DelaySteps
  <2> QED BY <2>2, <2>3, <2>5 DEF RowOK
<1>netio. RowOK("netio", ShellTable["netio"])
  <2>1. ShellTable["netio"] = AgentRow(netio_main, netio_get_power_status,
              netio_set_power_status, netio_get_outlet_list, <<>>, "plug")
      BY DEF ShellTable
  <2>2. AnswersOK("netio", ShellTable["netio"])
      BY <2>1
          DEF AnswersOK, OffOK, CleanGet, CleanList, SaysOn, SaysOff, Clear, AgentRow,
              netio_get_power_status, netio_get_outlet_list
  <2>3. RequestsOK("netio", ShellTable["netio"])
      BY <2>1
          DEF RequestsOK, SetOK, CleanSet, Buttons, AgentRow, netio_main, Having, Main,
              netio_set_power_status, Set
  <2>4. /\ ShellTable["netio"].main.fns = {"get", "set", "list"}
        /\ ShellTable["netio"].main.session = "pipe" /\ ShellTable["netio"].names = "plug"
        /\ Len(ShellTable["netio"].main.steps) = 2
        /\ ShellTable["netio"].main.steps[1] = "run_delay"
        /\ ShellTable["netio"].main.steps[2] = "open"
      BY <2>1
          DEF AgentRow, netio_main, Having, Main
  <2>5. MainOK("netio", ShellTable["netio"])
      BY <2>4 DEF MainOK, DelayOK, CleanMain, StepOK, LoginOK, NamesOK,
              DelaySteps
  <2> QED BY <2>2, <2>3, <2>5 DEF RowOK
<1>virsh. RowOK("virsh", ShellTable["virsh"])
  <2>1. ShellTable["virsh"] = AgentRow(virsh_main, virsh_get_power_status,
              virsh_set_power_status, virsh_get_outlets_status, <<>>, "uuid")
      BY DEF ShellTable
  <2>2. AnswersOK("virsh", ShellTable["virsh"])
      BY <2>1, TakenFacts
          DEF AnswersOK, OffOK, CleanGet, CleanList, SaysOn, SaysOff, Clear, AgentRow,
              virsh_get_power_status, virsh_get_outlets_status
  <2>3. RequestsOK("virsh", ShellTable["virsh"])
      BY <2>1
          DEF RequestsOK, SetOK, CleanSet, Buttons, AgentRow, virsh_main, Having, Main,
              Card, virsh_set_power_status, Set
  <2>4. /\ ShellTable["virsh"].main.device_opt = {"port", "passwd", "secure", "ipaddr", "login",
              "cmd_prompt", "sudo", "missing_as_off"}
        /\ ShellTable["virsh"].main.defaults = {"secure", "cmd_prompt"}
        /\ ShellTable["virsh"].main.fns = {"get", "set", "list"}
        /\ ShellTable["virsh"].main.session = "pipe" /\ ShellTable["virsh"].names = "uuid"
        /\ Len(ShellTable["virsh"].main.steps) = 1
        /\ ShellTable["virsh"].main.steps[1] = "fence_login"
      BY <2>1
          DEF AgentRow, virsh_main, Having, Main, Card
  <2>5. MainOK("virsh", ShellTable["virsh"])
      BY <2>4 DEF MainOK, DelayOK, CleanMain, StepOK, LoginOK, NamesOK,
              DelaySteps
  <2> QED BY <2>2, <2>3, <2>5 DEF RowOK
<1>rcd_serial. RowOK("rcd_serial", ShellTable["rcd_serial"])
  <2>1. ShellTable["rcd_serial"] = AgentRow(rcd_serial_main, <<>>, <<>>, <<>>,
              rcd_serial_reboot_device, "plug")
      BY DEF ShellTable
  <2>2. AnswersOK("rcd_serial", ShellTable["rcd_serial"])
      BY <2>1
          DEF AnswersOK, OffOK, CleanGet, CleanList, SaysOn, SaysOff, Clear, AgentRow
  <2>3. RequestsOK("rcd_serial", ShellTable["rcd_serial"])
      BY <2>1
          DEF RequestsOK, SetOK, CleanSet, Buttons, AgentRow, rcd_serial_main, Main,
              rcd_serial_reboot_device, Cycled
  <2>4. /\ ShellTable["rcd_serial"].main.device_opt = {"method", "no_status", "no_login",
              "no_password", "no_on", "no_off", "serial_port"}
        /\ ShellTable["rcd_serial"].main.defaults = {}
        /\ ShellTable["rcd_serial"].main.fns = {"cycle"}
        /\ ShellTable["rcd_serial"].main.session = "pipe" /\ ShellTable["rcd_serial"].names
              = "plug"
        /\ Len(ShellTable["rcd_serial"].main.steps) = 2
        /\ ShellTable["rcd_serial"].main.steps[1] = "time_sleep"
        /\ ShellTable["rcd_serial"].main.steps[2] = "open"
      BY <2>1
          DEF AgentRow, rcd_serial_main, Main
  <2>5. MainOK("rcd_serial", ShellTable["rcd_serial"])
      BY <2>4 DEF MainOK, DelayOK, CleanMain, StepOK, LoginOK, NamesOK,
              DelaySteps
  <2> QED BY <2>2, <2>3, <2>5 DEF RowOK
<1>ldom. RowOK("ldom", ShellTable["ldom"])
  <2>1. ShellTable["ldom"] = AgentRow(ldom_main, ldom_get_power_status,
              ldom_set_power_status, ldom_get_power_status, <<>>, "plug")
      BY DEF ShellTable
  <2>2. AnswersOK("ldom", ShellTable["ldom"])
      BY <2>1
          DEF AnswersOK, OffOK, CleanGet, CleanList, SaysOn, SaysOff, Clear, AgentRow,
              ldom_get_power_status
  <2>3. RequestsOK("ldom", ShellTable["ldom"])
      BY <2>1
          DEF RequestsOK, SetOK, CleanSet, Buttons, AgentRow, ldom_main, Having, Main, Card,
              ldom_set_power_status, Set
  <2>4. /\ ShellTable["ldom"].main.device_opt = {"port", "passwd", "secure", "ipaddr", "login",
              "cmd_prompt"}
        /\ ShellTable["ldom"].main.defaults = {"secure", "cmd_prompt"}
        /\ ShellTable["ldom"].main.fns = {"get", "set", "list"}
        /\ ShellTable["ldom"].main.session = "pipe" /\ ShellTable["ldom"].names = "plug"
        /\ Len(ShellTable["ldom"].main.steps) = 1
        /\ ShellTable["ldom"].main.steps[1] = "fence_login"
      BY <2>1
          DEF AgentRow, ldom_main, Having, Main, Card
  <2>5. MainOK("ldom", ShellTable["ldom"])
      BY <2>4 DEF MainOK, DelayOK, CleanMain, StepOK, LoginOK, NamesOK,
              DelaySteps
  <2> QED BY <2>2, <2>3, <2>5 DEF RowOK
<1>bladecenter. RowOK("bladecenter", ShellTable["bladecenter"])
  <2>1. ShellTable["bladecenter"] = AgentRow(bladecenter_main,
              bladecenter_get_power_status, bladecenter_set_power_status,
              bladecenter_get_blades_list, <<>>, "plug")
      BY DEF ShellTable
  <2>2. AnswersOK("bladecenter", ShellTable["bladecenter"])
      BY <2>1
          DEF AnswersOK, OffOK, CleanGet, CleanList, SaysOn, SaysOff, Clear, AgentRow,
              bladecenter_get_power_status, bladecenter_get_blades_list
  <2>3. RequestsOK("bladecenter", ShellTable["bladecenter"])
      BY <2>1
          DEF RequestsOK, SetOK, CleanSet, Buttons, AgentRow, bladecenter_main, Having,
              Main, Card, bladecenter_set_power_status, Set
  <2>4. /\ ShellTable["bladecenter"].main.device_opt = {"port", "passwd", "secure", "telnet",
              "ipaddr", "login", "cmd_prompt", "missing_as_off"}
        /\ ShellTable["bladecenter"].main.defaults = {"cmd_prompt"}
        /\ ShellTable["bladecenter"].main.fns = {"get", "set", "list"}
        /\ ShellTable["bladecenter"].main.session = "pipe" /\
              ShellTable["bladecenter"].names = "plug"
        /\ Len(ShellTable["bladecenter"].main.steps) = 1
        /\ ShellTable["bladecenter"].main.steps[1] = "fence_login"
      BY <2>1
          DEF AgentRow, bladecenter_main, Having, Main, Card
  <2>5. MainOK("bladecenter", ShellTable["bladecenter"])
      BY <2>4 DEF MainOK, DelayOK, CleanMain, StepOK, LoginOK, NamesOK,
              DelaySteps
  <2> QED BY <2>2, <2>3, <2>5 DEF RowOK
<1>crosslink. RowOK("crosslink", ShellTable["crosslink"])
  <2>1. ShellTable["crosslink"] = AgentRow(crosslink_main, crosslink_get_power_status,
              crosslink_set_power_status, <<>>, <<>>, "plug")
      BY DEF ShellTable
  <2>2. AnswersOK("crosslink", ShellTable["crosslink"])
      BY <2>1, TakenFacts
          DEF AnswersOK, OffOK, CleanGet, CleanList, SaysOn, SaysOff, Clear, AgentRow,
              crosslink_get_power_status
  <2>3. RequestsOK("crosslink", ShellTable["crosslink"])
      BY <2>1
          DEF RequestsOK, SetOK, CleanSet, Buttons, AgentRow, crosslink_main, Main,
              crosslink_set_power_status, Set
  <2>4. /\ ShellTable["crosslink"].main.fns = {"get", "set"}
        /\ ShellTable["crosslink"].main.session = "none" /\ ShellTable["crosslink"].names =
              "plug"
        /\ Len(ShellTable["crosslink"].main.steps) = 1
        /\ ShellTable["crosslink"].main.steps[1] = "run_delay"
      BY <2>1
          DEF AgentRow, crosslink_main, Main
  <2>5. MainOK("crosslink", ShellTable["crosslink"])
      BY <2>4 DEF MainOK, DelayOK, CleanMain, StepOK, LoginOK, NamesOK,
              DelaySteps
  <2> QED BY <2>2, <2>3, <2>5 DEF RowOK
<1>hds_cb. RowOK("hds_cb", ShellTable["hds_cb"])
  <2>1. ShellTable["hds_cb"] = AgentRow(hds_cb_main, hds_cb_get_power_status,
              hds_cb_set_power_status, hds_cb_get_blades_list, <<>>, "plug")
      BY DEF ShellTable
  <2>2. AnswersOK("hds_cb", ShellTable["hds_cb"])
      BY <2>1
          DEF AnswersOK, OffOK, CleanGet, CleanList, SaysOn, SaysOff, Clear, AgentRow,
              hds_cb_get_power_status, hds_cb_get_blades_list
  <2>3. RequestsOK("hds_cb", ShellTable["hds_cb"])
      BY <2>1
          DEF RequestsOK, SetOK, CleanSet, Buttons, AgentRow, hds_cb_main, Having, Main,
              Card, hds_cb_set_power_status, Set
  <2>4. /\ ShellTable["hds_cb"].main.device_opt = {"port", "passwd", "secure", "telnet", "ipaddr",
              "login", "cmd_prompt", "missing_as_off"}
        /\ ShellTable["hds_cb"].main.defaults = {"cmd_prompt"}
        /\ ShellTable["hds_cb"].main.fns = {"get", "set", "list"}
        /\ ShellTable["hds_cb"].main.session = "pipe" /\ ShellTable["hds_cb"].names = "plug"
        /\ Len(ShellTable["hds_cb"].main.steps) = 1
        /\ ShellTable["hds_cb"].main.steps[1] = "fence_login"
      BY <2>1
          DEF AgentRow, hds_cb_main, Having, Main, Card
  <2>5. MainOK("hds_cb", ShellTable["hds_cb"])
      BY <2>4 DEF MainOK, DelayOK, CleanMain, StepOK, LoginOK, NamesOK,
              DelaySteps
  <2> QED BY <2>2, <2>3, <2>5 DEF RowOK
<1>hpblade. RowOK("hpblade", ShellTable["hpblade"])
  <2>1. ShellTable["hpblade"] = AgentRow(hpblade_main, hpblade_get_power_status,
              hpblade_set_power_status, hpblade_get_instances_list, <<>>, "plug")
      BY DEF ShellTable
  <2>2. AnswersOK("hpblade", ShellTable["hpblade"])
      BY <2>1
          DEF AnswersOK, OffOK, CleanGet, CleanList, SaysOn, SaysOff, Clear, AgentRow,
              hpblade_get_power_status, hpblade_get_instances_list
  <2>3. RequestsOK("hpblade", ShellTable["hpblade"])
      BY <2>1
          DEF RequestsOK, SetOK, CleanSet, Buttons, AgentRow, hpblade_main, Having, Main,
              Card, hpblade_set_power_status, Set
  <2>4. /\ ShellTable["hpblade"].main.device_opt = {"port", "passwd", "secure", "telnet", "ipaddr",
              "login", "cmd_prompt", "missing_as_off"}
        /\ ShellTable["hpblade"].main.defaults = {"cmd_prompt"}
        /\ ShellTable["hpblade"].main.fns = {"get", "set", "list"}
        /\ ShellTable["hpblade"].main.session = "pipe" /\ ShellTable["hpblade"].names =
              "plug"
        /\ Len(ShellTable["hpblade"].main.steps) = 2
        /\ ShellTable["hpblade"].main.steps[1] = "fence_login"
        /\ ShellTable["hpblade"].main.steps[2] = "get_enclosure_type"
      BY <2>1
          DEF AgentRow, hpblade_main, Having, Main, Card
  <2>5. MainOK("hpblade", ShellTable["hpblade"])
      BY <2>4 DEF MainOK, DelayOK, CleanMain, StepOK, LoginOK, NamesOK,
              DelaySteps
  <2> QED BY <2>2, <2>3, <2>5 DEF RowOK
<1>amt. RowOK("amt", ShellTable["amt"])
  <2>1. ShellTable["amt"] = AgentRow(amt_main, amt_get_power_status,
              amt_set_power_status, <<>>, amt_reboot_cycle, "plug")
      BY DEF ShellTable
  <2>2. AnswersOK("amt", ShellTable["amt"])
      BY <2>1, TakenFacts
          DEF AnswersOK, OffOK, CleanGet, CleanList, SaysOn, SaysOff, Clear, AgentRow,
              amt_get_power_status
  <2>3. RequestsOK("amt", ShellTable["amt"])
      BY <2>1
          DEF RequestsOK, SetOK, CleanSet, Buttons, AgentRow, amt_main, Having, Main,
              amt_set_power_status, Set, amt_reboot_cycle, Cycled
  <2>4. /\ ShellTable["amt"].main.fns = {"get", "set", "cycle"}
        /\ ShellTable["amt"].main.session = "none" /\ ShellTable["amt"].names = "plug"
        /\ Len(ShellTable["amt"].main.steps) = 2
        /\ ShellTable["amt"].main.steps[1] = "run_delay"
        /\ ShellTable["amt"].main.steps[2] = "is_executable"
      BY <2>1
          DEF AgentRow, amt_main, Having, Main
  <2>5. MainOK("amt", ShellTable["amt"])
      BY <2>4 DEF MainOK, DelayOK, CleanMain, StepOK, LoginOK, NamesOK,
              DelaySteps
  <2> QED BY <2>2, <2>3, <2>5 DEF RowOK
<1>ironic. RowOK("ironic", ShellTable["ironic"])
  <2>1. ShellTable["ironic"] = AgentRow(ironic_main, ironic_get_power_status,
              ironic_set_power_status, ironic_get_devices_list, <<>>, "uuid")
      BY DEF ShellTable
  <2>2. AnswersOK("ironic", ShellTable["ironic"])
      BY <2>1
          DEF AnswersOK, OffOK, CleanGet, CleanList, SaysOn, SaysOff, Clear, AgentRow,
              ironic_get_power_status, ironic_get_devices_list
  <2>3. RequestsOK("ironic", ShellTable["ironic"])
      BY <2>1
          DEF RequestsOK, SetOK, CleanSet, Buttons, AgentRow, ironic_main, Main,
              ironic_set_power_status, Set
  <2>4. /\ ShellTable["ironic"].main.fns = {"get", "set", "list"}
        /\ ShellTable["ironic"].main.session = "none" /\ ShellTable["ironic"].names = "uuid"
        /\ Len(ShellTable["ironic"].main.steps) = 2
        /\ ShellTable["ironic"].main.steps[1] = "run_delay"
        /\ ShellTable["ironic"].main.steps[2] = "is_executable"
      BY <2>1
          DEF AgentRow, ironic_main, Main
  <2>5. MainOK("ironic", ShellTable["ironic"])
      BY <2>4 DEF MainOK, DelayOK, CleanMain, StepOK, LoginOK, NamesOK,
              DelaySteps
  <2> QED BY <2>2, <2>3, <2>5 DEF RowOK
<1>vbox. RowOK("vbox", ShellTable["vbox"])
  <2>1. ShellTable["vbox"] = AgentRow(vbox_main, vbox_get_power_status,
              vbox_set_power_status, vbox_get_outlets_status, <<>>, "plug")
      BY DEF ShellTable
  <2>2. AnswersOK("vbox", ShellTable["vbox"])
      BY <2>1, TakenFacts
          DEF AnswersOK, OffOK, CleanGet, CleanList, SaysOn, SaysOff, Clear, AgentRow,
              vbox_get_power_status, vbox_get_outlets_status
  <2>3. RequestsOK("vbox", ShellTable["vbox"])
      BY <2>1
          DEF RequestsOK, SetOK, CleanSet, Buttons, AgentRow, vbox_main, Having, Main, Card,
              vbox_set_power_status, Set
  <2>4. /\ ShellTable["vbox"].main.device_opt = {"port", "passwd", "secure", "ipaddr", "login",
              "cmd_prompt", "sudo", "missing_as_off", "vboxmanage_path", "host_os"}
        /\ ShellTable["vbox"].main.defaults = {"secure", "cmd_prompt"}
        /\ ShellTable["vbox"].main.fns = {"get", "set", "list"}
        /\ ShellTable["vbox"].main.session = "pipe" /\ ShellTable["vbox"].names = "plug"
        /\ Len(ShellTable["vbox"].main.steps) = 1
        /\ ShellTable["vbox"].main.steps[1] = "fence_login"
      BY <2>1
          DEF AgentRow, vbox_main, Having, Main, Card
  <2>5. MainOK("vbox", ShellTable["vbox"])
      BY <2>4 DEF MainOK, DelayOK, CleanMain, StepOK, LoginOK, NamesOK,
              DelaySteps
  <2> QED BY <2>2, <2>3, <2>5 DEF RowOK
<1>drac5. RowOK("drac5", ShellTable["drac5"])
  <2>1. ShellTable["drac5"] = AgentRow(drac5_main, drac5_get_power_status,
              drac5_set_power_status, drac5_get_list_devices, <<>>, "plug")
      BY DEF ShellTable
  <2>2. AnswersOK("drac5", ShellTable["drac5"])
      BY <2>1
          DEF AnswersOK, OffOK, CleanGet, CleanList, SaysOn, SaysOff, Clear, AgentRow,
              drac5_get_power_status, drac5_get_list_devices
  <2>3. RequestsOK("drac5", ShellTable["drac5"])
      BY <2>1
          DEF RequestsOK, SetOK, CleanSet, Buttons, AgentRow, drac5_main, Having, Main,
              Card, drac5_set_power_status, Set
  <2>4. /\ ShellTable["drac5"].main.device_opt = {"port", "passwd", "secure", "telnet", "ipaddr",
              "login", "no_port", "cmd_prompt", "drac_version"}
        /\ ShellTable["drac5"].main.defaults = {"cmd_prompt"}
        /\ ShellTable["drac5"].main.fns = {"get", "set", "list"}
        /\ ShellTable["drac5"].main.session = "pipe" /\ ShellTable["drac5"].names = "plug"
        /\ Len(ShellTable["drac5"].main.steps) = 2
        /\ ShellTable["drac5"].main.steps[1] = "fence_login"
        /\ ShellTable["drac5"].main.steps[2] = "drac_version"
      BY <2>1
          DEF AgentRow, drac5_main, Having, Main, Card
  <2>5. MainOK("drac5", ShellTable["drac5"])
      BY <2>4 DEF MainOK, DelayOK, CleanMain, StepOK, LoginOK, NamesOK,
              DelaySteps
  <2> QED BY <2>2, <2>3, <2>5 DEF RowOK
<1>sanbox2. RowOK("sanbox2", ShellTable["sanbox2"])
  <2>1. ShellTable["sanbox2"] = AgentRow(sanbox2_main, sanbox2_get_power_status,
              sanbox2_set_power_status, sanbox2_get_list_devices, <<>>, "plug")
      BY DEF ShellTable
  <2>2. AnswersOK("sanbox2", ShellTable["sanbox2"])
      BY <2>1
          DEF AnswersOK, OffOK, CleanGet, CleanList, SaysOn, SaysOff, Clear, AgentRow,
              sanbox2_get_power_status, sanbox2_get_list_devices
  <2>3. RequestsOK("sanbox2", ShellTable["sanbox2"])
      BY <2>1
          DEF RequestsOK, SetOK, CleanSet, Buttons, AgentRow, sanbox2_main, Having, Main,
              sanbox2_set_power_status, Set
  <2>4. /\ ShellTable["sanbox2"].main.device_opt = {"port", "passwd", "telnet", "ipaddr", "login",
              "fabric_fencing", "cmd_prompt"}
        /\ ShellTable["sanbox2"].main.defaults = {"cmd_prompt"}
        /\ ShellTable["sanbox2"].main.fns = {"get", "set", "list"}
        /\ ShellTable["sanbox2"].main.session = "pipe" /\ ShellTable["sanbox2"].names =
              "plug"
        /\ Len(ShellTable["sanbox2"].main.steps) = 2
        /\ ShellTable["sanbox2"].main.steps[1] = "fence_login"
        /\ ShellTable["sanbox2"].main.steps[2] = "admin_start"
      BY <2>1
          DEF AgentRow, sanbox2_main, Having, Main
  <2>5. MainOK("sanbox2", ShellTable["sanbox2"])
      BY <2>4 DEF MainOK, DelayOK, CleanMain, StepOK, LoginOK, NamesOK,
              DelaySteps
  <2> QED BY <2>2, <2>3, <2>5 DEF RowOK
<1>ilo. RowOK("ilo", ShellTable["ilo"])
  <2>1. ShellTable["ilo"] = AgentRow(ilo_main, ilo_get_power_status,
              ilo_set_power_status("RIBCL_222"), <<>>, <<>>, "plug")
      BY DEF ShellTable
  <2>2. AnswersOK("ilo", ShellTable["ilo"])
      BY <2>1
          DEF AnswersOK, OffOK, CleanGet, CleanList, SaysOn, SaysOff, Clear, AgentRow,
              ilo_get_power_status
  <2>3. RequestsOK("ilo", ShellTable["ilo"])
      BY <2>1
          DEF RequestsOK, SetOK, CleanSet, Buttons, AgentRow, SaysOn, ilo_main, Having,
              Main, ilo_set_power_status, Set, ilo_get_power_status
  <2>4. /\ ShellTable["ilo"].main.device_opt = {"passwd", "ipaddr", "ssl", "login", "notls",
              "tls1.0", "ribcl"}
        /\ ShellTable["ilo"].main.defaults = {"ssl"}
        /\ ShellTable["ilo"].main.fns = {"get", "set"}
        /\ ShellTable["ilo"].main.session = "pipe" /\ ShellTable["ilo"].names = "plug"
        /\ Len(ShellTable["ilo"].main.steps) = 2
        /\ ShellTable["ilo"].main.steps[1] = "fence_login"
        /\ ShellTable["ilo"].main.steps[2] = "ribcl_version"
      BY <2>1
          DEF AgentRow, ilo_main, Having, Main
  <2>5. MainOK("ilo", ShellTable["ilo"])
      BY <2>4 DEF MainOK, DelayOK, CleanMain, StepOK, LoginOK, NamesOK,
              DelaySteps
  <2> QED BY <2>2, <2>3, <2>5 DEF RowOK
<1>ilo_old. RowOK("ilo_old", ShellTable["ilo_old"])
  <2>1. ShellTable["ilo_old"] = AgentRow(ilo_main, ilo_get_power_status,
              ilo_set_power_status("RIBCL_200"), <<>>, <<>>, "plug")
      BY DEF ShellTable
  <2>2. AnswersOK("ilo_old", ShellTable["ilo_old"])
      BY <2>1
          DEF AnswersOK, OffOK, CleanGet, CleanList, SaysOn, SaysOff, Clear, AgentRow,
              ilo_get_power_status
  <2>3. RequestsOK("ilo_old", ShellTable["ilo_old"])
      BY <2>1
          DEF RequestsOK, SetOK, CleanSet, Buttons, AgentRow, ilo_main, Having, Main,
              ilo_set_power_status, Set
  <2>4. /\ ShellTable["ilo_old"].main.device_opt = {"passwd", "ipaddr", "ssl", "login", "notls",
              "tls1.0", "ribcl"}
        /\ ShellTable["ilo_old"].main.defaults = {"ssl"}
        /\ ShellTable["ilo_old"].main.fns = {"get", "set"}
        /\ ShellTable["ilo_old"].main.session = "pipe" /\ ShellTable["ilo_old"].names =
              "plug"
        /\ Len(ShellTable["ilo_old"].main.steps) = 2
        /\ ShellTable["ilo_old"].main.steps[1] = "fence_login"
        /\ ShellTable["ilo_old"].main.steps[2] = "ribcl_version"
      BY <2>1
          DEF AgentRow, ilo_main, Having, Main
  <2>5. MainOK("ilo_old", ShellTable["ilo_old"])
      BY <2>4 DEF MainOK, DelayOK, CleanMain, StepOK, LoginOK, NamesOK,
              DelaySteps
  <2> QED BY <2>2, <2>3, <2>5 DEF RowOK
<1>ilo2. RowOK("ilo2", ShellTable["ilo2"])
  <2>1. ShellTable["ilo2"] = AgentRow(ilo_main, ilo_get_power_status,
              ilo_set_power_status("iLO2"), <<>>, <<>>, "plug")
      BY DEF ShellTable
  <2>2. AnswersOK("ilo2", ShellTable["ilo2"])
      BY <2>1
          DEF AnswersOK, OffOK, CleanGet, CleanList, SaysOn, SaysOff, Clear, AgentRow,
              ilo_get_power_status
  <2>3. RequestsOK("ilo2", ShellTable["ilo2"])
      BY <2>1
          DEF RequestsOK, SetOK, CleanSet, Buttons, AgentRow, SaysOn, ilo_main, Having,
              Main, ilo_set_power_status, Set, ilo_get_power_status
  <2>4. /\ ShellTable["ilo2"].main.device_opt = {"passwd", "ipaddr", "ssl", "login", "notls",
              "tls1.0", "ribcl"}
        /\ ShellTable["ilo2"].main.defaults = {"ssl"}
        /\ ShellTable["ilo2"].main.fns = {"get", "set"}
        /\ ShellTable["ilo2"].main.session = "pipe" /\ ShellTable["ilo2"].names = "plug"
        /\ Len(ShellTable["ilo2"].main.steps) = 2
        /\ ShellTable["ilo2"].main.steps[1] = "fence_login"
        /\ ShellTable["ilo2"].main.steps[2] = "ribcl_version"
      BY <2>1
          DEF AgentRow, ilo_main, Having, Main
  <2>5. MainOK("ilo2", ShellTable["ilo2"])
      BY <2>4 DEF MainOK, DelayOK, CleanMain, StepOK, LoginOK, NamesOK,
              DelaySteps
  <2> QED BY <2>2, <2>3, <2>5 DEF RowOK
<1>eps. RowOK("eps", ShellTable["eps"])
  <2>1. ShellTable["eps"] = AgentRow(eps_main, eps_get_power_status,
              eps_set_power_status, eps_get_power_status, <<>>, "plug")
      BY DEF ShellTable
  <2>2. AnswersOK("eps", ShellTable["eps"])
      BY <2>1
          DEF AnswersOK, OffOK, CleanGet, CleanList, SaysOn, SaysOff, Clear, AgentRow,
              eps_get_power_status, eps_eps_run_command
  <2>3. RequestsOK("eps", ShellTable["eps"])
      BY <2>1
          DEF RequestsOK, SetOK, CleanSet, Buttons, AgentRow, eps_main, Main,
              eps_set_power_status, Set, eps_eps_run_command
  <2>4. /\ ShellTable["eps"].main.fns = {"get", "set", "list"}
        /\ ShellTable["eps"].main.session = "none" /\ ShellTable["eps"].names = "plug"
        /\ Len(ShellTable["eps"].main.steps) = 1
        /\ ShellTable["eps"].main.steps[1] = "run_delay"
      BY <2>1
          DEF AgentRow, eps_main, Main
  <2>5. MainOK("eps", ShellTable["eps"])
      BY <2>4 DEF MainOK, DelayOK, CleanMain, StepOK, LoginOK, NamesOK,
              DelaySteps
  <2> QED BY <2>2, <2>3, <2>5 DEF RowOK
<1>lpar. RowOK("lpar", ShellTable["lpar"])
  <2>1. ShellTable["lpar"] = AgentRow(lpar_main, lpar_get_power_status,
              lpar_set_power_status, lpar_get_lpar_list, <<>>, "plug")
      BY DEF ShellTable
  <2>2. AnswersOK("lpar", ShellTable["lpar"])
      BY <2>1, TakenFacts
          DEF AnswersOK, OffOK, CleanGet, CleanList, SaysOn, SaysOff, Clear, AgentRow,
              lpar_get_power_status, @@, lpar__normalize_status, lpar_get_lpar_list
  <2>3. RequestsOK("lpar", ShellTable["lpar"])
      BY <2>1
          DEF RequestsOK, SetOK, CleanSet, Buttons, AgentRow, lpar_main, Having, Main, Card,
              lpar_set_power_status, Set
  <2>4. /\ ShellTable["lpar"].main.device_opt = {"port", "passwd", "secure", "ipaddr", "login",
              "managed", "cmd_prompt", "hmc_version"}
        /\ ShellTable["lpar"].main.defaults = {"secure", "cmd_prompt"}
        /\ ShellTable["lpar"].main.fns = {"get", "set", "list"}
        /\ ShellTable["lpar"].main.session = "pipe" /\ ShellTable["lpar"].names = "plug"
        /\ Len(ShellTable["lpar"].main.steps) = 3
        /\ ShellTable["lpar"].main.steps[1] = "managed_given"
        /\ ShellTable["lpar"].main.steps[2] = "validate_all"
        /\ ShellTable["lpar"].main.steps[3] = "fence_login"
      BY <2>1
          DEF AgentRow, lpar_main, Having, Main, Card
  <2>5. MainOK("lpar", ShellTable["lpar"])
      BY <2>4 DEF MainOK, DelayOK, CleanMain, StepOK, LoginOK, NamesOK,
              DelaySteps
  <2> QED BY <2>2, <2>3, <2>5 DEF RowOK
<1>wti. RowOK("wti", ShellTable["wti"])
  <2>1. ShellTable["wti"] = AgentRow(wti_main, wti_get_power_status,
              wti_set_power_status, wti_get_outlet_list, <<>>, "plug")
      BY DEF ShellTable
  <2>2. AnswersOK("wti", ShellTable["wti"])
      BY <2>1, TakenFacts
          DEF AnswersOK, OffOK, CleanGet, CleanList, SaysOn, SaysOff, Clear, AgentRow,
              wti_get_power_status, @@, wti_get_plug_status, wti_get_plug_group_status,
              wti_get_plug_group_status_from_list, wti_get_outlet_list
  <2>3. RequestsOK("wti", ShellTable["wti"])
      BY <2>1
          DEF RequestsOK, SetOK, CleanSet, Buttons, AgentRow, wti_main, Having, Main, Card,
              wti_set_power_status, Set
  <2>4. /\ ShellTable["wti"].main.device_opt = {"port", "passwd", "secure", "telnet", "ipaddr",
              "login", "no_login", "no_password", "cmd_prompt"}
        /\ ShellTable["wti"].main.defaults = {"cmd_prompt"}
        /\ ShellTable["wti"].main.fns = {"get", "set", "list"}
        /\ ShellTable["wti"].main.session = "pipe" /\ ShellTable["wti"].names = "plug"
        /\ Len(ShellTable["wti"].main.steps) = 3
        /\ ShellTable["wti"].main.steps[1] = "time_sleep"
        /\ ShellTable["wti"].main.steps[2] = "prompts"
        /\ ShellTable["wti"].main.steps[3] = "fence_login"
      BY <2>1
          DEF AgentRow, wti_main, Having, Main, Card
  <2>5. MainOK("wti", ShellTable["wti"])
      BY <2>4 DEF MainOK, DelayOK, CleanMain, StepOK, LoginOK, NamesOK,
              DelaySteps
  <2> QED BY <2>2, <2>3, <2>5 DEF RowOK
<1>apc. RowOK("apc", ShellTable["apc"])
  <2>1. ShellTable["apc"] = AgentRow(apc_main, apc_get_power_status,
              apc_set_power_status, apc_get_power_status, <<>>, "plug")
      BY DEF ShellTable
  <2>2. AnswersOK("apc", ShellTable["apc"])
      BY <2>1
          DEF AnswersOK, OffOK, CleanGet, CleanList, SaysOn, SaysOff, Clear, AgentRow,
              apc_get_power_status
  <2>3. RequestsOK("apc", ShellTable["apc"])
      BY <2>1
          DEF RequestsOK, SetOK, CleanSet, Buttons, AgentRow, apc_main, Having, Main, Card,
              apc_set_power_status, Set
  <2>4. /\ ShellTable["apc"].main.device_opt = {"port", "passwd", "secure", "telnet", "ipaddr",
              "login", "cmd_prompt", "switch"}
        /\ ShellTable["apc"].main.defaults = {"cmd_prompt"}
        /\ ShellTable["apc"].main.fns = {"get", "set", "list"}
        /\ ShellTable["apc"].main.session = "pipe" /\ ShellTable["apc"].names = "plug"
        /\ Len(ShellTable["apc"].main.steps) = 1
        /\ ShellTable["apc"].main.steps[1] = "fence_login"
      BY <2>1
          DEF AgentRow, apc_main, Having, Main, Card
  <2>5. MainOK("apc", ShellTable["apc"])
      BY <2>4 DEF MainOK, DelayOK, CleanMain, StepOK, LoginOK, NamesOK,
              DelaySteps
  <2> QED BY <2>2, <2>3, <2>5 DEF RowOK
<1>apc5. RowOK("apc5", ShellTable["apc5"])
  <2>1. ShellTable["apc5"] = AgentRow(apc_main, apc_get_power_status5,
              apc_set_power_status5, apc_get_power_status5, <<>>, "plug")
      BY DEF ShellTable
  <2>2. AnswersOK("apc5", ShellTable["apc5"])
      BY <2>1
          DEF AnswersOK, OffOK, CleanGet, CleanList, SaysOn, SaysOff, Clear, AgentRow,
              apc_get_power_status5
  <2>3. RequestsOK("apc5", ShellTable["apc5"])
      BY <2>1
          DEF RequestsOK, SetOK, CleanSet, Buttons, AgentRow, apc_main, Having, Main, Card,
              apc_set_power_status5, Set
  <2>4. /\ ShellTable["apc5"].main.device_opt = {"port", "passwd", "secure", "telnet", "ipaddr",
              "login", "cmd_prompt", "switch"}
        /\ ShellTable["apc5"].main.defaults = {"cmd_prompt"}
        /\ ShellTable["apc5"].main.fns = {"get", "set", "list"}
        /\ ShellTable["apc5"].main.session = "pipe" /\ ShellTable["apc5"].names = "plug"
        /\ Len(ShellTable["apc5"].main.steps) = 1
        /\ ShellTable["apc5"].main.steps[1] = "fence_login"
      BY <2>1
          DEF AgentRow, apc_main, Having, Main, Card
  <2>5. MainOK("apc5", ShellTable["apc5"])
      BY <2>4 DEF MainOK, DelayOK, CleanMain, StepOK, LoginOK, NamesOK,
              DelaySteps
  <2> QED BY <2>2, <2>3, <2>5 DEF RowOK
<1>cdu. RowOK("cdu", ShellTable["cdu"])
  <2>1. ShellTable["cdu"] = AgentRow(cdu_main, cdu_get_power_status,
              cdu_set_power_status, [on |-> "fail", off |-> "fail"], <<>>, "plug")
      BY DEF ShellTable
  <2>2. AnswersOK("cdu", ShellTable["cdu"])
      BY <2>1
          DEF AnswersOK, OffOK, CleanGet, CleanList, SaysOn, SaysOff, Clear, AgentRow,
              cdu_get_power_status
  <2>3. RequestsOK("cdu", ShellTable["cdu"])
      BY <2>1
          DEF RequestsOK, SetOK, CleanSet, Buttons, AgentRow, cdu_main, Main,
              cdu_set_power_status, Set
  <2>4. /\ ShellTable["cdu"].main.device_opt = {"port", "passwd", "telnet", "ipaddr", "login",
              "switch"}
        /\ ShellTable["cdu"].main.defaults = {}
        /\ ShellTable["cdu"].main.fns = {"get", "set", "list"}
        /\ ShellTable["cdu"].main.session = "pipe" /\ ShellTable["cdu"].names = "plug"
        /\ Len(ShellTable["cdu"].main.steps) = 3
        /\ ShellTable["cdu"].main.steps[1] = "set_prompt"
        /\ ShellTable["cdu"].main.steps[2] = "fence_login"
        /\ ShellTable["cdu"].main.steps[3] = "get_version"
      BY <2>1
          DEF AgentRow, cdu_main, Main
  <2>5. MainOK("cdu", ShellTable["cdu"])
      BY <2>4 DEF MainOK, DelayOK, CleanMain, StepOK, LoginOK, NamesOK,
              DelaySteps
  <2> QED BY <2>2, <2>3, <2>5 DEF RowOK
<1>powerman. RowOK("powerman", ShellTable["powerman"])
  <2>1. ShellTable["powerman"] = AgentRow(powerman_main, powerman_get_power_status,
              powerman_set_power_status, powerman_get_power_status, <<>>, "plug")
      BY DEF ShellTable
  <2>2. AnswersOK("powerman", ShellTable["powerman"])
      BY <2>1
          DEF AnswersOK, OffOK, CleanGet, CleanList, SaysOn, SaysOff, Clear, AgentRow,
              powerman_get_power_status, powerman_PowerMan
  <2>3. RequestsOK("powerman", ShellTable["powerman"])
      BY <2>1
          DEF RequestsOK, SetOK, CleanSet, Buttons, AgentRow, powerman_main, Having, Main,
              powerman_set_power_status, Set, powerman_PowerMan
  <2>4. /\ ShellTable["powerman"].main.fns = {"get", "set", "list"}
        /\ ShellTable["powerman"].main.session = "none" /\ ShellTable["powerman"].names =
              "plug"
        /\ Len(ShellTable["powerman"].main.steps) = 2
        /\ ShellTable["powerman"].main.steps[1] = "run_delay"
        /\ ShellTable["powerman"].main.steps[2] = "is_executable"
      BY <2>1
          DEF AgentRow, powerman_main, Having, Main
  <2>5. MainOK("powerman", ShellTable["powerman"])
      BY <2>4 DEF MainOK, DelayOK, CleanMain, StepOK, LoginOK, NamesOK,
              DelaySteps
  <2> QED BY <2>2, <2>3, <2>5 DEF RowOK
<1>ipmilan. RowOK("ipmilan", ShellTable["ipmilan"])
  <2>1. ShellTable["ipmilan"] = AgentRow(ipmilan_main, ipmilan_get_power_status,
              ipmilan_set_power_status, <<>>, ipmilan_reboot_cycle, "plug")
      BY DEF ShellTable
  <2>2. AnswersOK("ipmilan", ShellTable["ipmilan"])
      BY <2>1
          DEF AnswersOK, OffOK, CleanGet, CleanList, SaysOn, SaysOff, Clear, AgentRow,
              ipmilan_get_power_status
  <2>3. RequestsOK("ipmilan", ShellTable["ipmilan"])
      BY <2>1
          DEF RequestsOK, SetOK, CleanSet, Buttons, AgentRow, ipmilan_main, Having, Main,
              ipmilan_set_power_status, Set, ipmilan_reboot_cycle, Cycled
  <2>4. /\ ShellTable["ipmilan"].main.fns = {"get", "set", "cycle"}
        /\ ShellTable["ipmilan"].main.session = "none" /\ ShellTable["ipmilan"].names =
              "plug"
        /\ Len(ShellTable["ipmilan"].main.steps) = 2
        /\ ShellTable["ipmilan"].main.steps[1] = "run_delay"
        /\ ShellTable["ipmilan"].main.steps[2] = "is_executable"
      BY <2>1
          DEF AgentRow, ipmilan_main, Having, Main
  <2>5. MainOK("ipmilan", ShellTable["ipmilan"])
      BY <2>4 DEF MainOK, DelayOK, CleanMain, StepOK, LoginOK, NamesOK,
              DelaySteps
  <2> QED BY <2>2, <2>3, <2>5 DEF RowOK
<1>eaton_ssh. RowOK("eaton_ssh", ShellTable["eaton_ssh"])
  <2>1. ShellTable["eaton_ssh"] = AgentRow(eaton_ssh_main, eaton_ssh_get_power_status,
              eaton_ssh_set_power_status, eaton_ssh_get_outlet_list,
              eaton_ssh_reboot_cycle, "plug")
      BY DEF ShellTable
  <2>2. AnswersOK("eaton_ssh", ShellTable["eaton_ssh"])
      BY <2>1
          DEF AnswersOK, OffOK, CleanGet, CleanList, SaysOn, SaysOff, Clear, AgentRow,
              eaton_ssh_get_power_status, eaton_ssh_get_plug_status,
              eaton_ssh_get_outlet_list, eaton_ssh_get_plug_names
  <2>3. RequestsOK("eaton_ssh", ShellTable["eaton_ssh"])
      BY <2>1
          DEF RequestsOK, SetOK, CleanSet, Buttons, AgentRow, eaton_ssh_main, Main,
              eaton_ssh_set_power_status, Set, eaton_ssh_reboot_cycle, Cycled
  <2>4. /\ ShellTable["eaton_ssh"].main.device_opt = {"port", "passwd", "secure", "ipaddr", "login",
              "cmd_prompt"}
        /\ ShellTable["eaton_ssh"].main.defaults = {}
        /\ ShellTable["eaton_ssh"].main.fns = {"get", "set", "cycle", "list"}
        /\ ShellTable["eaton_ssh"].main.session = "pipe" /\ ShellTable["eaton_ssh"].names =
              "plug"
        /\ Len(ShellTable["eaton_ssh"].main.steps) = 2
        /\ ShellTable["eaton_ssh"].main.steps[1] = "set_ssh"
        /\ ShellTable["eaton_ssh"].main.steps[2] = "fence_login"
      BY <2>1
          DEF AgentRow, eaton_ssh_main, Main
  <2>5. MainOK("eaton_ssh", ShellTable["eaton_ssh"])
      BY <2>4 DEF MainOK, DelayOK, CleanMain, StepOK, LoginOK, NamesOK,
              DelaySteps
  <2> QED BY <2>2, <2>3, <2>5 DEF RowOK
<1>amt_ws. RowOK("amt_ws", ShellTable["amt_ws"])
  <2>1. ShellTable["amt_ws"] = AgentRow(amt_ws_main, amt_ws_get_power_status,
              amt_ws_set_power_status, <<>>, amt_ws_reboot_cycle, "plug")
      BY DEF ShellTable
  <2>2. AnswersOK("amt_ws", ShellTable["amt_ws"])
      BY <2>1
          DEF AnswersOK, OffOK, CleanGet, CleanList, SaysOn, SaysOff, Clear, AgentRow,
              amt_ws_get_power_status
  <2>3. RequestsOK("amt_ws", ShellTable["amt_ws"])
      BY <2>1
          DEF RequestsOK, SetOK, CleanSet, Buttons, AgentRow, amt_ws_main, Having, Main,
              amt_ws_set_power_status, Set, amt_ws_reboot_cycle, Cycled
  <2>4. /\ ShellTable["amt_ws"].main.fns = {"get", "set", "cycle"}
        /\ ShellTable["amt_ws"].main.session = "none" /\ ShellTable["amt_ws"].names = "plug"
        /\ Len(ShellTable["amt_ws"].main.steps) = 1
        /\ ShellTable["amt_ws"].main.steps[1] = "run_delay"
      BY <2>1
          DEF AgentRow, amt_ws_main, Having, Main
  <2>5. MainOK("amt_ws", ShellTable["amt_ws"])
      BY <2>4 DEF MainOK, DelayOK, CleanMain, StepOK, LoginOK, NamesOK,
              DelaySteps
  <2> QED BY <2>2, <2>3, <2>5 DEF RowOK
<1>zvmip. RowOK("zvmip", ShellTable["zvmip"])
  <2>1. ShellTable["zvmip"] = AgentRow(zvmip_main, zvmip_get_power_status,
              zvmip_set_power_status, zvmip_get_outlet_list, <<>>, "plug")
      BY DEF ShellTable
  <2>2. AnswersOK("zvmip", ShellTable["zvmip"])
      BY <2>1, TakenFacts
          DEF AnswersOK, OffOK, CleanGet, CleanList, SaysOn, SaysOff, Clear, AgentRow,
              zvmip_get_power_status, zvmip_open_socket, zvmip_get_list_of_images,
              zvmip_get_outlet_list
  <2>3. RequestsOK("zvmip", ShellTable["zvmip"])
      BY <2>1
          DEF RequestsOK, SetOK, CleanSet, Buttons, AgentRow, zvmip_main, Having, Main,
              zvmip_set_power_status, Set
  <2>4. /\ ShellTable["zvmip"].main.fns = {"get", "set", "list"}
        /\ ShellTable["zvmip"].main.session = "none" /\ ShellTable["zvmip"].names = "plug"
        /\ Len(ShellTable["zvmip"].main.steps) = 3
        /\ ShellTable["zvmip"].main.steps[1] = "plug_length"
        /\ ShellTable["zvmip"].main.steps[2] = "validate_all"
        /\ ShellTable["zvmip"].main.steps[3] = "run_delay"
      BY <2>1
          DEF AgentRow, zvmip_main, Having, Main
  <2>5. MainOK("zvmip", ShellTable["zvmip"])
      BY <2>4 DEF MainOK, DelayOK, CleanMain, StepOK, LoginOK, NamesOK,
              DelaySteps
  <2> QED BY <2>2, <2>3, <2>5 DEF RowOK
<1>raritan_px3. RowOK("raritan_px3", ShellTable["raritan_px3"])
  <2>1. ShellTable["raritan_px3"] = AgentRow(raritan_px3_main,
              raritan_px3_get_power_status, raritan_px3_set_power_status,
              raritan_px3_px3_get_outlet_list, raritan_px3_reboot_cycle, "once")
      BY DEF ShellTable
  <2>2. AnswersOK("raritan_px3", ShellTable["raritan_px3"])
      BY <2>1
          DEF AnswersOK, OffOK, CleanGet, CleanList, SaysOn, SaysOff, Clear, AgentRow,
              raritan_px3_get_power_status, @@, raritan_px3_px3_get_outlet_group,
              raritan_px3_px3_get_outlet_list
  <2>3. RequestsOK("raritan_px3", ShellTable["raritan_px3"])
      BY <2>1
          DEF RequestsOK, SetOK, CleanSet, Buttons, AgentRow, raritan_px3_main, Having,
              Main, Card, raritan_px3_set_power_status, Set, raritan_px3_reboot_cycle,
              Cycled
  <2>4. /\ ShellTable["raritan_px3"].main.device_opt = {"port", "passwd", "secure", "telnet",
              "ipaddr", "login", "cmd_prompt"}
        /\ ShellTable["raritan_px3"].main.defaults = {"ipport", "cmd_prompt"}
        /\ ShellTable["raritan_px3"].main.fns = {"get", "set", "cycle", "list"}
        /\ ShellTable["raritan_px3"].main.session = "pipe" /\
              ShellTable["raritan_px3"].names = "once"
        /\ Len(ShellTable["raritan_px3"].main.steps) = 3
        /\ ShellTable["raritan_px3"].main.steps[1] = "fence_login"
        /\ ShellTable["raritan_px3"].main.steps[2] = "plug_found"
        /\ ShellTable["raritan_px3"].main.steps[3] = "monitor_returns"
      BY <2>1
          DEF AgentRow, raritan_px3_main, Having, Main, Card
  <2>5. MainOK("raritan_px3", ShellTable["raritan_px3"])
      BY <2>4 DEF MainOK, DelayOK, CleanMain, StepOK, LoginOK, NamesOK,
              DelaySteps
  <2> QED BY <2>2, <2>3, <2>5 DEF RowOK
<1> QED BY <1>d, <1>alom, <1>ilo_mp, <1>drac, <1>rsa, <1>ilo_moonshot,
        <1>cyberpower_ssh, <1>rsb, <1>brocade, <1>ilo_ssh, <1>raritan, <1>netio,
        <1>virsh, <1>rcd_serial, <1>ldom, <1>bladecenter, <1>crosslink, <1>hds_cb,
        <1>hpblade, <1>amt, <1>ironic, <1>vbox, <1>drac5, <1>sanbox2, <1>ilo,
        <1>ilo_old, <1>ilo2, <1>eps, <1>lpar, <1>wti, <1>apc, <1>apc5, <1>cdu,
        <1>powerman, <1>ipmilan, <1>eaton_ssh, <1>amt_ws, <1>zvmip, <1>raritan_px3

\* Every row of SnmpTable.
LEMMA SnmpRows == \A a \in DOMAIN SnmpTable : RowOK(a, SnmpTable[a])
<1>d. DOMAIN SnmpTable = {"emerson", "ibmblade", "intelmodular", "cisco_mds", "ifmib",
        "ipdu", "apc_snmp", "eaton_snmp", "lindypdu"}
    BY DEF SnmpTable
<1>emerson. RowOK("emerson", SnmpTable["emerson"])
  <2>1. SnmpTable["emerson"] = AgentRow(emerson_main, emerson_get_power_status,
              emerson_set_power_status, emerson_get_outlets_status, <<>>, "plug")
      BY DEF SnmpTable
  <2>2. AnswersOK("emerson", SnmpTable["emerson"])
      BY <2>1, TakenFacts
          DEF AnswersOK, OffOK, CleanGet, CleanList, SaysOn, SaysOff, Clear, AgentRow,
              emerson_get_power_status, UpOrOff, @@, fencing_snmp_get,
              fencing_snmp_run_command, emerson_get_outlets_status
  <2>3. RequestsOK("emerson", SnmpTable["emerson"])
      BY <2>1
          DEF RequestsOK, SetOK, CleanSet, Buttons, AgentRow, emerson_main, SnmpMain, Main,
              Snmp, emerson_set_power_status, Set, fencing_snmp_set,
              fencing_snmp_run_command
  <2>4. /\ SnmpTable["emerson"].main.fns = {"get", "set", "list"}
        /\ SnmpTable["emerson"].main.session = "none" /\ SnmpTable["emerson"].names = "plug"
        /\ Len(SnmpTable["emerson"].main.steps) = 1
        /\ SnmpTable["emerson"].main.steps[1] = "FencingSnmp"
      BY <2>1
          DEF AgentRow, emerson_main, SnmpMain, Main, Snmp
  <2>5. MainOK("emerson", SnmpTable["emerson"])
      BY <2>4 DEF MainOK, DelayOK, CleanMain, StepOK, LoginOK, NamesOK,
              DelaySteps
  <2> QED BY <2>2, <2>3, <2>5 DEF RowOK
<1>ibmblade. RowOK("ibmblade", SnmpTable["ibmblade"])
  <2>1. SnmpTable["ibmblade"] = AgentRow(ibmblade_main, ibmblade_get_power_status,
              ibmblade_set_power_status, ibmblade_get_outlets_status, <<>>, "plug")
      BY DEF SnmpTable
  <2>2. AnswersOK("ibmblade", SnmpTable["ibmblade"])
      BY <2>1, TakenFacts
          DEF AnswersOK, OffOK, CleanGet, CleanList, SaysOn, SaysOff, Clear, AgentRow,
              ibmblade_get_power_status, UpOrOff, @@, fencing_snmp_get,
              fencing_snmp_run_command, ibmblade_get_outlets_status
  <2>3. RequestsOK("ibmblade", SnmpTable["ibmblade"])
      BY <2>1
          DEF RequestsOK, SetOK, CleanSet, Buttons, AgentRow, ibmblade_main, SnmpMain, Main,
              Snmp, ibmblade_set_power_status, Set, fencing_snmp_set,
              fencing_snmp_run_command
  <2>4. /\ SnmpTable["ibmblade"].main.fns = {"get", "set", "list"}
        /\ SnmpTable["ibmblade"].main.session = "none" /\ SnmpTable["ibmblade"].names =
              "plug"
        /\ Len(SnmpTable["ibmblade"].main.steps) = 1
        /\ SnmpTable["ibmblade"].main.steps[1] = "FencingSnmp"
      BY <2>1
          DEF AgentRow, ibmblade_main, SnmpMain, Main, Snmp
  <2>5. MainOK("ibmblade", SnmpTable["ibmblade"])
      BY <2>4 DEF MainOK, DelayOK, CleanMain, StepOK, LoginOK, NamesOK,
              DelaySteps
  <2> QED BY <2>2, <2>3, <2>5 DEF RowOK
<1>intelmodular. RowOK("intelmodular", SnmpTable["intelmodular"])
  <2>1. SnmpTable["intelmodular"] = AgentRow(intelmodular_main,
              intelmodular_get_power_status, intelmodular_set_power_status,
              intelmodular_get_outlets_status, <<>>, "plug")
      BY DEF SnmpTable
  <2>2. AnswersOK("intelmodular", SnmpTable["intelmodular"])
      BY <2>1, TakenFacts
          DEF AnswersOK, OffOK, CleanGet, CleanList, SaysOn, SaysOff, Clear, AgentRow,
              intelmodular_get_power_status, UpOrOff, @@, fencing_snmp_get,
              fencing_snmp_run_command, intelmodular_get_outlets_status
  <2>3. RequestsOK("intelmodular", SnmpTable["intelmodular"])
      BY <2>1
          DEF RequestsOK, SetOK, CleanSet, Buttons, AgentRow, intelmodular_main, SnmpMain,
              Main, Snmp, intelmodular_set_power_status, Set, fencing_snmp_set,
              fencing_snmp_run_command
  <2>4. /\ SnmpTable["intelmodular"].main.fns = {"get", "set", "list"}
        /\ SnmpTable["intelmodular"].main.session = "none" /\
              SnmpTable["intelmodular"].names = "plug"
        /\ Len(SnmpTable["intelmodular"].main.steps) = 1
        /\ SnmpTable["intelmodular"].main.steps[1] = "FencingSnmp"
      BY <2>1
          DEF AgentRow, intelmodular_main, SnmpMain, Main, Snmp
  <2>5. MainOK("intelmodular", SnmpTable["intelmodular"])
      BY <2>4 DEF MainOK, DelayOK, CleanMain, StepOK, LoginOK, NamesOK,
              DelaySteps
  <2> QED BY <2>2, <2>3, <2>5 DEF RowOK
<1>cisco_mds. RowOK("cisco_mds", SnmpTable["cisco_mds"])
  <2>1. SnmpTable["cisco_mds"] = AgentRow(cisco_mds_main, cisco_mds_get_power_status,
              cisco_mds_set_power_status, cisco_mds_get_outlets_status, <<>>, "plug")
      BY DEF SnmpTable
  <2>2. AnswersOK("cisco_mds", SnmpTable["cisco_mds"])
      BY <2>1, TakenFacts
          DEF AnswersOK, OffOK, CleanGet, CleanList, SaysOn, SaysOff, Clear, AgentRow,
              cisco_mds_get_power_status, UpOrOff, @@, fencing_snmp_get,
              fencing_snmp_run_command, cisco_mds_get_outlets_status, NoStatus
  <2>3. RequestsOK("cisco_mds", SnmpTable["cisco_mds"])
      BY <2>1
          DEF RequestsOK, SetOK, CleanSet, Buttons, AgentRow, cisco_mds_main, Main, Snmp,
              cisco_mds_cisco_port2oid, cisco_mds_set_power_status, Set,
              fencing_snmp_set, fencing_snmp_run_command
  <2>4. /\ SnmpTable["cisco_mds"].main.fns = {"get", "set", "list"}
        /\ SnmpTable["cisco_mds"].main.session = "none" /\ SnmpTable["cisco_mds"].names =
              "plug"
        /\ Len(SnmpTable["cisco_mds"].main.steps) = 2
        /\ SnmpTable["cisco_mds"].main.steps[1] = "check_plug"
        /\ SnmpTable["cisco_mds"].main.steps[2] = "FencingSnmp"
      BY <2>1
          DEF AgentRow, cisco_mds_main, Main, Snmp, cisco_mds_cisco_port2oid
  <2>5. MainOK("cisco_mds", SnmpTable["cisco_mds"])
      BY <2>4 DEF MainOK, DelayOK, CleanMain, StepOK, LoginOK, NamesOK,
              DelaySteps
  <2> QED BY <2>2, <2>3, <2>5 DEF RowOK
<1>ifmib. RowOK("ifmib", SnmpTable["ifmib"])
  <2>1. SnmpTable["ifmib"] = AgentRow(ifmib_main, ifmib_get_power_status,
              ifmib_set_power_status, ifmib_get_outlets_status, <<>>, ifmib_port2index)
      BY DEF SnmpTable
  <2>2. AnswersOK("ifmib", SnmpTable["ifmib"])
      BY <2>1, TakenFacts
          DEF AnswersOK, OffOK, CleanGet, CleanList, SaysOn, SaysOff, Clear, AgentRow,
              ifmib_get_power_status, @@, UpOrOff, fencing_snmp_get,
              fencing_snmp_run_command, ifmib_get_outlets_status, NoStatus
  <2>3. RequestsOK("ifmib", SnmpTable["ifmib"])
      BY <2>1
          DEF RequestsOK, SetOK, CleanSet, Buttons, AgentRow, ifmib_main, SnmpMain, Main,
              Snmp, ifmib_set_power_status, Set, fencing_snmp_set,
              fencing_snmp_run_command
  <2>4. /\ SnmpTable["ifmib"].main.fns = {"get", "set", "list"}
        /\ SnmpTable["ifmib"].main.session = "none" /\ SnmpTable["ifmib"].names = "first"
        /\ Len(SnmpTable["ifmib"].main.steps) = 1
        /\ SnmpTable["ifmib"].main.steps[1] = "FencingSnmp"
      BY <2>1
          DEF AgentRow, ifmib_main, SnmpMain, Main, Snmp, ifmib_port2index
  <2>5. MainOK("ifmib", SnmpTable["ifmib"])
      BY <2>4 DEF MainOK, DelayOK, CleanMain, StepOK, LoginOK, NamesOK,
              DelaySteps
  <2> QED BY <2>2, <2>3, <2>5 DEF RowOK
<1>ipdu. RowOK("ipdu", SnmpTable["ipdu"])
  <2>1. SnmpTable["ipdu"] = AgentRow(ipdu_main, ipdu_get_power_status,
              ipdu_set_power_status, ipdu_get_outlets_status, <<>>,
              ipdu_ipdu_resolv_port_id)
      BY DEF SnmpTable
  <2>2. AnswersOK("ipdu", SnmpTable["ipdu"])
      BY <2>1, TakenFacts
          DEF AnswersOK, OffOK, CleanGet, CleanList, SaysOn, SaysOff, Clear, AgentRow,
              ipdu_get_power_status, @@, UpOrOff, fencing_snmp_get,
              fencing_snmp_run_command, ipdu_get_outlets_status, NoStatus
  <2>3. RequestsOK("ipdu", SnmpTable["ipdu"])
      BY <2>1
          DEF RequestsOK, SetOK, CleanSet, Buttons, AgentRow, ipdu_main, SnmpMain, Main,
              Snmp, ipdu_set_power_status, Set, fencing_snmp_set,
              fencing_snmp_run_command
  <2>4. /\ SnmpTable["ipdu"].main.fns = {"get", "set", "list"}
        /\ SnmpTable["ipdu"].main.session = "none" /\ SnmpTable["ipdu"].names = "first"
        /\ Len(SnmpTable["ipdu"].main.steps) = 1
        /\ SnmpTable["ipdu"].main.steps[1] = "FencingSnmp"
      BY <2>1
          DEF AgentRow, ipdu_main, SnmpMain, Main, Snmp, ipdu_ipdu_resolv_port_id
  <2>5. MainOK("ipdu", SnmpTable["ipdu"])
      BY <2>4 DEF MainOK, DelayOK, CleanMain, StepOK, LoginOK, NamesOK,
              DelaySteps
  <2> QED BY <2>2, <2>3, <2>5 DEF RowOK
<1>apc_snmp. RowOK("apc_snmp", SnmpTable["apc_snmp"])
  <2>1. SnmpTable["apc_snmp"] = AgentRow(apc_snmp_main, apc_snmp_get_power_status,
              apc_snmp_set_power_status, apc_snmp_get_outlets_status, <<>>,
              apc_snmp_apc_resolv_port_id)
      BY DEF SnmpTable
  <2>2. AnswersOK("apc_snmp", SnmpTable["apc_snmp"])
      BY <2>1, TakenFacts
          DEF AnswersOK, OffOK, CleanGet, CleanList, SaysOn, SaysOff, Clear, AgentRow,
              apc_snmp_get_power_status, @@, UpOrOff, fencing_snmp_get,
              fencing_snmp_run_command, apc_snmp_get_outlets_status, NoStatus
  <2>3. RequestsOK("apc_snmp", SnmpTable["apc_snmp"])
      BY <2>1
          DEF RequestsOK, SetOK, CleanSet, Buttons, AgentRow, apc_snmp_main, SnmpMain, Main,
              Snmp, apc_snmp_set_power_status, Set, fencing_snmp_set,
              fencing_snmp_run_command
  <2>4. /\ SnmpTable["apc_snmp"].main.fns = {"get", "set", "list"}
        /\ SnmpTable["apc_snmp"].main.session = "none" /\ SnmpTable["apc_snmp"].names =
              "first"
        /\ Len(SnmpTable["apc_snmp"].main.steps) = 1
        /\ SnmpTable["apc_snmp"].main.steps[1] = "FencingSnmp"
      BY <2>1
          DEF AgentRow, apc_snmp_main, SnmpMain, Main, Snmp, apc_snmp_apc_resolv_port_id
  <2>5. MainOK("apc_snmp", SnmpTable["apc_snmp"])
      BY <2>4 DEF MainOK, DelayOK, CleanMain, StepOK, LoginOK, NamesOK,
              DelaySteps
  <2> QED BY <2>2, <2>3, <2>5 DEF RowOK
<1>eaton_snmp. RowOK("eaton_snmp", SnmpTable["eaton_snmp"])
  <2>1. SnmpTable["eaton_snmp"] = AgentRow(eaton_snmp_main, eaton_snmp_get_power_status,
              eaton_snmp_set_power_status, eaton_snmp_get_outlets_status, <<>>,
              eaton_snmp_eaton_resolv_port_id)
      BY DEF SnmpTable
  <2>2. AnswersOK("eaton_snmp", SnmpTable["eaton_snmp"])
      BY <2>1
          DEF AnswersOK, OffOK, CleanGet, CleanList, SaysOn, SaysOff, Clear, AgentRow,
              eaton_snmp_get_power_status, @@, eaton_snmp_eaton_set_device,
              fencing_snmp_run_command, eaton_snmp_get_outlets_status, NoStatus
  <2>3. RequestsOK("eaton_snmp", SnmpTable["eaton_snmp"])
      BY <2>1
          DEF RequestsOK, SetOK, CleanSet, Buttons, AgentRow, eaton_snmp_main, SnmpMain,
              Main, Snmp, eaton_snmp_set_power_status, Set, fencing_snmp_set,
              fencing_snmp_run_command
  <2>4. /\ SnmpTable["eaton_snmp"].main.fns = {"get", "set", "list"}
        /\ SnmpTable["eaton_snmp"].main.session = "none" /\ SnmpTable["eaton_snmp"].names =
              "first"
        /\ Len(SnmpTable["eaton_snmp"].main.steps) = 1
        /\ SnmpTable["eaton_snmp"].main.steps[1] = "FencingSnmp"
      BY <2>1
          DEF AgentRow, eaton_snmp_main, SnmpMain, Main, Snmp,
              eaton_snmp_eaton_resolv_port_id
  <2>5. MainOK("eaton_snmp", SnmpTable["eaton_snmp"])
      BY <2>4 DEF MainOK, DelayOK, CleanMain, StepOK, LoginOK, NamesOK,
              DelaySteps
  <2> QED BY <2>2, <2>3, <2>5 DEF RowOK
<1>lindypdu. RowOK("lindypdu", SnmpTable["lindypdu"])
  <2>1. SnmpTable["lindypdu"] = AgentRow(lindypdu_main, lindypdu_get_power_status,
              lindypdu_set_power_status, lindypdu_get_outlets_status, <<>>,
              lindypdu_lpdu_resolv_port_id)
      BY DEF SnmpTable
  <2>2. AnswersOK("lindypdu", SnmpTable["lindypdu"])
      BY <2>1, TakenFacts
          DEF AnswersOK, OffOK, CleanGet, CleanList, SaysOn, SaysOff, Clear, AgentRow,
              lindypdu_get_power_status, @@, fencing_snmp_run_command,
              lindypdu_get_outlets_status
  <2>3. RequestsOK("lindypdu", SnmpTable["lindypdu"])
      BY <2>1
          DEF RequestsOK, SetOK, CleanSet, Buttons, AgentRow, lindypdu_main, SnmpMain, Main,
              Snmp, lindypdu_set_power_status, Set, fencing_snmp_set,
              fencing_snmp_run_command
  <2>4. /\ SnmpTable["lindypdu"].main.fns = {"get", "set", "list"}
        /\ SnmpTable["lindypdu"].main.session = "none" /\ SnmpTable["lindypdu"].names =
              "plug"
        /\ Len(SnmpTable["lindypdu"].main.steps) = 1
        /\ SnmpTable["lindypdu"].main.steps[1] = "FencingSnmp"
      BY <2>1
          DEF AgentRow, lindypdu_main, SnmpMain, Main, Snmp, lindypdu_lpdu_resolv_port_id
  <2>5. MainOK("lindypdu", SnmpTable["lindypdu"])
      BY <2>4 DEF MainOK, DelayOK, CleanMain, StepOK, LoginOK, NamesOK,
              DelaySteps
  <2> QED BY <2>2, <2>3, <2>5 DEF RowOK
<1> QED BY <1>d, <1>emerson, <1>ibmblade, <1>intelmodular, <1>cisco_mds, <1>ifmib,
        <1>ipdu, <1>apc_snmp, <1>eaton_snmp, <1>lindypdu

\* Every row of CloudTable.
LEMMA CloudRows == \A a \in DOMAIN CloudTable : RowOK(a, CloudTable[a])
<1>d. DOMAIN CloudTable = {"redfish", "rhevm", "cisco_ucs", "vmware_rest",
        "vmware_vcloud", "pve", "docker", "ecloud", "shelly_gen2", "skalar",
        "skalar_graceful", "hetzner_cloud"}
    BY DEF CloudTable
<1>redfish. RowOK("redfish", CloudTable["redfish"])
  <2>1. CloudTable["redfish"] = AgentRow(redfish_main, redfish_get_power_status,
              redfish_set_power_status, <<>>, redfish_set_power_status_diag, "plug")
      BY DEF CloudTable
  <2>2. AnswersOK("redfish", CloudTable["redfish"])
      BY <2>1
          DEF AnswersOK, OffOK, CleanGet, CleanList, SaysOn, SaysOff, Clear, AgentRow,
              redfish_get_power_status, @@, redfish_send_get_request
  <2>3. RequestsOK("redfish", CloudTable["redfish"])
      BY <2>1
          DEF RequestsOK, SetOK, CleanSet, Buttons, AgentRow, redfish_main, Having, Main,
              redfish_find_systems_resource, redfish_set_power_status, Set,
              redfish_send_post_request, redfish_set_power_status_diag, Cycled
  <2>4. /\ CloudTable["redfish"].main.fns = {"get", "set"}
        /\ CloudTable["redfish"].main.session = "none" /\ CloudTable["redfish"].names =
              "plug"
        /\ Len(CloudTable["redfish"].main.steps) = 2
        /\ CloudTable["redfish"].main.steps[1] = "run_delay"
        /\ CloudTable["redfish"].main.steps[2] = "find_systems_resource"
      BY <2>1
          DEF AgentRow, redfish_main, Having, Main, redfish_find_systems_resource
  <2>5. MainOK("redfish", CloudTable["redfish"])
      BY <2>4 DEF MainOK, DelayOK, CleanMain, StepOK, LoginOK, NamesOK,
              DelaySteps
  <2> QED BY <2>2, <2>3, <2>5 DEF RowOK
<1>rhevm. RowOK("rhevm", CloudTable["rhevm"])
  <2>1. CloudTable["rhevm"] = AgentRow(rhevm_main, rhevm_get_power_status,
              rhevm_set_power_status, rhevm_get_list, <<>>, "last")
      BY DEF CloudTable
  <2>2. AnswersOK("rhevm", CloudTable["rhevm"])
      BY <2>1, TakenFacts
          DEF AnswersOK, OffOK, CleanGet, CleanList, SaysOn, SaysOff, Clear, AgentRow,
              rhevm_get_power_status, rhevm_send_command, rhevm_get_list
  <2>3. RequestsOK("rhevm", CloudTable["rhevm"])
      BY <2>1
          DEF RequestsOK, SetOK, CleanSet, Buttons, AgentRow, rhevm_main, Main, Web,
              rhevm_set_power_status, Set, rhevm_send_command
  <2>4. /\ CloudTable["rhevm"].main.device_opt = {"port", "passwd", "ipaddr", "ssl", "login", "web",
              "notls", "use_cookies", "cookie_file", "api_version", "api_path",
              "disable_http_filter"}
        /\ CloudTable["rhevm"].main.defaults = {}
        /\ CloudTable["rhevm"].main.fns = {"get", "set", "list"}
        /\ CloudTable["rhevm"].main.session = "none" /\ CloudTable["rhevm"].names = "last"
        /\ Len(CloudTable["rhevm"].main.steps) = 1
        /\ CloudTable["rhevm"].main.steps[1] = "run_delay"
      BY <2>1
          DEF AgentRow, rhevm_main, Main, Web
  <2>5. MainOK("rhevm", CloudTable["rhevm"])
      BY <2>4 DEF MainOK, DelayOK, CleanMain, StepOK, LoginOK, NamesOK,
              DelaySteps
  <2> QED BY <2>2, <2>3, <2>5 DEF RowOK
<1>cisco_ucs. RowOK("cisco_ucs", CloudTable["cisco_ucs"])
  <2>1. CloudTable["cisco_ucs"] = AgentRow(cisco_ucs_main, cisco_ucs_get_power_status,
              cisco_ucs_set_power_status, cisco_ucs_get_list, <<>>, "plug")
      BY DEF CloudTable
  <2>2. AnswersOK("cisco_ucs", CloudTable["cisco_ucs"])
      BY <2>1, TakenFacts
          DEF AnswersOK, OffOK, CleanGet, CleanList, SaysOn, SaysOff, Clear, AgentRow,
              cisco_ucs_get_power_status, cisco_ucs_send_command, cisco_ucs_get_list
  <2>3. RequestsOK("cisco_ucs", CloudTable["cisco_ucs"])
      BY <2>1
          DEF RequestsOK, SetOK, CleanSet, Buttons, AgentRow, cisco_ucs_main, Main, Web,
              cisco_ucs_logout, cisco_ucs_set_power_status, Set, cisco_ucs_send_command
  <2>4. /\ CloudTable["cisco_ucs"].main.fns = {"get", "set", "list"}
        /\ CloudTable["cisco_ucs"].main.session = "atexit" /\ CloudTable["cisco_ucs"].names
              = "plug"
        /\ Len(CloudTable["cisco_ucs"].main.steps) = 2
        /\ CloudTable["cisco_ucs"].main.steps[1] = "run_delay"
        /\ CloudTable["cisco_ucs"].main.steps[2] = "open"
      BY <2>1
          DEF AgentRow, cisco_ucs_main, Main, Web, cisco_ucs_logout
  <2>5. MainOK("cisco_ucs", CloudTable["cisco_ucs"])
      BY <2>4 DEF MainOK, DelayOK, CleanMain, StepOK, LoginOK, NamesOK,
              DelaySteps
  <2> QED BY <2>2, <2>3, <2>5 DEF RowOK
<1>vmware_rest. RowOK("vmware_rest", CloudTable["vmware_rest"])
  <2>1. CloudTable["vmware_rest"] = AgentRow(vmware_rest_main,
              vmware_rest_get_power_status, vmware_rest_set_power_status,
              vmware_rest_get_list, <<>>, "last")
      BY DEF CloudTable
  <2>2. AnswersOK("vmware_rest", CloudTable["vmware_rest"])
      BY <2>1, TakenFacts
          DEF AnswersOK, OffOK, CleanGet, CleanList, SaysOn, SaysOff, Clear, AgentRow,
              vmware_rest_get_power_status, vmware_rest_get_list
  <2>3. RequestsOK("vmware_rest", CloudTable["vmware_rest"])
      BY <2>1
          DEF RequestsOK, SetOK, CleanSet, Buttons, AgentRow, vmware_rest_main, Main, Web,
              vmware_rest_connect, vmware_rest_disconnect, vmware_rest_set_power_status,
              Set
  <2>4. /\ CloudTable["vmware_rest"].main.device_opt = {"port", "passwd", "ipaddr", "ssl", "login",
              "web", "notls", "api_path", "filter"}
        /\ CloudTable["vmware_rest"].main.defaults = {}
        /\ CloudTable["vmware_rest"].main.fns = {"get", "set", "list"}
        /\ CloudTable["vmware_rest"].main.session = "atexit" /\
              CloudTable["vmware_rest"].names = "last"
        /\ Len(CloudTable["vmware_rest"].main.steps) = 2
        /\ CloudTable["vmware_rest"].main.steps[1] = "run_delay"
        /\ CloudTable["vmware_rest"].main.steps[2] = "open"
      BY <2>1
          DEF AgentRow, vmware_rest_main, Main, Web, vmware_rest_connect,
              vmware_rest_disconnect
  <2>5. MainOK("vmware_rest", CloudTable["vmware_rest"])
      BY <2>4 DEF MainOK, DelayOK, CleanMain, StepOK, LoginOK, NamesOK,
              DelaySteps
  <2> QED BY <2>2, <2>3, <2>5 DEF RowOK
<1>vmware_vcloud. RowOK("vmware_vcloud", CloudTable["vmware_vcloud"])
  <2>1. CloudTable["vmware_vcloud"] = AgentRow(vmware_vcloud_main,
              vmware_vcloud_get_power_status, vmware_vcloud_set_power_status,
              vmware_vcloud_get_list, <<>>, "plug")
      BY DEF CloudTable
  <2>2. AnswersOK("vmware_vcloud", CloudTable["vmware_vcloud"])
      BY <2>1, TakenFacts
          DEF AnswersOK, OffOK, CleanGet, CleanList, SaysOn, SaysOff, Clear, AgentRow,
              vmware_vcloud_get_power_status, vmware_vcloud_get_list,
              vmware_vcloud_send_command
  <2>3. RequestsOK("vmware_vcloud", CloudTable["vmware_vcloud"])
      BY <2>1
          DEF RequestsOK, SetOK, CleanSet, Buttons, AgentRow, vmware_vcloud_main, Main, Web,
              vmware_vcloud_connect, vmware_vcloud_disconnect,
              vmware_vcloud_set_power_status, Set
  <2>4. /\ CloudTable["vmware_vcloud"].main.fns = {"get", "set", "list"}
        /\ CloudTable["vmware_vcloud"].main.session = "atexit" /\
              CloudTable["vmware_vcloud"].names = "plug"
        /\ Len(CloudTable["vmware_vcloud"].main.steps) = 2
        /\ CloudTable["vmware_vcloud"].main.steps[1] = "run_delay"
        /\ CloudTable["vmware_vcloud"].main.steps[2] = "open"
      BY <2>1
          DEF AgentRow, vmware_vcloud_main, Main, Web, vmware_vcloud_connect,
              vmware_vcloud_disconnect
  <2>5. MainOK("vmware_vcloud", CloudTable["vmware_vcloud"])
      BY <2>4 DEF MainOK, DelayOK, CleanMain, StepOK, LoginOK, NamesOK,
              DelaySteps
  <2> QED BY <2>2, <2>3, <2>5 DEF RowOK
<1>pve. RowOK("pve", CloudTable["pve"])
  <2>1. CloudTable["pve"] = AgentRow(pve_main, pve_get_power_status,
              pve_set_power_status, pve_get_outlet_list, pve_reboot_cycle, "plug")
      BY DEF CloudTable
  <2>2. AnswersOK("pve", CloudTable["pve"])
      BY <2>1
          DEF AnswersOK, OffOK, CleanGet, CleanList, SaysOn, SaysOff, Clear, AgentRow,
              pve_get_power_status, pve_send_cmd, pve_get_outlet_list
  <2>3. RequestsOK("pve", CloudTable["pve"])
      BY <2>1
          DEF RequestsOK, SetOK, CleanSet, Buttons, AgentRow, pve_main, Having, Main,
              pve_get_ticket, pve_set_power_status, Set, pve_reboot_cycle, Cycled
  <2>4. /\ CloudTable["pve"].main.fns = {"get", "set", "cycle", "list"}
        /\ CloudTable["pve"].main.session = "left" /\ CloudTable["pve"].names = "plug"
        /\ Len(CloudTable["pve"].main.steps) = 3
        /\ CloudTable["pve"].main.steps[1] = "run_delay"
        /\ CloudTable["pve"].main.steps[2] = "node_given"
        /\ CloudTable["pve"].main.steps[3] = "open"
      BY <2>1
          DEF AgentRow, pve_main, Having, Main, pve_get_ticket
  <2>5. MainOK("pve", CloudTable["pve"])
      BY <2>4 DEF MainOK, DelayOK, CleanMain, StepOK, LoginOK, NamesOK,
              DelaySteps
  <2> QED BY <2>2, <2>3, <2>5 DEF RowOK
<1>docker. RowOK("docker", CloudTable["docker"])
  <2>1. CloudTable["docker"] = AgentRow(docker_main, docker_get_power_status,
              docker_set_power_status, docker_get_list, docker_reboot_cycle, "plug")
      BY DEF CloudTable
  <2>2. AnswersOK("docker", CloudTable["docker"])
      BY <2>1
          DEF AnswersOK, OffOK, CleanGet, CleanList, SaysOn, SaysOff, Clear, AgentRow,
              docker_get_power_status, @@, docker_send_cmd, docker_get_list
  <2>3. RequestsOK("docker", CloudTable["docker"])
      BY <2>1
          DEF RequestsOK, SetOK, CleanSet, Buttons, AgentRow, docker_main, Having, Main,
              docker_set_power_status, Set, docker_reboot_cycle, Cycled
  <2>4. /\ CloudTable["docker"].main.fns = {"get", "set", "cycle", "list"}
        /\ CloudTable["docker"].main.session = "none" /\ CloudTable["docker"].names = "plug"
        /\ Len(CloudTable["docker"].main.steps) = 1
        /\ CloudTable["docker"].main.steps[1] = "run_delay"
      BY <2>1
          DEF AgentRow, docker_main, Having, Main
  <2>5. MainOK("docker", CloudTable["docker"])
      BY <2>4 DEF MainOK, DelayOK, CleanMain, StepOK, LoginOK, NamesOK,
              DelaySteps
  <2> QED BY <2>2, <2>3, <2>5 DEF RowOK
<1>ecloud. RowOK("ecloud", CloudTable["ecloud"])
  <2>1. CloudTable["ecloud"] = AgentRow(ecloud_main, ecloud_get_power_fn,
              ecloud_set_power_fn, <<>>, <<>>, "plug")
      BY DEF CloudTable
  <2>2. AnswersOK("ecloud", CloudTable["ecloud"])
      BY <2>1
          DEF AnswersOK, OffOK, CleanGet, CleanList, SaysOn, SaysOff, Clear, AgentRow,
              ecloud_get_power_fn
  <2>3. RequestsOK("ecloud", CloudTable["ecloud"])
      BY <2>1
          DEF RequestsOK, SetOK, CleanSet, Buttons, AgentRow, ecloud_main, Main,
              ecloud_set_power_fn, Set
  <2>4. /\ CloudTable["ecloud"].main.fns = {"get", "set"}
        /\ CloudTable["ecloud"].main.session = "dropped" /\ CloudTable["ecloud"].names =
              "plug"
        /\ Len(CloudTable["ecloud"].main.steps) = 1
        /\ CloudTable["ecloud"].main.steps[1] = "run_delay"
      BY <2>1
          DEF AgentRow, ecloud_main, Main
  <2>5. MainOK("ecloud", CloudTable["ecloud"])
      BY <2>4 DEF MainOK, DelayOK, CleanMain, StepOK, LoginOK, NamesOK,
              DelaySteps
  <2> QED BY <2>2, <2>3, <2>5 DEF RowOK
<1>shelly_gen2. RowOK("shelly_gen2", CloudTable["shelly_gen2"])
  <2>1. CloudTable["shelly_gen2"] = AgentRow(shelly_gen2_main,
              shelly_gen2_get_power_status, shelly_gen2_set_power_status, <<>>, <<>>,
              "plug")
      BY DEF CloudTable
  <2>2. AnswersOK("shelly_gen2", CloudTable["shelly_gen2"])
      BY <2>1
          DEF AnswersOK, OffOK, CleanGet, CleanList, SaysOn, SaysOff, Clear, AgentRow,
              shelly_gen2_get_power_status, shelly_gen2_send_command
  <2>3. RequestsOK("shelly_gen2", CloudTable["shelly_gen2"])
      BY <2>1
          DEF RequestsOK, SetOK, CleanSet, Buttons, AgentRow, shelly_gen2_main, Main,
              shelly_gen2_connect, shelly_gen2_set_power_status, Set
  <2>4. /\ CloudTable["shelly_gen2"].main.fns = {"get", "set"}
        /\ CloudTable["shelly_gen2"].main.session = "none" /\
              CloudTable["shelly_gen2"].names = "plug"
        /\ Len(CloudTable["shelly_gen2"].main.steps) = 2
        /\ CloudTable["shelly_gen2"].main.steps[1] = "run_delay"
        /\ CloudTable["shelly_gen2"].main.steps[2] = "open"
      BY <2>1
          DEF AgentRow, shelly_gen2_main, Main, shelly_gen2_connect
  <2>5. MainOK("shelly_gen2", CloudTable["shelly_gen2"])
      BY <2>4 DEF MainOK, DelayOK, CleanMain, StepOK, LoginOK, NamesOK,
              DelaySteps
  <2> QED BY <2>2, <2>3, <2>5 DEF RowOK
<1>skalar. RowOK("skalar", CloudTable["skalar"])
  <2>1. CloudTable["skalar"] = AgentRow(skalar_main, skalar_get_power_status,
              skalar_set_power_status(FALSE), skalar_get_list, <<>>, "plug")
      BY DEF CloudTable
  <2>2. AnswersOK("skalar", CloudTable["skalar"])
      BY <2>1, TakenFacts
          DEF AnswersOK, OffOK, CleanGet, CleanList, SaysOn, SaysOff, Clear, AgentRow,
              skalar_get_power_status, skalar_get_list
  <2>3. RequestsOK("skalar", CloudTable["skalar"])
      BY <2>1
          DEF RequestsOK, SetOK, CleanSet, Buttons, AgentRow, skalar_main, Main, Web,
              skalar_authorize_and_get_cookie, skalar_logout, skalar_set_power_status,
              Set, skalar_vm_task
  <2>4. /\ CloudTable["skalar"].main.fns = {"get", "set", "list"}
        /\ CloudTable["skalar"].main.session = "atexit" /\ CloudTable["skalar"].names =
              "plug"
        /\ Len(CloudTable["skalar"].main.steps) = 2
        /\ CloudTable["skalar"].main.steps[1] = "run_delay"
        /\ CloudTable["skalar"].main.steps[2] = "open"
      BY <2>1
          DEF AgentRow, skalar_main, Main, Web, skalar_authorize_and_get_cookie,
              skalar_logout
  <2>5. MainOK("skalar", CloudTable["skalar"])
      BY <2>4 DEF MainOK, DelayOK, CleanMain, StepOK, LoginOK, NamesOK,
              DelaySteps
  <2> QED BY <2>2, <2>3, <2>5 DEF RowOK
<1>skalar_graceful. RowOK("skalar_graceful", CloudTable["skalar_graceful"])
  <2>1. CloudTable["skalar_graceful"] = AgentRow(skalar_main, skalar_get_power_status,
              skalar_set_power_status(TRUE), skalar_get_list, <<>>, "plug")
      BY DEF CloudTable
  <2>2. AnswersOK("skalar_graceful", CloudTable["skalar_graceful"])
      BY <2>1, TakenFacts
          DEF AnswersOK, OffOK, CleanGet, CleanList, SaysOn, SaysOff, Clear, AgentRow,
              skalar_get_power_status, skalar_get_list
  <2>3. RequestsOK("skalar_graceful", CloudTable["skalar_graceful"])
      BY <2>1
          DEF RequestsOK, SetOK, CleanSet, Buttons, AgentRow, skalar_main, Main, Web,
              skalar_authorize_and_get_cookie, skalar_logout, skalar_set_power_status,
              Set, skalar_vm_task
  <2>4. /\ CloudTable["skalar_graceful"].main.fns = {"get", "set", "list"}
        /\ CloudTable["skalar_graceful"].main.session = "atexit" /\
              CloudTable["skalar_graceful"].names = "plug"
        /\ Len(CloudTable["skalar_graceful"].main.steps) = 2
        /\ CloudTable["skalar_graceful"].main.steps[1] = "run_delay"
        /\ CloudTable["skalar_graceful"].main.steps[2] = "open"
      BY <2>1
          DEF AgentRow, skalar_main, Main, Web, skalar_authorize_and_get_cookie,
              skalar_logout
  <2>5. MainOK("skalar_graceful", CloudTable["skalar_graceful"])
      BY <2>4 DEF MainOK, DelayOK, CleanMain, StepOK, LoginOK, NamesOK,
              DelaySteps
  <2> QED BY <2>2, <2>3, <2>5 DEF RowOK
<1>hetzner_cloud. RowOK("hetzner_cloud", CloudTable["hetzner_cloud"])
  <2>1. CloudTable["hetzner_cloud"] = AgentRow(hetzner_cloud_main,
              hetzner_cloud_get_power_status, hetzner_cloud_set_power_status,
              hetzner_cloud_get_list, <<>>, "plug")
      BY DEF CloudTable
  <2>2. AnswersOK("hetzner_cloud", CloudTable["hetzner_cloud"])
      BY <2>1
          DEF AnswersOK, OffOK, CleanGet, CleanList, SaysOn, SaysOff, Clear, AgentRow,
              hetzner_cloud_get_power_status, @@, hetzner_cloud_get_server,
              hetzner_cloud_get_list
  <2>3. RequestsOK("hetzner_cloud", CloudTable["hetzner_cloud"])
      BY <2>1
          DEF RequestsOK, SetOK, CleanSet, Buttons, AgentRow, hetzner_cloud_main, Main,
              hetzner_cloud_connect, hetzner_cloud_set_power_status, Set
  <2>4. /\ CloudTable["hetzner_cloud"].main.fns = {"get", "set", "list"}
        /\ CloudTable["hetzner_cloud"].main.session = "none" /\
              CloudTable["hetzner_cloud"].names = "plug"
        /\ Len(CloudTable["hetzner_cloud"].main.steps) = 2
        /\ CloudTable["hetzner_cloud"].main.steps[1] = "run_delay"
        /\ CloudTable["hetzner_cloud"].main.steps[2] = "open"
      BY <2>1
          DEF AgentRow, hetzner_cloud_main, Main, hetzner_cloud_connect
  <2>5. MainOK("hetzner_cloud", CloudTable["hetzner_cloud"])
      BY <2>4 DEF MainOK, DelayOK, CleanMain, StepOK, LoginOK, NamesOK,
              DelaySteps
  <2> QED BY <2>2, <2>3, <2>5 DEF RowOK
<1> QED BY <1>d, <1>redfish, <1>rhevm, <1>cisco_ucs, <1>vmware_rest, <1>vmware_vcloud,
        <1>pve, <1>docker, <1>ecloud, <1>shelly_gen2, <1>skalar, <1>skalar_graceful,
        <1>hetzner_cloud

\* Every row of VmTable.
LEMMA VmRows == \A a \in DOMAIN VmTable : RowOK(a, VmTable[a])
<1>d. DOMAIN VmTable = {"ovm", "xenapi", "vmware", "vmware_server1", "vmware_soap",
        "kubevirt", "ibm_vpc", "ibm_powervs", "ibmz", "openstack", "nutanix_ahv", "gce",
        "gce_baremetal", "aliyun", "aws", "azure_arm"}
    BY DEF VmTable
<1>ovm. RowOK("ovm", VmTable["ovm"])
  <2>1. VmTable["ovm"] = AgentRow(ovm_main, ovm_get_power_status,
              ovm_sync_set_power_status, ovm_get_outlet_list, <<>>, "plug")
      BY DEF VmTable
  <2>2. AnswersOK("ovm", VmTable["ovm"])
      BY <2>1, TakenFacts
          DEF AnswersOK, OffOK, CleanGet, CleanList, SaysOn, SaysOff, Clear, AgentRow,
              ovm_get_power_status, @@, ovm_send_command, ovm_get_outlet_list
  <2>3. RequestsOK("ovm", VmTable["ovm"])
      BY <2>1
          DEF RequestsOK, SetOK, CleanSet, Buttons, AgentRow, ovm_main, Having, Main,
              ovm_validate_input, ovm_sync_set_power_status, Set, ovm_send_command
  <2>4. /\ VmTable["ovm"].main.fns = {"get", "list", "sync"}
        /\ VmTable["ovm"].main.session = "none" /\ VmTable["ovm"].names = "plug"
        /\ Len(VmTable["ovm"].main.steps) = 2
        /\ VmTable["ovm"].main.steps[1] = "validate_input"
        /\ VmTable["ovm"].main.steps[2] = "run_delay"
      BY <2>1
          DEF AgentRow, ovm_main, Having, Main, ovm_validate_input
  <2>5. MainOK("ovm", VmTable["ovm"])
      BY <2>4 DEF MainOK, DelayOK, CleanMain, StepOK, LoginOK, NamesOK,
              DelaySteps
  <2> QED BY <2>2, <2>3, <2>5 DEF RowOK
<1>xenapi. RowOK("xenapi", VmTable["xenapi"])
  <2>1. VmTable["xenapi"] = AgentRow(xenapi_main, xenapi_get_power_fn,
              xenapi_set_power_fn, xenapi_get_outlet_list, <<>>,
              xenapi_return_vm_reference)
      BY DEF VmTable
  <2>2. AnswersOK("xenapi", VmTable["xenapi"])
      BY <2>1
          DEF AnswersOK, OffOK, CleanGet, CleanList, SaysOn, SaysOff, Clear, AgentRow,
              xenapi_get_power_fn, xenapi_get_outlet_list
  <2>3. RequestsOK("xenapi", VmTable["xenapi"])
      BY <2>1
          DEF RequestsOK, SetOK, CleanSet, Buttons, AgentRow, xenapi_main, Main,
              xenapi_connect_and_login, xenapi_set_power_fn, Set
  <2>4. /\ VmTable["xenapi"].main.fns = {"get", "set", "list"}
        /\ VmTable["xenapi"].main.session = "left" /\ VmTable["xenapi"].names = "uuid"
        /\ Len(VmTable["xenapi"].main.steps) = 2
        /\ VmTable["xenapi"].main.steps[1] = "run_delay"
        /\ VmTable["xenapi"].main.steps[2] = "password_login"
      BY <2>1
          DEF AgentRow, xenapi_main, Main, xenapi_connect_and_login,
              xenapi_return_vm_reference
  <2>5. MainOK("xenapi", VmTable["xenapi"])
      BY <2>4 DEF MainOK, DelayOK, CleanMain, StepOK, LoginOK, NamesOK,
              DelaySteps
  <2> QED BY <2>2, <2>3, <2>5 DEF RowOK
<1>vmware. RowOK("vmware", VmTable["vmware"])
  <2>1. VmTable["vmware"] = AgentRow(vmware_main, vmware_get_power_status("esx"),
              vmware_set_power_status, vmware_get_outlets_status, <<>>, "plug")
      BY DEF VmTable
  <2>2. AnswersOK("vmware", VmTable["vmware"])
      BY <2>1, TakenFacts
          DEF AnswersOK, OffOK, CleanGet, CleanList, SaysOn, SaysOff, Clear, AgentRow,
              vmware_get_power_status, @@, vmware_vmware_get_outlets_vix,
              vmware_vmware_run_command, vmware_vmware_get_outlets_vi,
              vmware_get_outlets_status
  <2>3. RequestsOK("vmware", VmTable["vmware"])
      BY <2>1
          DEF RequestsOK, SetOK, CleanSet, Buttons, AgentRow, vmware_main, Having, Main,
              vmware_set_power_status, Set
  <2>4. /\ VmTable["vmware"].main.fns = {"get", "set", "list"}
        /\ VmTable["vmware"].main.session = "none" /\ VmTable["vmware"].names = "plug"
        /\ Len(VmTable["vmware"].main.steps) = 4
        /\ VmTable["vmware"].main.steps[1] = "run_delay"
        /\ VmTable["vmware"].main.steps[2] = "vmware_type"
        /\ VmTable["vmware"].main.steps[3] = "vmrun_version"
        /\ VmTable["vmware"].main.steps[4] = "prepare_command"
      BY <2>1
          DEF AgentRow, vmware_main, Having, Main, vmware_vmware_check_vmware_type,
              vmware_vmware_is_supported_vmrun_version, vmware_vmware_prepare_command
  <2>5. MainOK("vmware", VmTable["vmware"])
      BY <2>4 DEF MainOK, DelayOK, CleanMain, StepOK, LoginOK, NamesOK,
              DelaySteps
  <2> QED BY <2>2, <2>3, <2>5 DEF RowOK
<1>vmware_server1. RowOK("vmware_server1", VmTable["vmware_server1"])
  <2>1. VmTable["vmware_server1"] = AgentRow(vmware_main,
              vmware_get_power_status("server1"), vmware_set_power_status,
              vmware_vmware_get_outlets_vix, <<>>, "plug")
      BY DEF VmTable
  <2>2. AnswersOK("vmware_server1", VmTable["vmware_server1"])
      BY <2>1, TakenFacts
          DEF AnswersOK, OffOK, CleanGet, CleanList, SaysOn, SaysOff, Clear, AgentRow,
              vmware_get_power_status, @@, vmware_vmware_get_outlets_vix,
              vmware_vmware_run_command, vmware_vmware_get_outlets_vi
  <2>3. RequestsOK("vmware_server1", VmTable["vmware_server1"])
      BY <2>1
          DEF RequestsOK, SetOK, CleanSet, Buttons, AgentRow, vmware_main, Having, Main,
              vmware_set_power_status, Set
  <2>4. /\ VmTable["vmware_server1"].main.fns = {"get", "set", "list"}
        /\ VmTable["vmware_server1"].main.session = "none" /\
              VmTable["vmware_server1"].names = "plug"
        /\ Len(VmTable["vmware_server1"].main.steps) = 4
        /\ VmTable["vmware_server1"].main.steps[1] = "run_delay"
        /\ VmTable["vmware_server1"].main.steps[2] = "vmware_type"
        /\ VmTable["vmware_server1"].main.steps[3] = "vmrun_version"
        /\ VmTable["vmware_server1"].main.steps[4] = "prepare_command"
      BY <2>1
          DEF AgentRow, vmware_main, Having, Main, vmware_vmware_check_vmware_type,
              vmware_vmware_is_supported_vmrun_version, vmware_vmware_prepare_command
  <2>5. MainOK("vmware_server1", VmTable["vmware_server1"])
      BY <2>4 DEF MainOK, DelayOK, CleanMain, StepOK, LoginOK, NamesOK,
              DelaySteps
  <2> QED BY <2>2, <2>3, <2>5 DEF RowOK
<1>vmware_soap. RowOK("vmware_soap", VmTable["vmware_soap"])
  <2>1. VmTable["vmware_soap"] = AgentRow(vmware_soap_main,
              vmware_soap_get_power_status, vmware_soap_set_power_status,
              vmware_soap_process_results, <<>>, "first")
      BY DEF VmTable
  <2>2. AnswersOK("vmware_soap", VmTable["vmware_soap"])
      BY <2>1, TakenFacts
          DEF AnswersOK, OffOK, CleanGet, CleanList, SaysOn, SaysOff, Clear, AgentRow,
              vmware_soap_get_power_status, vmware_soap_process_results
  <2>3. RequestsOK("vmware_soap", VmTable["vmware_soap"])
      BY <2>1
          DEF RequestsOK, SetOK, CleanSet, Buttons, AgentRow, vmware_soap_main, Main,
              vmware_soap_soap_login, vmware_soap_logout, vmware_soap_set_power_status,
              Set
  <2>4. /\ VmTable["vmware_soap"].main.fns = {"get", "set", "list"}
        /\ VmTable["vmware_soap"].main.session = "atexit" /\ VmTable["vmware_soap"].names =
              "first"
        /\ Len(VmTable["vmware_soap"].main.steps) = 2
        /\ VmTable["vmware_soap"].main.steps[1] = "run_delay"
        /\ VmTable["vmware_soap"].main.steps[2] = "open"
      BY <2>1
          DEF AgentRow, vmware_soap_main, Main, vmware_soap_soap_login, vmware_soap_logout
  <2>5. MainOK("vmware_soap", VmTable["vmware_soap"])
      BY <2>4 DEF MainOK, DelayOK, CleanMain, StepOK, LoginOK, NamesOK,
              DelaySteps
  <2> QED BY <2>2, <2>3, <2>5 DEF RowOK
<1>kubevirt. RowOK("kubevirt", VmTable["kubevirt"])
  <2>1. VmTable["kubevirt"] = AgentRow(kubevirt_main, kubevirt_get_power_status,
              kubevirt_set_power_status, kubevirt_get_nodes_list, <<>>, "plug")
      BY DEF VmTable
  <2>2. AnswersOK("kubevirt", VmTable["kubevirt"])
      BY <2>1
          DEF AnswersOK, OffOK, CleanGet, CleanList, SaysOn, SaysOff, Clear, AgentRow,
              kubevirt_get_power_status, @@, kubevirt_translate_status,
              kubevirt_get_nodes_list
  <2>3. RequestsOK("kubevirt", VmTable["kubevirt"])
      BY <2>1
          DEF RequestsOK, SetOK, CleanSet, Buttons, AgentRow, kubevirt_main, Main,
              kubevirt_set_power_status, Set
  <2>4. /\ VmTable["kubevirt"].main.fns = {"get", "set", "list"}
        /\ VmTable["kubevirt"].main.session = "none" /\ VmTable["kubevirt"].names = "plug"
        /\ Len(VmTable["kubevirt"].main.steps) = 2
        /\ VmTable["kubevirt"].main.steps[1] = "run_delay"
        /\ VmTable["kubevirt"].main.steps[2] = "kubeconfig"
      BY <2>1
          DEF AgentRow, kubevirt_main, Main
  <2>5. MainOK("kubevirt", VmTable["kubevirt"])
      BY <2>4 DEF MainOK, DelayOK, CleanMain, StepOK, LoginOK, NamesOK,
              DelaySteps
  <2> QED BY <2>2, <2>3, <2>5 DEF RowOK
<1>ibm_vpc. RowOK("ibm_vpc", VmTable["ibm_vpc"])
  <2>1. VmTable["ibm_vpc"] = AgentRow(ibm_vpc_main, ibm_vpc_get_power_status,
              ibm_vpc_set_power_status, ibm_vpc_get_list, <<>>, "plug")
      BY DEF VmTable
  <2>2. AnswersOK("ibm_vpc", VmTable["ibm_vpc"])
      BY <2>1
          DEF AnswersOK, OffOK, CleanGet, CleanList, SaysOn, SaysOff, Clear, AgentRow,
              ibm_vpc_get_power_status, ibm_vpc_get_list
  <2>3. RequestsOK("ibm_vpc", VmTable["ibm_vpc"])
      BY <2>1
          DEF RequestsOK, SetOK, CleanSet, Buttons, AgentRow, ibm_vpc_main, Main,
              ibm_vpc_connect, ibm_vpc_set_power_status, Set
  <2>4. /\ VmTable["ibm_vpc"].main.fns = {"get", "set", "list"}
        /\ VmTable["ibm_vpc"].main.session = "none" /\ VmTable["ibm_vpc"].names = "plug"
        /\ Len(VmTable["ibm_vpc"].main.steps) = 3
        /\ VmTable["ibm_vpc"].main.steps[1] = "run_delay"
        /\ VmTable["ibm_vpc"].main.steps[2] = "key_file"
        /\ VmTable["ibm_vpc"].main.steps[3] = "open"
      BY <2>1
          DEF AgentRow, ibm_vpc_main, Main, ibm_vpc_connect
  <2>5. MainOK("ibm_vpc", VmTable["ibm_vpc"])
      BY <2>4 DEF MainOK, DelayOK, CleanMain, StepOK, LoginOK, NamesOK,
              DelaySteps
  <2> QED BY <2>2, <2>3, <2>5 DEF RowOK
<1>ibm_powervs. RowOK("ibm_powervs", VmTable["ibm_powervs"])
  <2>1. VmTable["ibm_powervs"] = AgentRow(ibm_powervs_main,
              ibm_powervs_get_power_status, ibm_powervs_set_power_status,
              ibm_powervs_get_list, ibm_powervs_reboot_cycle, "plug")
      BY DEF VmTable
  <2>2. AnswersOK("ibm_powervs", VmTable["ibm_powervs"])
      BY <2>1
          DEF AnswersOK, OffOK, CleanGet, CleanList, SaysOn, SaysOff, Clear, AgentRow,
              ibm_powervs_get_power_status, @@, ibm_powervs_send_command,
              ibm_powervs_get_list
  <2>3. RequestsOK("ibm_powervs", VmTable["ibm_powervs"])
      BY <2>1
          DEF RequestsOK, SetOK, CleanSet, Buttons, AgentRow, ibm_powervs_main, Main,
              ibm_powervs_get_token, ibm_powervs_set_power_status, Set,
              ibm_powervs_reboot_cycle, Cycled
  <2>4. /\ VmTable["ibm_powervs"].main.fns = {"get", "set", "cycle", "list"}
        /\ VmTable["ibm_powervs"].main.session = "none" /\ VmTable["ibm_powervs"].names =
              "plug"
        /\ Len(VmTable["ibm_powervs"].main.steps) = 1
        /\ VmTable["ibm_powervs"].main.steps[1] = "run_delay"
      BY <2>1
          DEF AgentRow, ibm_powervs_main, Main, ibm_powervs_get_token
  <2>5. MainOK("ibm_powervs", VmTable["ibm_powervs"])
      BY <2>4 DEF MainOK, DelayOK, CleanMain, StepOK, LoginOK, NamesOK,
              DelaySteps
  <2> QED BY <2>2, <2>3, <2>5 DEF RowOK
<1>ibmz. RowOK("ibmz", VmTable["ibmz"])
  <2>1. VmTable["ibmz"] = AgentRow(ibmz_main, ibmz_get_power_status,
              ibmz_set_power_status, ibmz_get_outlet_list, <<>>, "plug")
      BY DEF VmTable
  <2>2. AnswersOK("ibmz", VmTable["ibmz"])
      BY <2>1, TakenFacts
          DEF AnswersOK, OffOK, CleanGet, CleanList, SaysOn, SaysOff, Clear, AgentRow,
              ibmz_get_power_status, @@, ibmz_partition_status, ibmz__get_partition,
              ibmz__request, ibmz_parse_plug, ibmz_get_outlet_list, ibmz_partition_list
  <2>3. RequestsOK("ibmz", VmTable["ibmz"])
      BY <2>1
          DEF RequestsOK, SetOK, CleanSet, Buttons, AgentRow, ibmz_main, Having, Main,
              ibmz_logon, ibmz_disconnect, ibmz_set_power_status, Set,
              ibmz__partition_switch_power, ibmz__wait_for_job
  <2>4. /\ VmTable["ibmz"].main.fns = {"get", "set", "list"}
        /\ VmTable["ibmz"].main.session = "atexit" /\ VmTable["ibmz"].names = "plug"
        /\ Len(VmTable["ibmz"].main.steps) = 2
        /\ VmTable["ibmz"].main.steps[1] = "run_delay"
        /\ VmTable["ibmz"].main.steps[2] = "open"
      BY <2>1
          DEF AgentRow, ibmz_main, Having, Main, ibmz_logon, ibmz_disconnect
  <2>5. MainOK("ibmz", VmTable["ibmz"])
      BY <2>4 DEF MainOK, DelayOK, CleanMain, StepOK, LoginOK, NamesOK,
              DelaySteps
  <2> QED BY <2>2, <2>3, <2>5 DEF RowOK
<1>openstack. RowOK("openstack", VmTable["openstack"])
  <2>1. VmTable["openstack"] = AgentRow(openstack_main, openstack_get_power_status,
              openstack_set_power_status, openstack_get_nodes_list, <<>>, "plug")
      BY DEF VmTable
  <2>2. AnswersOK("openstack", VmTable["openstack"])
      BY <2>1
          DEF AnswersOK, OffOK, CleanGet, CleanList, SaysOn, SaysOff, Clear, AgentRow,
              openstack_get_power_status, @@, openstack_translate_status,
              openstack_get_nodes_list
  <2>3. RequestsOK("openstack", VmTable["openstack"])
      BY <2>1
          DEF RequestsOK, SetOK, CleanSet, Buttons, AgentRow, openstack_main, Main,
              openstack_get_cloud, openstack_nova_login, openstack_set_power_status, Set
  <2>4. /\ VmTable["openstack"].main.fns = {"get", "set", "list"}
        /\ VmTable["openstack"].main.session = "none" /\ VmTable["openstack"].names = "plug"
        /\ Len(VmTable["openstack"].main.steps) = 4
        /\ VmTable["openstack"].main.steps[1] = "plug_given"
        /\ VmTable["openstack"].main.steps[2] = "run_delay"
        /\ VmTable["openstack"].main.steps[3] = "clouds_yaml"
        /\ VmTable["openstack"].main.steps[4] = "open"
      BY <2>1
          DEF AgentRow, openstack_main, Main, openstack_get_cloud, openstack_nova_login
  <2>5. MainOK("openstack", VmTable["openstack"])
      BY <2>4 DEF MainOK, DelayOK, CleanMain, StepOK, LoginOK, NamesOK,
              DelaySteps
  <2> QED BY <2>2, <2>3, <2>5 DEF RowOK
<1>nutanix_ahv. RowOK("nutanix_ahv", VmTable["nutanix_ahv"])
  <2>1. VmTable["nutanix_ahv"] = AgentRow(nutanix_ahv_main,
              nutanix_ahv_get_power_status, nutanix_ahv_set_power_status,
              nutanix_ahv_get_list, nutanix_ahv_power_cycle, "uuid")
      BY DEF VmTable
  <2>2. AnswersOK("nutanix_ahv", VmTable["nutanix_ahv"])
      BY <2>1, TakenFacts
          DEF AnswersOK, OffOK, CleanGet, CleanList, SaysOn, SaysOff, Clear, AgentRow,
              nutanix_ahv_get_power_status, @@, nutanix_ahv_get_power_state,
              nutanix_ahv_get_list, nutanix_ahv_list_vms
  <2>3. RequestsOK("nutanix_ahv", VmTable["nutanix_ahv"])
      BY <2>1
          DEF RequestsOK, SetOK, CleanSet, Buttons, AgentRow, nutanix_ahv_main, Main,
              nutanix_ahv_connect, nutanix_ahv_set_power_status, Set,
              nutanix_ahv_set_power_state, nutanix_ahv__wait_for_task,
              nutanix_ahv_power_cycle, Cycled, nutanix_ahv_power_cycle_vm
  <2>4. /\ VmTable["nutanix_ahv"].main.fns = {"get", "set", "cycle", "list"}
        /\ VmTable["nutanix_ahv"].main.session = "none" /\ VmTable["nutanix_ahv"].names =
              "uuid"
        /\ Len(VmTable["nutanix_ahv"].main.steps) = 2
        /\ VmTable["nutanix_ahv"].main.steps[1] = "run_delay"
        /\ VmTable["nutanix_ahv"].main.steps[2] = "open"
      BY <2>1
          DEF AgentRow, nutanix_ahv_main, Main, nutanix_ahv_connect
  <2>5. MainOK("nutanix_ahv", VmTable["nutanix_ahv"])
      BY <2>4 DEF MainOK, DelayOK, CleanMain, StepOK, LoginOK, NamesOK,
              DelaySteps
  <2> QED BY <2>2, <2>3, <2>5 DEF RowOK
<1>gce. RowOK("gce", VmTable["gce"])
  <2>1. VmTable["gce"] = AgentRow(gce_main, gce_get_power_status(FALSE),
              gce_set_power_status, gce_get_nodes_list, gce_power_cycle, "plug")
      BY DEF VmTable
  <2>2. AnswersOK("gce", VmTable["gce"])
      BY <2>1
          DEF AnswersOK, OffOK, CleanGet, CleanList, SaysOn, SaysOff, Clear, AgentRow,
              gce_get_power_status, @@, gce_get_instance_power_status,
              gce_translate_status, gce_get_zone, gce_get_nodes_list
  <2>3. RequestsOK("gce", VmTable["gce"])
      BY <2>1
          DEF RequestsOK, SetOK, CleanSet, Buttons, AgentRow, gce_main, Main,
              gce_set_power_status, Set, gce_set_instance_power_status, gce_power_cycle,
              Cycled, gce_power_cycle_instance, gce_wait_for_operation
  <2>4. /\ VmTable["gce"].main.fns = {"get", "set", "cycle", "list"}
        /\ VmTable["gce"].main.session = "none" /\ VmTable["gce"].names = "plug"
        /\ Len(VmTable["gce"].main.steps) = 3
        /\ VmTable["gce"].main.steps[1] = "run_delay"
        /\ VmTable["gce"].main.steps[2] = "open"
        /\ VmTable["gce"].main.steps[3] = "zones"
      BY <2>1
          DEF AgentRow, gce_main, Main
  <2>5. MainOK("gce", VmTable["gce"])
      BY <2>4 DEF MainOK, DelayOK, CleanMain, StepOK, LoginOK, NamesOK,
              DelaySteps
  <2> QED BY <2>2, <2>3, <2>5 DEF RowOK
<1>gce_baremetal. RowOK("gce_baremetal", VmTable["gce_baremetal"])
  <2>1. VmTable["gce_baremetal"] = AgentRow(gce_main, gce_get_power_status(TRUE),
              gce_set_power_status, gce_get_nodes_list, gce_power_cycle, "plug")
      BY DEF VmTable
  <2>2. AnswersOK("gce_baremetal", VmTable["gce_baremetal"])
      BY <2>1
          DEF AnswersOK, OffOK, CleanGet, CleanList, SaysOn, SaysOff, Clear, AgentRow,
              gce_get_power_status, @@, gce_get_instance_power_status,
              gce_translate_status, gce_get_zone, gce_get_nodes_list
  <2>3. RequestsOK("gce_baremetal", VmTable["gce_baremetal"])
      BY <2>1
          DEF RequestsOK, SetOK, CleanSet, Buttons, AgentRow, gce_main, Main,
              gce_set_power_status, Set, gce_set_instance_power_status, gce_power_cycle,
              Cycled, gce_power_cycle_instance, gce_wait_for_operation
  <2>4. /\ VmTable["gce_baremetal"].main.fns = {"get", "set", "cycle", "list"}
        /\ VmTable["gce_baremetal"].main.session = "none" /\ VmTable["gce_baremetal"].names
              = "plug"
        /\ Len(VmTable["gce_baremetal"].main.steps) = 3
        /\ VmTable["gce_baremetal"].main.steps[1] = "run_delay"
        /\ VmTable["gce_baremetal"].main.steps[2] = "open"
        /\ VmTable["gce_baremetal"].main.steps[3] = "zones"
      BY <2>1
          DEF AgentRow, gce_main, Main
  <2>5. MainOK("gce_baremetal", VmTable["gce_baremetal"])
      BY <2>4 DEF MainOK, DelayOK, CleanMain, StepOK, LoginOK, NamesOK,
              DelaySteps
  <2> QED BY <2>2, <2>3, <2>5 DEF RowOK
<1>aliyun. RowOK("aliyun", VmTable["aliyun"])
  <2>1. VmTable["aliyun"] = AgentRow(aliyun_main, aliyun_get_power_status,
              aliyun_set_power_status, aliyun_get_nodes_list, <<>>, "plug")
      BY DEF VmTable
  <2>2. AnswersOK("aliyun", VmTable["aliyun"])
      BY <2>1
          DEF AnswersOK, OffOK, CleanGet, CleanList, SaysOn, SaysOff, Clear, AgentRow,
              aliyun_get_power_status, @@, aliyun_get_status, aliyun__send_request,
              aliyun_get_nodes_list
  <2>3. RequestsOK("aliyun", VmTable["aliyun"])
      BY <2>1
          DEF RequestsOK, SetOK, CleanSet, Buttons, AgentRow, aliyun_main, Main,
              aliyun_set_power_status, Set, aliyun__send_request
  <2>4. /\ VmTable["aliyun"].main.fns = {"get", "set", "list"}
        /\ VmTable["aliyun"].main.session = "none" /\ VmTable["aliyun"].names = "plug"
        /\ Len(VmTable["aliyun"].main.steps) = 2
        /\ VmTable["aliyun"].main.steps[1] = "run_delay"
        /\ VmTable["aliyun"].main.steps[2] = "credentials"
      BY <2>1
          DEF AgentRow, aliyun_main, Main
  <2>5. MainOK("aliyun", VmTable["aliyun"])
      BY <2>4 DEF MainOK, DelayOK, CleanMain, StepOK, LoginOK, NamesOK,
              DelaySteps
  <2> QED BY <2>2, <2>3, <2>5 DEF RowOK
<1>aws. RowOK("aws", VmTable["aws"])
  <2>1. VmTable["aws"] = AgentRow(aws_main, aws_get_power_status, aws_set_power_status,
              aws_get_nodes_list, <<>>, "plug")
      BY DEF VmTable
  <2>2. AnswersOK("aws", VmTable["aws"])
      BY <2>1
          DEF AnswersOK, OffOK, CleanGet, CleanList, SaysOn, SaysOff, Clear, AgentRow,
              aws_get_power_status, aws_get_nodes_list
  <2>3. RequestsOK("aws", VmTable["aws"])
      BY <2>1
          DEF RequestsOK, SetOK, CleanSet, Buttons, AgentRow, aws_main, Main,
              aws_set_power_status, Set
  <2>4. /\ VmTable["aws"].main.fns = {"get", "set", "list"}
        /\ VmTable["aws"].main.session = "none" /\ VmTable["aws"].names = "plug"
        /\ Len(VmTable["aws"].main.steps) = 2
        /\ VmTable["aws"].main.steps[1] = "run_delay"
        /\ VmTable["aws"].main.steps[2] = "open"
      BY <2>1
          DEF AgentRow, aws_main, Main
  <2>5. MainOK("aws", VmTable["aws"])
      BY <2>4 DEF MainOK, DelayOK, CleanMain, StepOK, LoginOK, NamesOK,
              DelaySteps
  <2> QED BY <2>2, <2>3, <2>5 DEF RowOK
<1>azure_arm. RowOK("azure_arm", VmTable["azure_arm"])
  <2>1. VmTable["azure_arm"] = AgentRow(azure_arm_main, azure_arm_get_power_status,
              azure_arm_set_power_status, azure_arm_get_nodes_list, <<>>, "plug")
      BY DEF VmTable
  <2>2. AnswersOK("azure_arm", VmTable["azure_arm"])
      BY <2>1
          DEF AnswersOK, OffOK, CleanGet, CleanList, SaysOn, SaysOff, Clear, AgentRow,
              azure_arm_get_power_status, azure_arm_get_nodes_list
  <2>3. RequestsOK("azure_arm", VmTable["azure_arm"])
      BY <2>1
          DEF RequestsOK, SetOK, CleanSet, Buttons, AgentRow, azure_arm_main, Main,
              azure_arm_set_power_status, Set
  <2>4. /\ VmTable["azure_arm"].main.fns = {"get", "set", "list"}
        /\ VmTable["azure_arm"].main.session = "none" /\ VmTable["azure_arm"].names = "plug"
        /\ Len(VmTable["azure_arm"].main.steps) = 2
        /\ VmTable["azure_arm"].main.steps[1] = "run_delay"
        /\ VmTable["azure_arm"].main.steps[2] = "azure_clients"
      BY <2>1
          DEF AgentRow, azure_arm_main, Main
  <2>5. MainOK("azure_arm", VmTable["azure_arm"])
      BY <2>4 DEF MainOK, DelayOK, CleanMain, StepOK, LoginOK, NamesOK,
              DelaySteps
  <2> QED BY <2>2, <2>3, <2>5 DEF RowOK
<1> QED BY <1>d, <1>ovm, <1>xenapi, <1>vmware, <1>vmware_server1, <1>vmware_soap,
        <1>kubevirt, <1>ibm_vpc, <1>ibm_powervs, <1>ibmz, <1>openstack, <1>nutanix_ahv,
        <1>gce, <1>gce_baremetal, <1>aliyun, <1>aws, <1>azure_arm

\* Every agent of the tables.
LEMMA TableRows == \A a \in DOMAIN Table : RowOK(a, Table[a])
BY ShellRows, SnmpRows, CloudRows, VmRows DEF Table, @@

\* The agent that is run.
LEMMA RowFacts ==
    ASSUME agent \in Agents
    PROVE  /\ OffOK(agent, Row.get) /\ OffOK(agent, Row.list)
           /\ CleanGet(agent, Row) /\ CleanList(agent, Row)
           /\ SetOK(agent, Row) /\ CleanSet(agent, Row)
           /\ DelayOK(agent, Row) /\ NamesOK(agent, Row) /\ CleanMain(agent, Row)
           /\ LoginOK(agent, Row.main)
BY TableRows, AgentsAssumption DEF Row, RowOK, AnswersOK, RequestsOK, MainOK

----------------------------------------------------------------------------
(* The control of a run.                                                   *)

\* The values that the proofs rely on.
RunType ==
    /\ agent \in Agents
    /\ pc \in Callbacks \cup {"input", "main", "start", "decide", "done"}
    /\ pc # "input" => opt \in Options
    /\ plug \in Plugs /\ kept \in 0 .. NPlugs
    /\ acc \in Readings /\ success \in BOOLEAN
    /\ power \in [Plugs -> {"on", "off"}]
    /\ cmd \in [Plugs -> {"none", "on", "off", "cycle", "toggle"}]

\* Which requests and which value of --action go with which part of a run.
RunControl ==
    /\ pc \in {"input", "main", "start"} => plug = 1 /\ acc = "off" /\ status = "none"
    /\ pc \in {"main", "start", "list", "status", "decide", "cycle"} => action = opt.action
    /\ pc \in {"set", "poll", "sync"} =>
          action \in {"on", "off"} /\ opt.action \in {action, "reboot"} /\ ~Cycle
    /\ pc \in {"set", "poll"} => opt.fns = "async"
    /\ pc = "cycle" => Cycle
    /\ pc # "input" /\ OnPortion => ~Cycle
    /\ pc # "input" /\ opt.action \in {"on", "off"} => action = opt.action
    /\ pc = "list" => opt.action \in {"list", "monitor"}
    /\ pc = "decide" /\ status = "none" => opt.noStatus
    /\ status \in {"none", "on", "off"}
    /\ pc = "done" <=> result # -1
    /\ pc # "input" =>
          /\ opt.fns = "async" => "set" \in Row.main.fns
          /\ opt.noStatus = Has("no_status")

\* The invariant that all others rest on.
RunInv == RunType /\ RunControl

\* What the assumption says of the option record of a run.
LEMMA OptionFacts ==
    ASSUME NEW o \in Options
    PROVE  /\ o.action \in Actions
           /\ o.fns \in {"async", "sync", "none"}
           /\ o.noStatus \in BOOLEAN
           /\ o.action = "status" => ~o.noStatus
BY FenceActionAssumption DEF OptionSpace, _get_available_actions, Actions

\* The state before the input is looked at.
LEMMA InitRunInv == RunInit => RunInv
<1> SUFFICES ASSUME RunInit PROVE RunInv
    OBVIOUS
<1>1. RunType
    BY FenceActionAssumption DEF RunInit, RunType, Plugs, Readings
<1>2. RunControl
    BY DEF RunInit, RunControl
<1> QED BY <1>1, <1>2 DEF RunInv

\* The machine that a callback reaches.
LEMMA TargetType == RunType => Target \in 0 .. NPlugs
BY FenceActionAssumption DEF RunType, Target, Plugs

----------------------------------------------------------------------------
(* How a step leaves the control in order.                                 *)

\* The process ends.
LEMMA ExitKeeps ==
    ASSUME RunInv, pc # "input", NEW c \in 0 .. 2, Exit(c),
           action' = action \/ (action' = "reboot" /\ opt.action = "reboot"), agent' = agent
    PROVE  RunControl'
BY DEF RunInv, RunType, RunControl, Exit, OnPortion, Cycle, Row, Has

\* The loops of set_multi_power_fn start.
LEMMA BeginSetKeeps ==
    ASSUME RunInv, pc # "input", NEW a \in {"on", "off"}, BeginSet(a),
           opt.action \in {a, "reboot"}, ~Cycle, opt.fns # "none", pc # "done", agent' = agent
    PROVE  RunControl'
BY DEF RunInv, RunType, RunControl, BeginSet, OnPortion, Cycle, Row, Has

\* fence_action goes on after set_multi_power_fn.
LEMMA SetReturnedKeeps ==
    ASSUME RunInv, NEW ok \in BOOLEAN, SetReturned(ok), pc \in {"poll", "sync"}, agent' = agent
    PROVE  RunControl'
<1>1. action \in {"on", "off"} /\ opt.action \in {action, "reboot"} /\ ~Cycle
    BY DEF RunInv, RunControl
<1>2. CASE pc' = "done"
    BY <1>1, <1>2, ExitKeeps DEF SetReturned, StartOnPortion, BeginSet
<1>3. CASE pc' # "done"
    BY <1>1, <1>3, BeginSetKeeps DEF SetReturned, StartOnPortion, Exit, Trivial
<1> QED BY <1>2, <1>3

\* A callback that breaks off.
LEMMA BrokenKeeps ==
    ASSUME RunInv, pc # "input", NEW how, Broken(how), agent' = agent
    PROVE  RunControl'
BY ExitKeeps DEF Broken, OnPortion

\* The next turn of a loop.
LEMMA TurnKeeps ==
    ASSUME RunInv, pc \notin {"input", "main", "start", "decide"}, agent' = agent,
           UNCHANGED <<opt, pc, action, status, result>>
    PROVE  RunControl'
BY DEF RunInv, RunControl, OnPortion, Cycle, Row, Has

\* One reading.
LEMMA ReadKeeps ==
    ASSUME RunInv, NEW reading \in Readings, ReadPlug(reading), agent' = agent
    PROVE  RunControl'
<1>1. pc \in {"status", "poll"}
    BY DEF ReadPlug
<1>2. CASE plug < NPlugs
  <2>1. UNCHANGED <<opt, pc, action, status, result>>
      BY <1>2 DEF ReadPlug
  <2> QED BY <2>1, <1>1, TurnKeeps
<1>3. CASE ~(plug < NPlugs) /\ pc = "status"
  <2>1. PICK s : s = Aggregate(acc, reading)
      OBVIOUS
  <2>2. StatusKnown(s)
      BY <1>3, <2>1 DEF ReadPlug
  <2>3. CASE s \in {"on", "off"}
    <3>1. /\ action' = action /\ pc' = "decide" /\ status' = s
          /\ UNCHANGED <<opt, plug, acc, success, result>>
        BY <2>2, <2>3 DEF StatusKnown
    <3> QED BY <3>1, <2>3, <1>3 DEF RunInv, RunControl, OnPortion, Cycle, Row, Has
  <2>4. CASE s \notin {"on", "off"}
      BY <2>2, <2>4, <1>1, ExitKeeps DEF StatusKnown
  <2> QED BY <2>3, <2>4
<1>4. CASE ~(plug < NPlugs) /\ pc = "poll"
  <2>1. PICK s : s = Aggregate(acc, reading)
      OBVIOUS
  <2>2. Polled(s)
      BY <1>4, <2>1 DEF ReadPlug
  <2>3. CASE SetReturned(TRUE) \/ SetReturned(FALSE)
      BY <2>3, <1>1, SetReturnedKeeps, <1>4
  <2>4. CASE ~(SetReturned(TRUE) \/ SetReturned(FALSE))
    <3>1. /\ pc' \in {"set", "poll"}
          /\ UNCHANGED <<opt, action, status, result>>
        BY <2>2, <2>4, <1>4 DEF Polled
    <3> QED BY <3>1, <1>4 DEF RunInv, RunControl, OnPortion, Cycle, Row, Has
  <2> QED BY <2>3, <2>4
<1> QED BY <1>1, <1>2, <1>3, <1>4

\* The process ends with another value of --action.
LEMMA ExitAs ==
    ASSUME RunInv, pc # "input", NEW c \in 0 .. 2, Exit(c), NEW a \in {"on", "off"},
           action' = a, opt.action \in {a, "reboot"}, ~Cycle, agent' = agent
    PROVE  RunControl'
BY DEF RunInv, RunType, RunControl, Exit, OnPortion, Cycle, Row, Has

\* fence_action has its status and chooses what to do.
LEMMA DecideKeeps ==
    ASSUME RunInv, fence_action_decide, agent' = agent
    PROVE  RunControl'
<1>1. pc = "decide" /\ action = opt.action
    BY DEF fence_action_decide, RunInv, RunControl
<1>2. ASSUME NEW a \in {"on", "off"}, CallSet(a), opt.action \in {a, "reboot"}, ~Cycle
      PROVE  RunControl'
    BY <1>1, <1>2, ExitAs, BeginSetKeeps DEF CallSet, Trivial
<1>3. ASSUME StartOnPortion, opt.action = "reboot", ~Cycle
      PROVE  RunControl'
    BY <1>1, <1>3, ExitKeeps, BeginSetKeeps DEF StartOnPortion, Trivial
<1>4. ASSUME NEW c \in 0 .. 2, Exit(c), action' = action
      PROVE  RunControl'
    BY <1>1, <1>4, ExitKeeps
<1>5. ASSUME Cycle, pc' = "cycle", UNCHANGED <<opt, action, status, result>>
      PROVE  RunControl'
    BY <1>1, <1>5 DEF RunInv, RunControl, OnPortion, Cycle, Row, Has
<1>6. opt.action \in {"on", "off"} => ~Cycle
    BY DEF Cycle
<1> QED BY <1>2, <1>3, <1>4, <1>5, <1>6 DEF fence_action_decide

\* Every step of a run.
LEMMA ControlStep == RunInv /\ [RunNext]_agentRunVars => RunControl'
<1> SUFFICES ASSUME RunInv, [RunNext]_agentRunVars PROVE RunControl'
    OBVIOUS
<1>1. CASE CheckInput
  <2>1. /\ pc = "input" /\ agent' = agent /\ opt' \in {o \in Options : Fits(o)}
        /\ action' = opt'.action /\ UNCHANGED <<plug, acc, status>>
        /\ \/ pc' = "main" /\ result' = result
           \/ pc' = "done" /\ result' = 1
      BY <1>1 DEF CheckInput
  <2>2. /\ opt'.fns = "async" => "set" \in Row.main.fns
        /\ opt'.noStatus = Has("no_status")
      BY <2>1 DEF Fits
  <2>3. OnPortion' => FALSE
      BY <2>1 DEF OnPortion
  <2> QED BY <2>1, <2>2, <2>3 DEF RunInv, RunControl, Row, Has
<1>2. CASE MainStep
  <2>1. /\ pc = "main" /\ agent' = agent
        /\ \/ Exit(0) /\ action' = action
           \/ pc' \in {"main", "start"} /\ UNCHANGED <<opt, action, plug, acc, status, result>>
      BY <1>2 DEF MainStep, MainGoesOn
  <2>2. CASE Exit(0) /\ action' = action
      BY <2>1, <2>2, ExitKeeps
  <2>3. CASE pc' \in {"main", "start"} /\ UNCHANGED <<opt, action, plug, acc, status, result>>
      BY <2>1, <2>3 DEF RunInv, RunControl, OnPortion, Cycle, Row, Has
  <2> QED BY <2>1, <2>2, <2>3
<1>3. CASE MainStepFails \/ List
  <2>1. /\ pc \in {"main", "list"} /\ agent' = agent /\ action' = action
        /\ Exit(0) \/ Exit(1)
      BY <1>3 DEF MainStepFails, List
  <2> QED BY <2>1, ExitKeeps
<1>4. CASE Start
  <2>1. /\ pc = "start" /\ agent' = agent /\ plug' = 1 /\ acc' = "off"
        /\ UNCHANGED <<opt, action, status>>
        /\ \/ pc' = "list" /\ Listing /\ result' = result
           \/ pc' = "done" /\ result' = 0
           \/ pc' = "decide" /\ opt.noStatus /\ result' = result
           \/ pc' = "status" /\ result' = result
      BY <1>4 DEF Start, fence_action_start, runVars
  <2> QED BY <2>1 DEF RunInv, RunControl, OnPortion, Cycle, Row, Has, Listing
<1>5. CASE Decide
    BY <1>5, DecideKeeps DEF Decide, runVars
<1>6. CASE Query
  <2>1. agent' = agent /\ pc \in {"status", "poll"}
      BY <1>6 DEF Query
  <2> QED BY <2>1, <1>6, ReadKeeps, BrokenKeeps DEF Query
<1>7. CASE Command \/ CommandRefused
  <2>1. agent' = agent /\ pc = "set"
      BY <1>7 DEF Command, CommandRefused
  <2>2. CASE CommandSent
    <3>1. pc' \in {"set", "poll"} /\ UNCHANGED <<opt, action, status, result>>
        BY <2>2 DEF CommandSent
    <3> QED BY <3>1, <2>1 DEF RunInv, RunControl, OnPortion, Cycle, Row, Has
  <2>3. CASE ~CommandSent
      BY <2>1, <2>3, <1>7, BrokenKeeps DEF Command, CommandRefused
  <2> QED BY <2>2, <2>3
<1>8. CASE SyncCommand
  <2>1. agent' = agent /\ pc = "sync"
      BY <1>8 DEF SyncCommand
  <2>2. CASE \E how : Broken(how)
      BY <2>1, <2>2, BrokenKeeps
  <2>r. ASSUME NEW ok \in BOOLEAN, SetReturned(ok) PROVE RunControl'
      BY <2>1, <2>r, SetReturnedKeeps
  <2>s. success \in BOOLEAN
      BY DEF RunInv, RunType
  <2>3. CASE LoopTail(TRUE, Attempts(action), SetReturned(success))
      BY <2>1, <2>3, <2>r, <2>s, TurnKeeps DEF LoopTail
  <2>4. CASE LoopTail(FALSE, Attempts(action), SetReturned(FALSE))
      BY <2>1, <2>4, <2>r, TurnKeeps DEF LoopTail
  <2> QED BY <1>8, <2>2, <2>3, <2>4 DEF SyncCommand
<1>9. CASE CycleCommand
  <2>1. agent' = agent /\ pc = "cycle"
      BY <1>9 DEF CycleCommand
  <2>2. ASSUME NEW ok, CycleReturned(ok) PROVE RunControl'
      BY <2>1, <2>2, ExitKeeps DEF CycleReturned
  <2>3. ASSUME NEW ok \in BOOLEAN, LoopTail(ok, 1 + opt.retryOn, CycleReturned(success /\ ok))
        PROVE  RunControl'
      BY <2>1, <2>2, <2>3, TurnKeeps DEF LoopTail
  <2> QED BY <1>9, <2>2, <2>3 DEF CycleCommand
<1>10. CASE Device /\ UNCHANGED runVars
    BY <1>10 DEF Device, DeviceActs, DeviceCycles, DeviceToggles, agentVars, runVars,
                 RunInv, RunControl, OnPortion, Cycle, Row, Has
<1>11. CASE UNCHANGED agentRunVars
    BY <1>11 DEF agentRunVars, vars, agentVars, runVars, RunInv, RunControl, OnPortion, Cycle, Row, Has
<1> QED BY <1>1, <1>2, <1>3, <1>4, <1>5, <1>6, <1>7, <1>8, <1>9, <1>10, <1>11
        DEF RunNext, AgentStep, Finished, agentRunVars

\* The part of RunType about the variables of fence_action.
FlowType ==
    /\ pc \in Callbacks \cup {"main", "start", "decide", "done"}
    /\ opt \in Options /\ plug \in Plugs
    /\ acc \in Readings /\ success \in BOOLEAN

\* What an agent that has set_power_fn may ask of the device.
LEMMA AskedType ==
    ASSUME RunInv, pc = "set"
    PROVE  /\ Asked \in {"on", "off", "soft", "toggle", "exit"}
           /\ agent \notin Buttons /\ action = "on" => Asked \in {"on", "exit"}
           /\ agent # "ilo2" /\ action # "on" => Asked \in {"off", "soft", "exit"}
           /\ agent = "ilo2" => Asked = "toggle"
           /\ agent \in Buttons => Asked = "toggle" \/ (action # "on" /\ Asked = "off")
<1>1. "set" \in Row.main.fns
    BY DEF RunInv, RunControl
<1>2. SetOK(agent, Row)
    BY RowFacts DEF RunInv, RunType
<1> QED BY <1>1, <1>2 DEF SetOK, Asked, Buttons

\* Every step of a run keeps the types.
LEMMA TypeStep == RunInv /\ [RunNext]_agentRunVars => RunType'
<1> SUFFICES ASSUME RunInv, [RunNext]_agentRunVars PROVE RunType'
    OBVIOUS
<1> USE FenceActionAssumption
<1>t. RunType /\ Target \in 0 .. NPlugs /\ NPlugs \in Nat /\ 1 \in Plugs
    BY TargetType DEF RunInv, Plugs
<1>o. pc # "input" => opt.action \in Actions /\ opt.fns \in {"async", "sync", "none"}
    BY <1>t, OptionFacts DEF RunType
<1>c. \A p : \A c \in {"none", "on", "off", "cycle", "toggle"} :
        cmd' = [cmd EXCEPT ![p] = c] => cmd' \in [Plugs -> {"none", "on", "off", "cycle", "toggle"}]
    BY <1>t DEF RunType
<1>e. ASSUME pc # "input", NEW c, Exit(c) PROVE FlowType'
    BY <1>t, <1>e DEF Exit, FlowType, RunType
<1>b. ASSUME pc # "input", NEW a, BeginSet(a) PROVE FlowType'
    BY <1>t, <1>b DEF BeginSet, FlowType, RunType, Callbacks, Readings, Plugs
<1>s. ASSUME pc # "input", NEW ok, SetReturned(ok) PROVE FlowType'
    BY <1>s, <1>e, <1>b DEF SetReturned, StartOnPortion
<1>h. ASSUME pc # "input", NEW how, Broken(how) PROVE FlowType'
    BY <1>h, <1>e DEF Broken
<1>m. Remember => kept' \in 0 .. NPlugs
    BY <1>t DEF Remember, RunType
<1>q. ASSUME NEW r \in Readings PROVE Aggregate(acc, r) \in Readings
    BY <1>t DEF Aggregate, RunType
<1>l. ASSUME pc # "input", NEW ok \in BOOLEAN, UNCHANGED <<opt, pc, acc>>,
             \/ UNCHANGED <<plug, success>>
             \/ plug < NPlugs /\ plug' = plug + 1 /\ success' = (success /\ ok)
      PROVE  FlowType'
  <2>1. plug' \in Plugs
      BY <1>t, <1>l DEF RunType, Plugs
  <2> QED BY <1>t, <1>l, <2>1 DEF FlowType, RunType
<1>1. CASE CheckInput
  <2>1. /\ pc = "input" /\ agent' = agent /\ opt' \in Options
        /\ UNCHANGED <<plug, acc, success, kept, power, cmd>>
        /\ pc' \in {"main", "done"}
      BY <1>1 DEF CheckInput, deviceVars
  <2> QED BY <2>1, <1>t DEF RunType
<1>2. CASE MainStep
  <2>1. /\ pc = "main" /\ agent' = agent /\ UNCHANGED <<opt, plug, acc, success, kept, power, cmd>>
        /\ pc' \in {"main", "start", "done"}
      BY <1>2 DEF MainStep, MainGoesOn, Exit, deviceVars
  <2> QED BY <2>1, <1>t DEF RunType
<1>3. CASE MainStepFails \/ List
  <2>1. /\ pc \in {"main", "list"} /\ agent' = agent /\ UNCHANGED <<kept, power, cmd>>
        /\ Exit(0) \/ Exit(1)
      BY <1>3 DEF MainStepFails, List, deviceVars
  <2> QED BY <2>1, <1>e, <1>t DEF RunType, FlowType
<1>4. CASE Start
  <2>1. /\ pc = "start" /\ agent' = agent /\ plug' = 1 /\ acc' = "off"
        /\ UNCHANGED <<opt, success, kept, power, cmd>>
        /\ pc' \in {"list", "done", "decide", "status"}
      BY <1>4 DEF Start, fence_action_start, runVars, deviceVars
  <2> QED BY <2>1, <1>t DEF RunType, Callbacks, Readings
<1>5. CASE Decide
  <2>1. pc = "decide" /\ agent' = agent /\ UNCHANGED <<kept, power, cmd>>
      BY <1>5 DEF Decide, fence_action_decide, runVars, deviceVars
  <2>2. ASSUME pc' = "cycle", plug' = 1, success' = TRUE, UNCHANGED <<opt, acc>> PROVE FlowType'
      BY <2>2, <2>1, <1>t DEF FlowType, RunType, Callbacks
  <2>3. FlowType'
      BY <1>5, <2>1, <2>2, <1>e, <1>b
      DEF Decide, fence_action_decide, CallSet, StartOnPortion
  <2> QED BY <2>1, <2>3, <1>t DEF RunType, FlowType
<1>6. CASE Query
  <2>1. agent' = agent /\ pc \in {"status", "poll"} /\ UNCHANGED <<power, cmd>> /\ Remember
      BY <1>6 DEF Query, deviceVars
  <2>2. CASE \E how : Broken(how)
      BY <2>1, <2>2, <1>h, <1>m, <1>t DEF RunType, FlowType
  <2>3. CASE \E r \in Readings : ReadPlug(r)
    <3>1. PICK r \in Readings : ReadPlug(r)
        BY <2>3
    <3>2. PICK s : s = Aggregate(acc, r) /\ s \in Readings
        BY <1>q
    <3>3. CASE plug < NPlugs
      <4>1. plug' = plug + 1 /\ acc' = s /\ UNCHANGED <<opt, pc, success>>
          BY <3>1, <3>2, <3>3 DEF ReadPlug
      <4>2. plug' \in Plugs
          BY <4>1, <3>3, <1>t DEF RunType, Plugs
      <4> QED BY <4>1, <4>2, <3>2, <2>1, <1>m, <1>t DEF RunType
    <3>4. CASE ~(plug < NPlugs) /\ pc = "status"
      <4>1. StatusKnown(s)
          BY <3>1, <3>2, <3>4 DEF ReadPlug
      <4>2. pc' \in {"decide", "done"} /\ UNCHANGED <<opt, plug, acc, success>>
          BY <4>1 DEF StatusKnown, Exit
      <4> QED BY <4>2, <2>1, <1>m, <1>t DEF RunType
    <3>5. CASE ~(plug < NPlugs) /\ pc = "poll"
      <4>1. Polled(s)
          BY <3>1, <3>2, <3>5 DEF ReadPlug
      <4>2. CASE SetReturned(TRUE) \/ SetReturned(FALSE)
          BY <4>2, <2>1, <1>s, <1>m, <1>t DEF RunType, FlowType
      <4>3. CASE ~(SetReturned(TRUE) \/ SetReturned(FALSE))
        <5>1. pc' \in {"set", "poll"} /\ plug' = 1 /\ acc' = "off" /\ UNCHANGED <<opt, success>>
            BY <4>1, <4>3, <3>5 DEF Polled
        <5> QED BY <5>1, <2>1, <1>m, <1>t DEF RunType, Callbacks, Readings
      <4> QED BY <4>2, <4>3
    <3> QED BY <3>3, <3>4, <3>5, <2>1
  <2> QED BY <1>6, <2>2, <2>3 DEF Query
<1>7. CASE Command \/ CommandRefused
  <2>1. agent' = agent /\ pc = "set" /\ power' = power /\ Remember
      BY <1>7 DEF Command, CommandRefused, deviceVars
  <2>2. cmd' \in [Plugs -> {"none", "on", "off", "cycle", "toggle"}]
    <3>1. CASE Command
      <4>1. PICK c : c = IF Asked = "soft" THEN "off" ELSE Asked
          OBVIOUS
      <4>2. c \in {"none", "on", "off", "cycle", "toggle"} /\ cmd' = [cmd EXCEPT ![Target] = c]
          BY <3>1, <4>1, <2>1, AskedType DEF Command
      <4> QED BY <4>2, <1>c
    <3>2. CASE CommandRefused
        BY <3>2, <1>t DEF CommandRefused, deviceVars, RunType
    <3> QED BY <1>7, <3>1, <3>2
  <2>3. CASE CommandSent
    <3>1. /\ pc' \in {"set", "poll"} /\ acc' = "off" /\ UNCHANGED <<opt, success>>
          /\ plug' = 1 \/ (plug < NPlugs /\ plug' = plug + 1)
        BY <2>3 DEF CommandSent
    <3>2. plug' \in Plugs
        BY <3>1, <1>t DEF RunType, Plugs
    <3> QED BY <3>1, <3>2, <2>1, <2>2, <1>m, <1>t DEF RunType, Callbacks, Readings
  <2>4. CASE ~CommandSent
    <3>1. FlowType'
        BY <2>1, <2>4, <1>7, <1>h DEF Command, CommandRefused
    <3> QED BY <3>1, <2>1, <2>2, <1>m, <1>t DEF RunType, FlowType
  <2> QED BY <2>3, <2>4
<1>8. CASE SyncCommand
  <2>1. agent' = agent /\ pc = "sync" /\ Remember
      BY <1>8 DEF SyncCommand
  <2>2. action \in {"on", "off"}
      BY <2>1 DEF RunInv, RunControl
  <2>3. /\ cmd' \in [Plugs -> {"none", "on", "off", "cycle", "toggle"}]
        /\ power' \in [Plugs -> {"on", "off"}]
      BY <1>8, <2>2, <1>c, <1>t DEF SyncCommand, RunType, deviceVars
  <2>4. FlowType'
    <3>1. CASE LoopTail(TRUE, Attempts(action), SetReturned(success))
        BY <3>1, <2>1, <1>l, <1>s DEF LoopTail
    <3>2. CASE LoopTail(FALSE, Attempts(action), SetReturned(FALSE))
        BY <3>2, <2>1, <1>l, <1>s DEF LoopTail
    <3> QED BY <3>1, <3>2, <1>8, <2>1, <1>h DEF SyncCommand
  <2> QED BY <2>1, <2>3, <2>4, <1>m, <1>t DEF RunType, FlowType
<1>9. CASE CycleCommand
  <2>1. agent' = agent /\ pc = "cycle" /\ power' = power /\ Remember
      BY <1>9 DEF CycleCommand
  <2>2. cmd' \in [Plugs -> {"none", "on", "off", "cycle", "toggle"}]
      BY <1>9, <1>c, <1>t DEF CycleCommand, RunType
  <2>3. FlowType'
    <3>1. ASSUME NEW ok, CycleReturned(ok) PROVE FlowType'
        BY <3>1, <2>1, <1>e DEF CycleReturned
    <3>2. ASSUME NEW ok \in BOOLEAN, LoopTail(ok, 1 + opt.retryOn, CycleReturned(success /\ ok))
          PROVE  FlowType'
        BY <3>1, <3>2, <2>1, <1>l DEF LoopTail
    <3> QED BY <1>9, <3>1, <3>2 DEF CycleCommand
  <2> QED BY <2>1, <2>2, <2>3, <1>m, <1>t DEF RunType, FlowType
<1>10. CASE Device /\ UNCHANGED runVars
  <2>1. PICK p \in Plugs : DeviceActs(p) \/ DeviceCycles(p) \/ DeviceToggles(p)
      BY <1>10 DEF Device
  <2>2. UNCHANGED <<opt, pc, plug, acc, success, agent, kept>>
      BY <1>10, <2>1 DEF DeviceActs, DeviceCycles, DeviceToggles, agentVars, runVars
  <2>3. /\ cmd' \in [Plugs -> {"none", "on", "off", "cycle", "toggle"}]
        /\ power' \in [Plugs -> {"on", "off"}]
      BY <2>1, <1>t DEF DeviceActs, DeviceCycles, DeviceToggles, RunType
  <2> QED BY <2>2, <2>3, <1>t DEF RunType
<1>11. CASE UNCHANGED agentRunVars
    BY <1>11, <1>t DEF agentRunVars, vars, agentVars, deviceVars, runVars, RunType
<1> QED BY <1>1, <1>2, <1>3, <1>4, <1>5, <1>6, <1>7, <1>8, <1>9, <1>10, <1>11
        DEF RunNext, AgentStep, Finished, agentRunVars

\* The control of every run.
THEOREM RunInvCorrect == RunSpec => []RunInv
<1>1. RunInv /\ [RunNext]_agentRunVars => RunInv'
    BY TypeStep, ControlStep DEF RunInv
<1> QED BY InitRunInv, <1>1, PTL DEF RunSpec

----------------------------------------------------------------------------
(* The delay.                                                              *)

\* The delay is over, or is not asked for.
Waited == opt.action \in {"off", "reboot"} => delayed \/ diag

\* A step that waits for --delay is still to come.
StillToWait ==
    pc = "main" /\ \E i \in step .. Len(Row.main.steps) : StepAt(i) \in DelaySteps

\* main has waited, or will.
DelayInv ==
    /\ pc = "main" => step \in 1 .. Len(Row.main.steps)
    /\ pc \notin {"input", "done"} => Waited \/ StillToWait

\* The callbacks do not touch what the delay depends on.
LEMMA RunKeeps ==
    ASSUME RunInv, RunNext, pc \notin {"input", "main"}
    PROVE  /\ UNCHANGED <<opt, agent, delayed, diag, missingAsOff, uuids, heard>>
           /\ pc' \notin {"input", "main"}
           /\ pc = "done" => pc' = "done" /\ UNCHANGED <<action, result, shown>>
<1>s. ASSUME NEW ok, SetReturned(ok) PROVE opt' = opt /\ pc' \notin {"input", "main"}
    BY <1>s DEF SetReturned, StartOnPortion, BeginSet, Exit
<1>h. ASSUME NEW how, Broken(how) PROVE opt' = opt /\ pc' \notin {"input", "main"}
    BY <1>h DEF Broken, Exit
<1>1. CASE MainStepFails \/ MainStep \/ CheckInput
    BY <1>1 DEF MainStepFails, MainStep, CheckInput
<1>2. CASE List \/ Start \/ Decide
    BY <1>2 DEF List, Start, Decide, fence_action_start, fence_action_decide, runVars,
                CallSet, StartOnPortion, BeginSet, Exit
<1>3. CASE Query
  <2>1. /\ pc \in {"status", "poll"}
        /\ UNCHANGED <<agent, delayed, diag, missingAsOff, uuids, heard>>
      BY <1>3 DEF Query
  <2>2. ASSUME NEW r, ReadPlug(r) PROVE opt' = opt /\ pc' \notin {"input", "main"}
      BY <2>1, <2>2, <1>s DEF ReadPlug, StatusKnown, Polled, Exit
  <2> QED BY <1>3, <2>1, <2>2, <1>h DEF Query
<1>4. CASE Command \/ CommandRefused
    BY <1>4, <1>h DEF Command, CommandRefused, CommandSent
<1>5. CASE SyncCommand
    BY <1>5, <1>h, <1>s DEF SyncCommand, LoopTail
<1>6. CASE CycleCommand
    BY <1>6 DEF CycleCommand, LoopTail, CycleReturned, Exit
<1>7. CASE Device /\ UNCHANGED runVars
    BY <1>7 DEF Device, DeviceActs, DeviceCycles, DeviceToggles, agentVars, runVars
<1>8. CASE Finished /\ UNCHANGED runVars
    BY <1>8 DEF Finished, vars, agentVars, runVars
<1> QED BY <1>1, <1>2, <1>3, <1>4, <1>5, <1>6, <1>7, <1>8 DEF RunNext, AgentStep

\* The step of main that waits comes before fence_action.
LEMMA DelayStep == RunInv /\ DelayInv /\ [RunNext]_agentRunVars => DelayInv'
<1> SUFFICES ASSUME RunInv, DelayInv, [RunNext]_agentRunVars PROVE DelayInv'
    OBVIOUS
<1>r. DelayOK(agent, Row)
    BY RowFacts DEF RunInv, RunType
<1>1. CASE UNCHANGED agentRunVars
    BY <1>1 DEF agentRunVars, vars, agentVars, runVars, DelayInv, Waited, StillToWait, StepAt, Row
<1>2. CASE RunNext /\ pc \notin {"input", "main"}
    BY <1>2, RunKeeps DEF DelayInv, Waited, StillToWait
<1>3. CASE RunNext /\ pc = "input"
  <2>1. \/ CheckInput
        \/ UNCHANGED <<pc, opt>>
      BY <1>3 DEF RunNext, AgentStep, MainStep, MainStepFails, Start, fence_action_start,
                  Decide, fence_action_decide, List, Query, Command, CommandSent, CommandRefused,
                  SyncCommand, CycleCommand, Device, DeviceActs, DeviceCycles, DeviceToggles,
                  agentVars, Finished
  <2>2. CASE CheckInput
    <3>1. agent' = agent /\ (pc' = "done" \/ (pc' = "main" /\ step' = 1))
        BY <2>2 DEF CheckInput
    <3>2. CASE pc' = "main"
      <4>1. PICK n \in Nat : n = Len(Row.main.steps)
          BY <1>r DEF DelayOK
      <4>2. PICK i \in 1 .. n : StepAt(i)' \in DelaySteps
        <5>1. CASE agent = "wti"
          <6>1. n = 3 /\ Row.main.steps[1] = "time_sleep" /\ Row.main.steps[3] = "fence_login"
              BY <5>1, <4>1, <1>r DEF DelayOK
          <6>2. CASE "secure" \in options'.has
            <7>1. StepAt(3)' = "fence_login"
                BY <3>1, <6>1, <6>2 DEF StepAt, Row
            <7> QED BY <6>1, <7>1 DEF DelaySteps
          <6>3. CASE "secure" \notin options'.has
            <7>1. StepAt(1)' = "time_sleep"
                BY <3>1, <6>1, <6>3 DEF StepAt, Row
            <7> QED BY <6>1, <7>1 DEF DelaySteps
          <6> QED BY <6>2, <6>3
        <5>2. CASE agent # "wti"
            BY <5>2, <4>1, <3>1, <1>r DEF DelayOK, StepAt, Row
        <5> QED BY <5>1, <5>2
      <4> QED BY <3>1, <3>2, <4>1, <4>2 DEF DelayInv, StillToWait, Row
    <3> QED BY <3>1, <3>2 DEF DelayInv
  <2>3. CASE UNCHANGED <<pc, opt>>
      BY <2>3, <1>3 DEF DelayInv
  <2> QED BY <2>1, <2>2, <2>3
<1>4. CASE RunNext /\ pc = "main"
  <2>1. \/ MainStep \/ MainStepFails
        \/ UNCHANGED <<agentVars, runVars>>
      BY <1>4 DEF RunNext, AgentStep, CheckInput, Start, fence_action_start,
                  Decide, fence_action_decide, List, Query, Command, CommandSent, CommandRefused,
                  SyncCommand, CycleCommand, Device, DeviceActs, DeviceCycles, DeviceToggles,
                  Finished
  <2>2. CASE MainStepFails
      BY <2>2 DEF MainStepFails, Exit, DelayInv
  <2>3. CASE UNCHANGED <<agentVars, runVars>>
      BY <2>3 DEF agentVars, runVars, DelayInv, Waited, StillToWait, StepAt, Row
  <2>4. CASE MainStep
    <3>1. PICK s : s = Step
        OBVIOUS
    <3>2. PICK n \in Nat : n = Len(Row.main.steps)
        BY <1>r DEF DelayOK
    <3>3. step \in 1 .. n /\ agent' = agent /\ diag' = diag /\ opt' = opt
        BY <2>4, <3>2, <1>4 DEF MainStep, MainGoesOn, Exit, DelayInv
    <3>4. /\ run_delay(s)
          /\ \/ pc' = "done"
             \/ step < n /\ step' = step + 1 /\ pc' = "main"
             \/ ~(step < n) /\ pc' = "start"
        BY <2>4, <3>1, <3>2 DEF MainStep, MainGoesOn, Exit
    <3>5. CASE Waited \/ s \in DelaySteps
      <4>1. Waited'
          BY <3>3, <3>4, <3>5 DEF Waited, run_delay
      <4> QED BY <4>1, <3>2, <3>3, <3>4 DEF DelayInv, Row
    <3>6. CASE ~Waited /\ s \notin DelaySteps
      <4>1. PICK i \in step .. n : StepAt(i) \in DelaySteps
          BY <3>2, <3>6, <1>4 DEF DelayInv, StillToWait
      <4>2. i # step
          BY <4>1, <3>1, <3>6 DEF Step
      <4>3. i \in step + 1 .. n /\ step < n
          BY <4>1, <4>2, <3>3
      <4>4. CASE pc' = "main"
        <5>1. agent = "wti" => options' = options
          <6> SUFFICES ASSUME agent = "wti" PROVE options' = options
              OBVIOUS
          <6>1. s \in {"none", "time_sleep", "prompts", "fence_login"}
              BY <3>1, <3>2, <3>3, <1>r DEF DelayOK, Step, StepAt
          <6>2. options' = Assigned(s)
              BY <2>4, <3>1, <4>4 DEF MainStep, MainGoesOn, Exit
          <6> QED BY <6>1, <6>2 DEF Assigned
        <5>2. StepAt(i)' = StepAt(i)
            BY <3>3, <5>1 DEF StepAt, Row
        <5> QED BY <4>1, <4>3, <4>4, <5>2, <3>2, <3>3, <3>4 DEF DelayInv, StillToWait, Row
      <4> QED BY <4>3, <4>4, <3>4 DEF DelayInv
    <3> QED BY <3>5, <3>6
  <2> QED BY <2>1, <2>2, <2>3, <2>4
<1> QED BY <1>1, <1>2, <1>3, <1>4

\* No agent of the tables sends a command for off or reboot before run_delay has
\* waited, for any number of plugs and any input.
THEOREM DelayHonouredCorrect == RunSpec => []DelayHonoured
<1>1. RunInit => DelayInv
    BY DEF RunInit, DelayInv
<1>2. RunInv /\ DelayInv => DelayHonoured
    BY DEF DelayInv, StillToWait, Waited, DelayHonoured
<1> QED BY <1>1, <1>2, DelayStep, RunInvCorrect, PTL DEF RunSpec

----------------------------------------------------------------------------
(* What a step does to the device.                                         *)

\* A command of the agent: it is accepted, carried out at once, or only taken
\* note of for a power cycle.
Accepts(t, c) == power' = power /\ cmd' = [cmd EXCEPT ![t] = c]
CarriesOut(t, v) ==
    /\ power' = [power EXCEPT ![t] = v] /\ cmd' = [cmd EXCEPT ![t] = "none"]

\* The steps that change the device.
LEMMA DeviceMoves ==
    ASSUME RunInv, RunNext
    PROVE  \/ UNCHANGED <<power, cmd>>
           \/ pc = "set" /\ Asked # "exit" /\ Accepts(Target, IF Asked = "soft" THEN "off" ELSE Asked)
           \/ pc = "sync" /\ (CarriesOut(Target, action) \/ \E c \in {"none", action} : Accepts(Target, c))
           \/ pc = "cycle" /\ Accepts(Target, "cycle")
           \/ Device /\ UNCHANGED <<agentVars, runVars>>
<1>1. CASE CheckInput \/ MainStep \/ MainStepFails \/ Start \/ Decide \/ List \/ Query \/ CommandRefused
    BY <1>1 DEF CheckInput, MainStep, MainStepFails, Start, fence_action_start, Decide,
                fence_action_decide, List, Query, CommandRefused, deviceVars
<1>2. CASE Command
    BY <1>2 DEF Command, Accepts
<1>3. CASE SyncCommand
    BY <1>3 DEF SyncCommand, Accepts, CarriesOut, deviceVars
<1>4. CASE CycleCommand
    BY <1>4 DEF CycleCommand, Accepts
<1>5. CASE Device /\ UNCHANGED runVars
    BY <1>5 DEF Device, DeviceActs, DeviceCycles, DeviceToggles
<1>6. CASE Finished
    BY <1>6 DEF Finished, vars, deviceVars
<1> QED BY <1>1, <1>2, <1>3, <1>4, <1>5, <1>6 DEF RunNext, AgentStep

\* The options of a run are settled by check_input, before anything is sent.
LEMMA Settled ==
    ASSUME RunInv, RunNext
    PROVE  /\ agent' = agent
           /\ pc # "input" => opt' = opt /\ pc' # "input"
           /\ pc = "input" => UNCHANGED <<power, cmd>> \/ Device
<1>1. CASE pc \notin {"input", "main"}
    BY <1>1, RunKeeps
<1>2. CASE pc = "main"
    BY <1>2 DEF RunNext, AgentStep, CheckInput, MainStep, MainGoesOn, MainStepFails, Exit,
                Start, fence_action_start, Decide, fence_action_decide, List, Query, Command,
                CommandSent, CommandRefused, SyncCommand, CycleCommand, Device, DeviceActs,
                DeviceCycles, DeviceToggles, Finished, vars, agentVars, runVars
<1>3. CASE pc = "input"
    BY <1>3 DEF RunNext, AgentStep, CheckInput, MainStep, MainStepFails,
                Start, fence_action_start, Decide, fence_action_decide, List, Query, Command,
                CommandSent, CommandRefused, SyncCommand, CycleCommand, Device, DeviceActs,
                DeviceCycles, DeviceToggles, Finished, vars, agentVars, runVars, deviceVars
<1> QED BY <1>1, <1>2, <1>3

----------------------------------------------------------------------------
(* What is reported is true.                                               *)

\* Nothing has been guessed, and every plug has a machine of its own.
Honest == ~guessed /\ ~missingAsOff /\ ~MixesPlugs

\* Requests and phases that switch machines off only.
Safe == \/ opt.action \in {"off", "status"}
        \/ opt.action = "reboot" /\ ~Cycle /\ action # "on" /\ ~Succeeded

\* Nothing that the device has accepted brings a machine up.
Harmless ==
    \A p \in Plugs : cmd[p] \in {"none", "off"} \/ (cmd[p] = "toggle" /\ power[p] = "on")

\* Before the first command, and for requests that send none.
Untouched ==
    /\ \/ pc \in {"input", "main", "start", "list", "status", "decide"}
       \/ opt.action \in {"list", "monitor", "status"}
       => \A p \in Plugs : cmd[p] = "none"
    /\ pc = "input" => heard = "none" /\ shown = "none" /\ result = -1
    /\ Row.names = "uuid" /\ uuids = {} => kept = 0

\* What has been found off is off, and stays off.
OffInv ==
    /\ Harmless
    /\ pc \in {"status", "poll"} /\ acc = "off" => \A q \in Plugs : q < plug => power[q] = "off"
    /\ pc = "decide" /\ status = "off" => Dark(power)
    /\ pc = "sync" /\ success => \A q \in Plugs : q < plug => power[q] = "off"
    /\ Row.names = "once" /\ heard # "none" /\ Row.get[heard] = "off" => Dark(power)

\* The button is pressed once, for a machine that is on.
ButtonInv ==
    /\ pc \in {"start", "status"} => acc = "off"
    /\ pc = "set" \/ (pc = "decide" /\ status = "on") => power[1] = "on" /\ cmd[1] = "none"

\* What the end of a run, or of the off portion of a reboot, tells.
Outcome ==
    /\ opt.action = "reboot" /\ ~Cycle /\ (action = "on" \/ Succeeded) => allOff
    /\ pc = "done" /\ opt.action = "off" /\ result = 0 => Dark(power)
    /\ pc = "done" /\ result = 2 => opt.action = "status" /\ Dark(power)
    /\ shown = "off" => opt.action \in {"list", "monitor"} /\ power[1] = "off"

\* All of it, as far as the phase of the run calls for it.
Truth ==
    /\ Safe => OffInv
    /\ Safe /\ agent = "ilo2" => ButtonInv
    /\ Outcome

\* The invariant: a run that guesses or mixes its plugs up promises nothing.
TruthInv ==
    /\ Untouched
    /\ attempt \in Nat \ {0}
    /\ Dark(power) => allOff
    /\ Honest /\ pc # "input" => Truth

\* The initial states.
LEMMA InitTruth == RunInit => TruthInv
BY DEF RunInit, TruthInv, Untouched, Plugs

\* With an honest device a query reaches the machine of its own plug.
LEMMA TargetIsPlug ==
    ASSUME RunInv, TruthInv, ~MixesPlugs, pc # "set" \/ Row.names # "last"
    PROVE  Target = plug
<1>1. NamesOK(agent, Row)
    BY RowFacts DEF RunInv, RunType
<1>2. CASE NPlugs = 1
    BY <1>2 DEF Target, RunInv, RunType, Plugs
<1>3. CASE NPlugs # 1
  <2>1. NPlugs > 1
      BY <1>3, FenceActionAssumption
  <2>2. Row.names # "first" /\ (Row.names = "uuid" => uuids \in {{}, Plugs})
      BY <1>1, <2>1 DEF MixesPlugs, NamesOK
  <2>3. plug \in Plugs
      BY DEF RunInv, RunType
  <2>4. CASE Row.names = "uuid" /\ uuids = {}
      BY <2>4, <2>3 DEF Target, TruthInv, Untouched
  <2>5. CASE Row.names = "uuid" /\ uuids = Plugs
      BY <2>5, <2>3 DEF Target
  <2>6. CASE Row.names \in {"plug", "last", "once"}
      BY <2>6 DEF Target
  <2> QED BY <1>1, <2>2, <2>4, <2>5, <2>6 DEF NamesOK
<1> QED BY <1>2, <1>3

\* An agent with a button is run for one machine, and its answers are plain.
LEMMA ButtonFacts ==
    ASSUME RunInv, agent \in Buttons
    PROVE  /\ NPlugs = 1 /\ plug = 1 /\ ~Has("no_status") /\ Row.names = "plug"
           /\ \A w \in DOMAIN Row.get : /\ Row.get[w] = "on" => w \in SaysOn
                                        /\ Row.get[w] # "contrary"
<1>1. SetOK(agent, Row)
    BY RowFacts DEF RunInv, RunType
<1>2. "port" \notin Row.main.device_opt
    BY <1>1 DEF SetOK
<1>3. NPlugs \in Nat \ {0} /\ ~(NPlugs > 1)
    BY <1>2, AgentsAssumption, FenceActionAssumption DEF RunInv, RunType, Row
<1>4. NPlugs = 1
    BY <1>3
<1> QED BY <1>1, <1>4 DEF SetOK, Has, RunInv, RunType, Plugs

\* A guess is never forgotten.
LEMMA HonestBack ==
    ASSUME RunInv, RunNext
    PROVE  /\ UNCHANGED <<agent, uuids, missingAsOff>>
           /\ Honest' => Honest
<1> SUFFICES UNCHANGED <<agent, uuids, missingAsOff>> /\ (guessed => guessed')
    BY DEF Honest, MixesPlugs
<1>1. CASE CheckInput \/ MainStepFails \/ Start \/ Decide
    BY <1>1 DEF CheckInput, MainStepFails, Start, Decide, runVars
<1>2. CASE MainStep
    BY <1>2 DEF MainStep, Hear
<1>3. CASE List
    BY <1>3 DEF List, Hear
<1>4. CASE Query
    BY <1>4 DEF Query, Hear
<1>5. CASE Command \/ CommandRefused
    BY <1>5 DEF Command, CommandRefused
<1>6. CASE SyncCommand
    BY <1>6 DEF SyncCommand
<1>7. CASE CycleCommand
    BY <1>7 DEF CycleCommand
<1>8. CASE UNCHANGED runVars
    BY <1>8 DEF runVars
<1> QED BY <1>1, <1>2, <1>3, <1>4, <1>5, <1>6, <1>7, <1>8 DEF RunNext, AgentStep

\* A step never goes back to a phase that switches machines off only.
LEMMA SafeBack ==
    ASSUME RunInv, RunNext, pc # "input", Safe'
    PROVE  Safe
<1>o. opt' = opt /\ pc' # "input"
    BY Settled
<1>1. CASE opt.action \in {"off", "status"}
    BY <1>1 DEF Safe
<1>2. CASE opt.action = "reboot" /\ ~Cycle /\ action' # "on" /\ ~Succeeded'
  <2> SUFFICES action # "on" /\ ~Succeeded
      BY <1>2 DEF Safe
  <2>1. CASE pc = "done"
    <3>1. pc' = "done" /\ UNCHANGED <<action, result>>
        BY <2>1, RunKeeps
    <3> QED BY <3>1, <1>2 DEF Succeeded
  <2>2. CASE pc # "done" /\ action # "on"
      BY <2>2 DEF Succeeded
  <2>3. CASE pc # "done" /\ action = "on"
    <3>1. pc \in {"set", "poll", "sync"} /\ OnPortion /\ ~Cycle
        BY <2>3, <1>2 DEF RunInv, RunControl, RunType, OnPortion, Callbacks
    <3>s. ASSUME NEW ok, SetReturned(ok) PROVE action' = "on" \/ Succeeded'
        BY <3>s, <3>1, <2>3, <1>2 DEF SetReturned, Exit, Succeeded
    <3>h. ASSUME NEW how, Broken(how) PROVE action' = "on" \/ Succeeded'
        BY <3>h, <3>1, <2>3 DEF Broken, Exit, Succeeded
    <3>2. CASE Query
      <4>1. ASSUME NEW r, ReadPlug(r), pc = "poll" PROVE action' = "on" \/ Succeeded'
          BY <4>1, <3>s, <2>3 DEF ReadPlug, Polled
      <4> QED BY <3>2, <4>1, <3>1, <3>h, <1>2 DEF Query
    <3>3. CASE Command \/ CommandRefused
        BY <3>3, <3>h, <1>2, <2>3 DEF Command, CommandRefused, CommandSent
    <3>4. CASE SyncCommand
        BY <3>4, <3>h, <3>s, <1>2, <2>3 DEF SyncCommand, LoopTail
    <3>5. CASE Device \/ Finished
        BY <3>5, <1>2, <2>3 DEF Device, DeviceActs, DeviceCycles, DeviceToggles, agentVars,
                                Finished, vars
    <3>6. CASE CheckInput \/ MainStep \/ MainStepFails \/ Start \/ Decide \/ List \/ CycleCommand
        BY <3>6, <3>1 DEF CheckInput, MainStep, MainStepFails, Start, fence_action_start, Decide,
                          fence_action_decide, List, CycleCommand
    <3> QED BY <3>2, <3>3, <3>4, <3>5, <3>6, <1>2 DEF RunNext, AgentStep
  <2> QED BY <2>1, <2>2, <2>3
<1> QED BY <1>o, <1>1, <1>2 DEF Safe, Cycle

\* In such a phase no step brings a machine up, or leaves a command that would.
LEMMA OffStays ==
    ASSUME RunInv, TruthInv, RunNext, pc # "input", Honest, Safe
    PROVE  Harmless' /\ \A p \in Plugs : power[p] = "off" => power'[p] = "off"
<1>t. /\ power \in [Plugs -> {"on", "off"}]
      /\ cmd \in [Plugs -> {"none", "on", "off", "cycle", "toggle"}]
    BY DEF RunInv, RunType
<1>h. Harmless
    BY DEF TruthInv, Truth, OffInv
<1>a. pc \in {"set", "sync"} => action = "off"
    BY DEF RunInv, RunControl, Safe
<1>1. CASE UNCHANGED <<power, cmd>>
    BY <1>1, <1>h DEF Harmless
<1>2. CASE pc = "set" /\ Asked # "exit" /\ Accepts(Target, IF Asked = "soft" THEN "off" ELSE Asked)
  <2>1. CASE agent # "ilo2"
    <3>1. PICK c : c = IF Asked = "soft" THEN "off" ELSE Asked
        OBVIOUS
    <3>2. c = "off" /\ Accepts(Target, c)
        BY <1>2, <1>a, <2>1, <3>1, AskedType
    <3> QED BY <3>2, <1>t, <1>h DEF Harmless, Accepts
  <2>2. CASE agent = "ilo2"
    <3>1. power[1] = "on" /\ Plugs = {1} /\ Target = 1
        BY <1>2, <2>2, ButtonFacts DEF Buttons, TruthInv, Truth, ButtonInv, Target, Plugs
    <3>2. Accepts(1, "toggle")
        BY <1>2, <2>2, <3>1, AskedType
    <3> QED BY <3>1, <3>2, <1>t DEF Harmless, Accepts
  <2> QED BY <2>1, <2>2
<1>3. CASE pc = "sync" /\ (CarriesOut(Target, action) \/ \E c \in {"none", action} : Accepts(Target, c))
    BY <1>3, <1>a, <1>t, <1>h DEF Harmless, Accepts, CarriesOut
<1>4. CASE pc = "cycle" /\ Accepts(Target, "cycle")
    BY <1>4 DEF RunInv, RunControl, Safe, Cycle
<1>5. CASE Device /\ UNCHANGED <<agentVars, runVars>>
    BY <1>5, <1>t, <1>h DEF Harmless, Device, DeviceActs, DeviceCycles, DeviceToggles
<1> QED BY <1>1, <1>2, <1>3, <1>4, <1>5, DeviceMoves

\* The instants at which all machines are off are taken note of.
LEMMA DarkNoted ==
    ASSUME TruthInv, RunNext
    PROVE  (Dark(power') => allOff') /\ (allOff => allOff')
BY DEF TruthInv, RunNext, Finished, vars, Dark, deviceVars

\* After the first command there is no way back to the steps before it.
LEMMA LateStays ==
    ASSUME RunInv, RunNext, pc \in {"set", "poll", "sync", "cycle", "done"}
    PROVE  pc' \in {"set", "poll", "sync", "cycle", "done"}
<1>s. ASSUME NEW ok, SetReturned(ok) PROVE pc' \in {"set", "sync", "done"}
    BY <1>s DEF SetReturned, StartOnPortion, BeginSet, Exit
<1>h. ASSUME NEW how, Broken(how) PROVE pc' = "done"
    BY <1>h DEF Broken, Exit
<1>1. CASE CheckInput \/ MainStep \/ MainStepFails \/ Start \/ Decide \/ List
    BY <1>1 DEF CheckInput, MainStep, MainStepFails, Start, fence_action_start, Decide,
                fence_action_decide, List
<1>2. CASE Query
  <2>1. ASSUME NEW r, ReadPlug(r), pc = "poll" PROVE pc' \in {"set", "poll", "sync", "done"}
      BY <2>1, <1>s DEF ReadPlug, Polled
  <2> QED BY <1>2, <2>1, <1>h DEF Query
<1>3. CASE Command \/ CommandRefused
    BY <1>3, <1>h DEF Command, CommandRefused, CommandSent
<1>4. CASE SyncCommand
    BY <1>4, <1>h, <1>s DEF SyncCommand, LoopTail
<1>5. CASE CycleCommand
    BY <1>5 DEF CycleCommand, LoopTail, CycleReturned, Exit
<1>6. CASE Device \/ Finished
    BY <1>6 DEF Device, DeviceActs, DeviceCycles, DeviceToggles, agentVars, Finished, vars
<1> QED BY <1>1, <1>2, <1>3, <1>4, <1>5, <1>6 DEF RunNext, AgentStep

\* Nothing is sent before the set, sync and cycle callbacks.
LEMMA UntouchedStep ==
    ASSUME RunInv, TruthInv, RunNext
    PROVE  Untouched'
<1>u. Untouched
    BY DEF TruthInv
<1>s. /\ agent' = agent /\ uuids' = uuids
      /\ pc # "input" => opt' = opt /\ pc' # "input"
    BY Settled, HonestBack
<1>1. ASSUME \/ pc' \in {"input", "main", "start", "list", "status", "decide"}
             \/ opt'.action \in {"list", "monitor", "status"}
      PROVE  \A p \in Plugs : cmd'[p] = "none"
  <2>1. /\ pc \notin {"set", "sync", "cycle"}
        /\ \A p \in Plugs : cmd[p] = "none"
    <3>1. CASE pc = "input"
        BY <3>1, <1>u DEF Untouched
    <3>2. CASE pc # "input" /\ opt.action \in {"list", "monitor", "status"}
        BY <3>2, <1>u DEF Untouched, RunInv, RunControl, Cycle
    <3>3. CASE pc \in {"main", "start", "list", "status", "decide"}
        BY <3>3, <1>u DEF Untouched
    <3> QED BY <1>1, <1>s, <3>1, <3>2, <3>3, LateStays DEF RunInv, RunType, Callbacks
  <2>2. UNCHANGED <<power, cmd>> \/ Device
      BY <2>1, DeviceMoves
  <2>3. ~Device
      BY <2>1 DEF Device, DeviceActs, DeviceCycles, DeviceToggles
  <2> QED BY <2>1, <2>2, <2>3
<1>2. pc' = "input" => UNCHANGED <<heard, shown, result>>
  <2> SUFFICES ASSUME pc' = "input" PROVE UNCHANGED <<heard, shown, result>>
      OBVIOUS
  <2>1. pc = "input"
      BY <1>s
  <2> QED BY <2>1 DEF RunNext, AgentStep, CheckInput, MainStep, MainStepFails, Start,
                      fence_action_start, Decide, fence_action_decide, List, Query, Command,
                      CommandSent, CommandRefused, SyncCommand, CycleCommand, Device, DeviceActs,
                      DeviceCycles, DeviceToggles, Finished, vars, agentVars, runVars
<1>3. kept' = kept \/ Remember
    BY DEF RunNext, AgentStep, CheckInput, MainStep, MainStepFails, Start, Decide, List, Query,
           Command, CommandRefused, SyncCommand, CycleCommand, runVars
<1>4. Row.names = "uuid" /\ uuids = {} => kept' = 0
    BY <1>3, <1>u DEF Untouched, Remember
<1>5. pc' = "input" => heard' = "none" /\ shown' = "none" /\ result' = -1
    BY <1>2, <1>s, <1>u DEF Untouched
<1> QED BY <1>1, <1>4, <1>5, <1>s DEF Untouched, Row

\* What every step of an honest run after check_input can rely on.
LEMMA HonestStep ==
    ASSUME RunInv, TruthInv, RunNext, Honest', pc # "input"
    PROVE  /\ Honest /\ Truth /\ UNCHANGED <<opt, agent>> /\ pc' # "input"
           /\ Row' = Row /\ Cycle' = Cycle
           /\ Dark(power') => allOff'
           /\ allOff => allOff'
           /\ Safe' => Safe
           /\ Safe => Harmless' /\ \A p \in Plugs : power[p] = "off" => power'[p] = "off"
           /\ Safe /\ Dark(power) => Dark(power')
           /\ \/ opt.action \in {"list", "monitor"}
              \/ pc = "done" /\ result = 2
              => power' = power
<1>1. Honest /\ UNCHANGED <<opt, agent>> /\ pc' # "input"
    BY HonestBack, Settled
<1>2. Truth
    BY <1>1 DEF TruthInv
<1>3. Safe => Harmless' /\ \A p \in Plugs : power[p] = "off" => power'[p] = "off"
    BY <1>1, OffStays
<1>4. \/ opt.action \in {"list", "monitor"}
      \/ pc = "done" /\ result = 2
      => power' = power
  <2> SUFFICES ASSUME \/ opt.action \in {"list", "monitor"}
                      \/ pc = "done" /\ result = 2
               PROVE  power' = power
      OBVIOUS
  <2>1. opt.action \in {"list", "monitor", "status"}
      BY <1>2 DEF Truth, Outcome
  <2>2. \A p \in Plugs : cmd[p] = "none"
      BY <2>1 DEF TruthInv, Untouched
  <2>3. pc \notin {"set", "sync", "cycle"}
      BY <2>1 DEF RunInv, RunControl, Cycle
  <2> QED BY <2>2, <2>3, DeviceMoves DEF Device, DeviceActs, DeviceCycles, DeviceToggles
<1>5. Safe' => Safe
    BY <1>1, SafeBack
<1>6. Safe /\ Dark(power) => Dark(power')
    BY <1>3 DEF Dark
<1>7. Row' = Row /\ Cycle' = Cycle
    BY <1>1 DEF Row, Cycle
<1> QED BY <1>1, <1>2, <1>3, <1>4, <1>5, <1>6, <1>7, DarkNoted

\* Steps that reach no conclusion.
LEMMA GoesOn ==
    ASSUME RunInv, TruthInv, RunNext, Honest', pc # "input", pc' # "done",
           UNCHANGED <<heard, shown>>, OnPortion' => OnPortion
    PROVE  /\ Outcome'
           /\ Safe' => Harmless'
           /\ Safe' /\ Row'.names = "once" /\ heard' # "none" /\ Row'.get[heard'] = "off"
                 => Dark(power')
<1>1. ~Succeeded'
    BY DEF Succeeded
<1>2. Outcome'
  <2>1. opt'.action = "reboot" /\ ~Cycle' /\ action' = "on" => allOff'
      BY HonestStep DEF Truth, Outcome, OnPortion
  <2>2. shown' = "off" => opt'.action \in {"list", "monitor"} /\ power'[1] = "off"
      BY HonestStep DEF Truth, Outcome
  <2> QED BY <1>1, <2>1, <2>2 DEF Outcome
<1> QED BY <1>2, HonestStep DEF Truth, OffInv

\* The process ends.
LEMMA ExitTruth ==
    ASSUME RunInv, TruthInv, RunNext, Honest', pc \notin {"input", "done"}, NEW c, Exit(c),
           action' = action \/ action' # "on", heard' = heard,
           shown' = "off" => opt.action \in {"list", "monitor"} /\ power'[1] = "off",
           c = 0 /\ opt.action = "off" => Dark(power'),
           c = 0 /\ opt.action = "reboot" /\ ~Cycle => allOff',
           c = 2 => opt.action = "status" /\ Dark(power')
    PROVE  Truth'
<1>1. pc' = "done" /\ result' = c /\ opt' = opt
    BY DEF Exit
<1>2. Outcome'
  <2>1. opt'.action = "reboot" /\ ~Cycle' /\ action' = "on" => allOff'
      BY HonestStep DEF Truth, Outcome
  <2>2. opt'.action = "reboot" /\ ~Cycle' /\ Succeeded' => allOff'
      BY <1>1, HonestStep DEF Succeeded
  <2> QED BY <1>1, <2>1, <2>2 DEF Outcome
<1>3. Safe' => OffInv'
    BY <1>1, HonestStep DEF Truth, OffInv
<1> QED BY <1>1, <1>2, <1>3 DEF Truth, ButtonInv

\* fence_action goes on after set_multi_power_fn.
LEMMA SetReturnedTruth ==
    ASSUME RunInv, TruthInv, RunNext, Honest', pc \in {"poll", "sync"}, NEW ok \in BOOLEAN,
           SetReturned(ok), UNCHANGED <<heard, shown>>, Safe /\ ok => Dark(power')
    PROVE  Truth'
<1>1. /\ action \in {"on", "off"} /\ opt.action \in {action, "reboot"} /\ ~Cycle
      /\ ~Succeeded
    BY DEF RunInv, RunControl, Succeeded
<1>2. shown' # "off"
    BY <1>1, HonestStep DEF Truth, Outcome
<1>3. CASE opt.action # "reboot"
  <2>1. Exit(IF ok THEN 0 ELSE 1) /\ action' = action
      BY <1>3 DEF SetReturned
  <2>2. opt.action = "off" => Safe
      BY DEF Safe
  <2> QED BY <1>2, <1>3, <2>1, <2>2, ExitTruth
<1>4. CASE opt.action = "reboot" /\ action = "off"
  <2>1. Safe
      BY <1>1, <1>4 DEF Safe
  <2>2. ok => allOff'
      BY <2>1, HonestStep
  <2>3. CASE ~ok
    <3>1. Exit(1) /\ action' = action
        BY <1>4, <2>3 DEF SetReturned
    <3> QED BY <1>2, <1>4, <3>1, ExitTruth
  <2>4. CASE ok /\ Trivial("on")
    <3>1. Exit(0) /\ action' = "reboot"
        BY <1>4, <2>4 DEF SetReturned, StartOnPortion
    <3> QED BY <1>2, <1>4, <2>2, <2>4, <3>1, ExitTruth
  <2>5. CASE ok /\ ~Trivial("on")
    <3>1. BeginSet("on")
        BY <1>4, <2>5 DEF SetReturned, StartOnPortion
    <3>2. action' = "on" /\ pc' \in {"set", "sync"} /\ opt' = opt
        BY <3>1 DEF BeginSet
    <3>3. ~Safe'
        BY <3>2, <1>4 DEF Safe
    <3>4. Outcome'
        BY <3>2, <1>2, <1>4, <2>2, <2>5 DEF Outcome, Succeeded
    <3> QED BY <3>3, <3>4 DEF Truth
  <2> QED BY <2>3, <2>4, <2>5
<1>5. CASE opt.action = "reboot" /\ action # "off"
  <2>1. Exit(0) /\ action' = "reboot"
      BY <1>5 DEF SetReturned
  <2>2. allOff'
      BY <1>1, <1>5, HonestStep DEF Truth, Outcome
  <2> QED BY <1>2, <1>5, <2>1, <2>2, ExitTruth
<1> QED BY <1>3, <1>4, <1>5

\* A callback that breaks off.
LEMMA BrokenTruth ==
    ASSUME RunInv, TruthInv, RunNext, Honest', pc \in {"status", "set", "poll", "sync"},
           NEW how, Broken(how), UNCHANGED <<heard, shown>>
    PROVE  Truth'
<1>1. shown' = "off" => opt.action \in {"list", "monitor"} /\ power'[1] = "off"
    BY HonestStep DEF Truth, Outcome
<1>2. CASE how = "raise" /\ OnPortion
  <2>1. Exit(0) /\ action' = "reboot"
      BY <1>2 DEF Broken
  <2>2. opt.action = "reboot" /\ (~Cycle => allOff')
      BY <1>2, HonestStep DEF OnPortion, Truth, Outcome
  <2> QED BY <1>1, <2>1, <2>2, ExitTruth
<1>3. CASE ~(how = "raise" /\ OnPortion)
  <2>1. Exit(1) /\ action' = action
      BY <1>3 DEF Broken
  <2> QED BY <1>1, <2>1, ExitTruth
<1> QED BY <1>2, <1>3

\* check_input.
LEMMA InputTruth ==
    ASSUME RunInv, TruthInv, RunNext, CheckInput
    PROVE  Truth'
<1>1. /\ pc = "input" /\ action' = opt'.action /\ UNCHANGED <<power, cmd, heard, shown, agent>>
      /\ \/ pc' = "main" /\ result' = result
         \/ pc' = "done" /\ result' = 1
    BY DEF CheckInput, deviceVars
<1>2. Harmless' /\ heard' = "none" /\ shown' = "none" /\ result = -1
    BY <1>1 DEF TruthInv, Untouched, Harmless
<1>3. OffInv' /\ ButtonInv'
    BY <1>1, <1>2 DEF OffInv, ButtonInv
<1>4. Outcome'
    BY <1>1, <1>2 DEF Outcome, Succeeded
<1> QED BY <1>3, <1>4 DEF Truth

\* The steps of main, the one that reads the status once among them.
LEMMA MainTruth ==
    ASSUME RunInv, TruthInv, RunNext, Honest', MainStep
    PROVE  Truth'
<1>1. /\ pc = "main" /\ shown' = shown /\ power' = power
      /\ acc = "off" /\ status = "none" /\ plug = 1 /\ action = opt.action
    BY DEF MainStep, RunInv, RunControl, deviceVars
<1>2. PICK s : s = Step
    OBVIOUS
<1>3. CASE s = "monitor_returns" /\ opt.action = "monitor"
  <2>1. Exit(0) /\ action' = action /\ heard' = heard
      BY <1>2, <1>3 DEF MainStep
  <2>2. shown' = "off" => opt.action \in {"list", "monitor"} /\ power'[1] = "off"
      BY <1>1, HonestStep DEF Truth, Outcome
  <2> QED BY <1>1, <1>3, <2>1, <2>2, ExitTruth
<1>4. CASE ~(s = "monitor_returns" /\ opt.action = "monitor")
  <2>1. pc' \in {"main", "start"} /\ UNCHANGED <<opt, action, plug, acc, status>>
      BY <1>2, <1>4, <1>1 DEF MainStep, MainGoesOn
  <2>2. Outcome'
    <3>1. ~Succeeded'
        BY <2>1 DEF Succeeded
    <3>2. opt'.action = "reboot" => action' # "on"
        BY <1>1, <2>1
    <3>3. shown' = "off" => opt'.action \in {"list", "monitor"} /\ power'[1] = "off"
        BY <1>1, <2>1, HonestStep DEF Truth, Outcome
    <3> QED BY <2>1, <3>1, <3>2, <3>3 DEF Outcome
  <2>3. ASSUME Safe', Row'.names = "once", heard' # "none", Row'.get[heard'] = "off"
        PROVE  Dark(power')
    <3>r. Safe /\ Row' = Row
        BY <2>3, <1>1, HonestStep
    <3>1. CASE heard' = heard
      <4>1. Dark(power)
          BY <3>1, <2>3, <3>r, <1>1, HonestStep DEF Truth, OffInv
      <4> QED BY <4>1, <1>1 DEF Dark
    <3>2. CASE heard' # heard
      <4>1. PICK w \in DOMAIN Row.get : MayAnswer(w, power[1]) /\ heard' = w /\ Hear(w)
          BY <3>2, <1>2 DEF MainStep
      <4>2. s = "plug_found" /\ ~OnePlugOnly(s)
          BY <3>2, <1>2 DEF MainStep
      <4>3. NPlugs = 1
          BY <4>2, <3>r, FenceActionAssumption DEF OnePlugOnly, Safe
      <4>4. OffOK(agent, Row.get)
          BY RowFacts DEF RunInv, RunType
      <4>5. w \in SaysOff
          BY <4>1, <4>4, <2>3, <3>r DEF OffOK, Taken, Hear, Honest
      <4> QED BY <4>1, <4>3, <4>5, <1>1 DEF MayAnswer, Dark, Plugs
    <3> QED BY <3>1, <3>2
  <2>4. Safe' => OffInv'
    <3>1. Safe' => Harmless'
        BY <1>1, HonestStep
    <3> QED BY <3>1, <2>1, <2>3 DEF OffInv
  <2> QED BY <2>1, <2>2, <2>4, <1>1 DEF Truth, ButtonInv
<1> QED BY <1>3, <1>4

\* A step of main that fails, and the list.
LEMMA ListTruth ==
    ASSUME RunInv, TruthInv, RunNext, Honest', MainStepFails \/ List
    PROVE  Truth'
<1>1. pc \in {"main", "list"} /\ action' = action /\ heard' = heard /\ power' = power
    BY DEF MainStepFails, List, deviceVars
<1>2. CASE MainStepFails
  <2>1. Exit(1) /\ shown' = shown
      BY <1>2 DEF MainStepFails
  <2>2. shown' = "off" => opt.action \in {"list", "monitor"} /\ power'[1] = "off"
      BY <1>1, <2>1, HonestStep DEF Truth, Outcome
  <2> QED BY <1>1, <2>1, <2>2, ExitTruth
<1>3. CASE List
  <2>0. opt.action \in {"list", "monitor"}
      BY <1>3 DEF List, RunInv, RunControl
  <2>1. PICK w \in DOMAIN Row.list :
           /\ MayAnswer(w, power[1]) /\ Hear(w)
           /\ \/ Exit(1) /\ shown' = shown
              \/ Exit(0) /\ shown' = Line(w)
      BY <1>3 DEF List
  <2>2. OffOK(agent, Row.list)
      BY RowFacts DEF RunInv, RunType
  <2>3. shown' = "off" => power'[1] = "off"
    <3> SUFFICES ASSUME shown' = "off" PROVE power'[1] = "off"
        OBVIOUS
    <3>1. CASE shown' = shown
        BY <3>1, <1>1, HonestStep DEF Truth, Outcome
    <3>2. CASE shown' # shown
      <4>1. Row.list[w] = "off"
          BY <2>1, <3>2 DEF Line
      <4>2. w \in SaysOff
          BY <4>1, <2>1, <2>2 DEF OffOK, Taken, Hear, Honest
      <4> QED BY <4>2, <2>1, <1>1 DEF MayAnswer
    <3> QED BY <3>1, <3>2
  <2> QED BY <1>1, <2>0, <2>1, <2>3, ExitTruth
<1> QED BY <1>2, <1>3

\* fence_action, up to its first callback.
LEMMA StartTruth ==
    ASSUME RunInv, TruthInv, RunNext, Honest', Start
    PROVE  Truth'
<1>1. /\ pc = "start" /\ plug' = 1 /\ acc' = "off" /\ UNCHANGED <<opt, action, status, heard, shown>>
      /\ action = opt.action /\ status = "none"
      /\ \/ pc' \in {"list", "decide", "status"}
         \/ pc' = "done" /\ result' = 0 /\ opt.action \in {"list", "monitor"}
    BY DEF Start, fence_action_start, runVars, Listing, RunInv, RunControl
<1>2. CASE pc' \in {"list", "decide", "status"}
  <2>1. OnPortion' => OnPortion
      BY <1>1 DEF OnPortion
  <2>2. \A q \in Plugs : ~(q < plug')
      BY <1>1 DEF Plugs
  <2>3. Safe' => OffInv'
      BY <1>1, <1>2, <2>1, <2>2, GoesOn DEF OffInv
  <2>4. ButtonInv'
      BY <1>1, <1>2 DEF ButtonInv
  <2> QED BY <1>1, <1>2, <2>1, <2>3, <2>4, GoesOn DEF Truth
<1>3. CASE pc' = "done"
  <2>1. Outcome'
      BY <1>1, <1>3, HonestStep DEF Truth, Outcome
  <2>2. ~Safe'
      BY <1>1, <1>3 DEF Safe
  <2> QED BY <2>1, <2>2 DEF Truth
<1> QED BY <1>1, <1>2, <1>3

\* The off of a machine that has not been found off.
LEMMA BeginOff ==
    ASSUME RunInv, TruthInv, RunNext, Honest', pc = "decide", BeginSet("off"),
           UNCHANGED <<power, cmd, heard, shown>>, status # "off",
           opt.action \in {"off", "reboot"}, ~Cycle
    PROVE  Truth'
<1>1. /\ pc' \in {"set", "sync"} /\ action' = "off" /\ plug' = 1 /\ opt' = opt
      /\ opt.action = action
    BY DEF BeginSet, RunInv, RunControl
<1>2. Safe /\ ~OnPortion'
    BY <1>1 DEF Safe, Succeeded, OnPortion
<1>3. \A q \in Plugs : ~(q < plug')
    BY <1>1 DEF Plugs
<1>4. Outcome' /\ (Safe' => OffInv')
    BY <1>1, <1>2, <1>3, GoesOn DEF OffInv
<1>5. agent = "ilo2" => ButtonInv'
  <2> SUFFICES ASSUME agent = "ilo2" PROVE power[1] = "on" /\ cmd[1] = "none"
      BY <1>1 DEF ButtonInv
  <2>1. status = "on"
      BY ButtonFacts DEF Buttons, RunInv, RunControl
  <2> QED BY <2>1, <1>2, HonestStep DEF Truth, ButtonInv
<1> QED BY <1>4, <1>5, HonestStep DEF Truth

\* fence_action, from the known status to the next callback.
LEMMA DecideTruth ==
    ASSUME RunInv, TruthInv, RunNext, Honest', Decide
    PROVE  Truth'
<1>1. /\ pc = "decide" /\ action = opt.action /\ UNCHANGED <<power, cmd, heard, shown>>
      /\ fence_action_decide /\ status \in {"none", "on", "off"} /\ ~Succeeded
    BY DEF Decide, fence_action_decide, runVars, deviceVars, RunInv, RunControl, Succeeded
<1>2. shown' = "off" => opt.action \in {"list", "monitor"} /\ power'[1] = "off"
    BY <1>1, HonestStep DEF Truth, Outcome
<1>3. Safe /\ status = "off" => Dark(power') /\ allOff'
    BY <1>1, HonestStep DEF Truth, OffInv
<1>4. CASE Already /\ Exit(0) /\ action' = action
  <2>1. opt.action = "off" => Safe /\ status = "off"
      BY <1>4 DEF Safe, Already
  <2>2. opt.action # "reboot"
      BY <1>1, <1>4 DEF Already
  <2> QED BY <1>1, <1>2, <1>3, <1>4, <2>1, <2>2, ExitTruth
<1>5. CASE ~Already /\ opt.action \in {"on", "off"} /\ CallSet(opt.action)
  <2>1. CASE Trivial(opt.action)
    <3>1. Exit(1) /\ action' = action
        BY <1>1, <1>5, <2>1 DEF CallSet
    <3> QED BY <1>1, <1>2, <3>1, ExitTruth
  <2>2. CASE ~Trivial(opt.action) /\ opt.action = "off"
    <3>1. BeginSet("off") /\ status # "off" /\ ~Cycle
        BY <1>5, <2>2 DEF CallSet, Already, Cycle
    <3> QED BY <1>1, <2>2, <3>1, BeginOff
  <2>3. CASE ~Trivial(opt.action) /\ opt.action = "on"
    <3>1. BeginSet("on")
        BY <1>5, <2>3 DEF CallSet
    <3>2. pc' \in {"set", "sync"} /\ opt' = opt
        BY <3>1 DEF BeginSet
    <3>3. ~Safe' /\ ~OnPortion'
        BY <3>2, <2>3 DEF Safe, OnPortion
    <3> QED BY <1>1, <3>2, <3>3, GoesOn DEF Truth
  <2> QED BY <1>5, <2>1, <2>2, <2>3
<1>6. CASE Cycle /\ pc' = "cycle" /\ UNCHANGED <<opt, action>>
  <2>1. ~Safe' /\ (OnPortion' => OnPortion)
      BY <1>6 DEF Safe, Cycle, OnPortion
  <2> QED BY <1>1, <1>6, <2>1, GoesOn DEF Truth
<1>7. CASE opt.action = "reboot" /\ ~Cycle /\ status # "off" /\ CallSet("off")
  <2>1. CASE Trivial("off")
    <3>1. Exit(1) /\ action' = "off"
        BY <1>7, <2>1 DEF CallSet
    <3> QED BY <1>1, <1>2, <3>1, ExitTruth
  <2>2. CASE ~Trivial("off")
    <3>1. BeginSet("off")
        BY <1>7, <2>2 DEF CallSet
    <3> QED BY <1>1, <1>7, <3>1, BeginOff
  <2> QED BY <2>1, <2>2
<1>8. CASE opt.action = "reboot" /\ ~Cycle /\ status = "off" /\ StartOnPortion
  <2>1. Safe
      BY <1>1, <1>8 DEF Safe
  <2>2. allOff'
      BY <1>3, <1>8, <2>1
  <2>3. CASE Trivial("on")
    <3>1. Exit(0) /\ action' = "reboot"
        BY <1>8, <2>3 DEF StartOnPortion
    <3> QED BY <1>1, <1>2, <1>8, <2>2, <3>1, ExitTruth
  <2>4. CASE ~Trivial("on")
    <3>1. BeginSet("on")
        BY <1>8, <2>4 DEF StartOnPortion
    <3>2. pc' \in {"set", "sync"} /\ opt' = opt /\ action' = "on"
        BY <3>1 DEF BeginSet
    <3>3. ~Safe'
        BY <3>2, <1>8 DEF Safe
    <3>4. Outcome'
        BY <3>2, <1>2, <1>8, <2>2 DEF Outcome, Succeeded
    <3> QED BY <3>3, <3>4 DEF Truth
  <2> QED BY <2>3, <2>4
<1>9. CASE /\ opt.action = "status" /\ action' = action
           /\ Exit(IF status = "off" THEN 2 ELSE 0)
  <2>1. Safe
      BY <1>9 DEF Safe
  <2> QED BY <1>1, <1>2, <1>3, <1>9, <2>1, ExitTruth
<1>10. CASE opt.action = "monitor" /\ Exit(0) /\ action' = action
    BY <1>1, <1>2, <1>10, ExitTruth
<1> QED BY <1>1, <1>4, <1>5, <1>6, <1>7, <1>8, <1>9, <1>10 DEF fence_action_decide

\* A reading of an honest run: an "off" is the truth about its plug.
LEMMA HonestReading ==
    ASSUME RunInv, TruthInv, RunNext, Honest', Query, Safe
    PROVE  \/ \E how : Broken(how)
           \/ \E r \in Readings :
                 /\ ReadPlug(r)
                 /\ r = "off" => power[plug] = "off"
                 /\ agent = "ilo2" /\ r = "on" => power[plug] = "on"
<1>1. /\ pc \in {"status", "poll"} /\ UNCHANGED <<missingAsOff, power>> /\ action # "on"
      /\ plug \in Plugs
    BY DEF Query, deviceVars, RunInv, RunControl, RunType, Safe
<1>2. ~missingAsOff /\ ~MixesPlugs /\ ~guessed'
    BY <1>1, HonestStep DEF Honest
<1>3. Target = plug
    BY <1>1, <1>2, TargetIsPlug
<1>4. PICK w \in DOMAIN Row.get :
         /\ IF Row.names = "once" THEN w = heard ELSE MayAnswer(w, power[plug])
         /\ Hear(w)
         /\ \/ Meaning(w) \in Readings /\ ReadPlug(Meaning(w))
            \/ Meaning(w) \in {"raise", "fail"} /\ Broken(Meaning(w))
    BY <1>3 DEF Query
<1>5. Meaning(w) = "off" => power[plug] = "off"
  <2> SUFFICES ASSUME Meaning(w) = "off" PROVE power[plug] = "off"
      OBVIOUS
  <2>1. Row.get[w] = "off"
      BY <1>1, <1>2 DEF Meaning
  <2>2. CASE Row.names = "once"
    <3>1. w = heard /\ w # "none"
        BY <1>4, <2>2, RowFacts DEF CleanGet, RunInv, RunType
    <3>2. Dark(power)
        BY <3>1, <2>1, <2>2, <1>1, HonestStep DEF Truth, OffInv
    <3> QED BY <3>2, <1>1 DEF Dark
  <2>3. CASE Row.names # "once"
    <3>1. OffOK(agent, Row.get)
        BY RowFacts DEF RunInv, RunType
    <3>2. w \in SaysOff
        BY <3>1, <2>1, <1>2, <1>4 DEF OffOK, Taken, Hear
    <3> QED BY <3>2, <2>3, <1>4 DEF MayAnswer
  <2> QED BY <2>2, <2>3
<1>6. agent = "ilo2" /\ Meaning(w) = "on" => power[plug] = "on"
  <2> SUFFICES ASSUME agent = "ilo2", Meaning(w) = "on" PROVE power[plug] = "on"
      OBVIOUS
  <2>1. Row.get[w] = "on"
      BY <1>1, <1>2, <1>4, ButtonFacts DEF Buttons, Meaning
  <2> QED BY <2>1, <1>4, ButtonFacts DEF Buttons, MayAnswer
<1> QED BY <1>4, <1>5, <1>6

\* What the loops of the status and of a poll make of it.
LEMMA ReadTruth ==
    ASSUME RunInv, TruthInv, RunNext, Honest', NEW r \in Readings, ReadPlug(r),
           UNCHANGED <<power, cmd, heard, shown>>,
           Safe /\ r = "off" => power[plug] = "off",
           Safe /\ agent = "ilo2" /\ r = "on" => power[plug] = "on"
    PROVE  Truth'
<1>1. pc \in {"status", "poll"} /\ plug \in Plugs /\ NPlugs \in Nat /\ plug \in Nat
    BY FenceActionAssumption DEF ReadPlug, RunInv, RunType, Plugs
<1>2. PICK s : s = Aggregate(acc, r)
    OBVIOUS
<1>3. Safe /\ s = "off" => \A q \in Plugs : q < plug + 1 => power[q] = "off"
  <2> SUFFICES ASSUME Safe, s = "off", NEW q \in Plugs, q < plug + 1
               PROVE  power[q] = "off"
      OBVIOUS
  <2>1. acc = "off" /\ r = "off"
      BY <1>2 DEF Aggregate
  <2>2. q = plug \/ q < plug
      BY <1>1 DEF Plugs
  <2> QED BY <2>1, <2>2, <1>1, HonestStep DEF Truth, OffInv
<1>4. CASE plug < NPlugs
  <2>1. plug' = plug + 1 /\ acc' = s /\ UNCHANGED <<opt, pc, action, status, success>>
      BY <1>2, <1>4 DEF ReadPlug
  <2>2. OnPortion' => OnPortion
      BY <2>1 DEF OnPortion
  <2>3. Outcome' /\ (Safe' => Safe)
      BY <1>1, <2>1, <2>2, GoesOn, HonestStep
  <2>4. Safe' => OffInv'
      BY <1>1, <1>3, <2>1, <2>2, <2>3, GoesOn DEF OffInv
  <2>5. agent # "ilo2"
      BY <1>4, <1>1, ButtonFacts DEF Buttons
  <2> QED BY <2>3, <2>4, <2>5, <1>1, HonestStep DEF Truth
<1>5. CASE ~(plug < NPlugs) /\ pc = "status"
  <2>1. StatusKnown(s)
      BY <1>2, <1>5 DEF ReadPlug
  <2>a. Safe /\ s = "off" => Dark(power')
      BY <1>1, <1>3, <1>5 DEF Dark, Plugs
  <2>2. CASE s \in {"on", "off"}
    <3>1. action' = action /\ pc' = "decide" /\ status' = s /\ UNCHANGED <<opt, acc>>
        BY <2>1, <2>2 DEF StatusKnown
    <3>2. OnPortion' => OnPortion
        BY <3>1 DEF OnPortion
    <3>3. Outcome' /\ (Safe' => Safe)
        BY <1>1, <3>1, <3>2, GoesOn, HonestStep
    <3>4. Safe' => OffInv'
        BY <1>1, <2>a, <3>1, <3>2, <3>3, GoesOn DEF OffInv
    <3>5. Safe /\ agent = "ilo2" => ButtonInv'
      <4> SUFFICES ASSUME Safe, agent = "ilo2", s = "on" PROVE power[1] = "on" /\ cmd[1] = "none"
          BY <3>1 DEF ButtonInv
      <4>1. acc = "off" /\ plug = 1
          BY <1>5, HonestStep, ButtonFacts DEF Buttons, Truth, ButtonInv
      <4>2. r = "on"
          BY <4>1, <1>2 DEF Aggregate
      <4> QED BY <4>1, <4>2, <1>1, <1>5 DEF TruthInv, Untouched
    <3> QED BY <3>3, <3>4, <3>5, <1>1, HonestStep DEF Truth
  <2>3. CASE s \notin {"on", "off"}
    <3>1. Exit(1) /\ action' = action
        BY <2>1, <2>3 DEF StatusKnown
    <3>2. shown' = "off" => opt.action \in {"list", "monitor"} /\ power'[1] = "off"
        BY <1>1, HonestStep DEF Truth, Outcome
    <3> QED BY <3>1, <3>2, <1>1, ExitTruth
  <2> QED BY <2>2, <2>3
<1>6. CASE ~(plug < NPlugs) /\ pc = "poll"
  <2>1. Polled(s)
      BY <1>2, <1>6 DEF ReadPlug
  <2>a. Safe /\ s = "off" => Dark(power')
      BY <1>1, <1>3, <1>6 DEF Dark, Plugs
  <2>b. Safe => action = "off"
      BY <1>6 DEF Safe, RunInv, RunControl
  <2>2. CASE s = action
    <3>1. SetReturned(TRUE)
        BY <2>1, <2>2 DEF Polled
    <3> QED BY <3>1, <2>2, <2>a, <2>b, <1>6, SetReturnedTruth
  <2>3. CASE s # action /\ SetReturned(FALSE)
      BY <2>3, <1>6, SetReturnedTruth
  <2>4. CASE s # action /\ ~SetReturned(FALSE)
    <3>1. /\ plug' = 1 /\ acc' = "off" /\ UNCHANGED <<opt, action, status, success>>
          /\ pc' = "poll" \/ (pc' = "set" /\ attempt < Attempts(action))
        BY <2>1, <2>4, <1>6 DEF Polled
    <3>2. OnPortion' => OnPortion
        BY <3>1 DEF OnPortion
    <3>3. Outcome' /\ (Safe' => Safe)
        BY <1>1, <3>1, <3>2, GoesOn, HonestStep
    <3>4. \A q \in Plugs : ~(q < plug')
        BY <3>1 DEF Plugs
    <3>5. Safe' => OffInv'
        BY <1>1, <3>1, <3>2, <3>4, GoesOn DEF OffInv
    <3>6. Safe => pc' = "poll"
      <4>1. Safe => Attempts(action) = 1
          BY <2>b DEF Attempts, Safe
      <4>2. attempt \in Nat \ {0}
          BY DEF TruthInv
      <4> QED BY <4>1, <4>2, <3>1
    <3> QED BY <3>3, <3>5, <3>6, <3>1, <1>1, HonestStep DEF Truth, ButtonInv
  <2> QED BY <2>2, <2>3, <2>4
<1> QED BY <1>1, <1>4, <1>5, <1>6

\* The count of the attempts.
LEMMA AttemptStep ==
    ASSUME RunInv, TruthInv, RunNext
    PROVE  attempt' \in Nat \ {0}
<1> SUFFICES attempt' \in {attempt, attempt + 1, 1}
    BY DEF TruthInv
<1>s. ASSUME NEW ok, SetReturned(ok) PROVE attempt' \in {attempt, 1}
    BY <1>s DEF SetReturned, StartOnPortion, BeginSet, Exit
<1>h. ASSUME NEW how, Broken(how) PROVE attempt' = attempt
    BY <1>h DEF Broken, Exit
<1>1. CASE CheckInput \/ MainStep \/ MainStepFails \/ List
    BY <1>1 DEF CheckInput, MainStep, MainGoesOn, MainStepFails, List, Exit
<1>2. CASE Start \/ Decide
    BY <1>2 DEF Start, fence_action_start, Decide, fence_action_decide, CallSet, StartOnPortion,
                BeginSet, Exit
<1>3. CASE Query
  <2>1. ASSUME NEW r, ReadPlug(r) PROVE attempt' \in {attempt, attempt + 1, 1}
      BY <2>1, <1>s DEF ReadPlug, StatusKnown, Polled, Exit
  <2> QED BY <1>3, <2>1, <1>h DEF Query
<1>4. CASE Command \/ CommandRefused
    BY <1>4, <1>h DEF Command, CommandRefused, CommandSent
<1>5. CASE SyncCommand
    BY <1>5, <1>h, <1>s DEF SyncCommand, LoopTail
<1>6. CASE CycleCommand
    BY <1>6 DEF CycleCommand, LoopTail, CycleReturned, Exit
<1>7. CASE Device \/ Finished
    BY <1>7 DEF Device, DeviceActs, DeviceCycles, DeviceToggles, agentVars, Finished, vars
<1> QED BY <1>1, <1>2, <1>3, <1>4, <1>5, <1>6, <1>7 DEF RunNext, AgentStep

\* A query, for the status or for a poll.
LEMMA QueryTruth ==
    ASSUME RunInv, TruthInv, RunNext, Honest', Query
    PROVE  Truth'
<1>1. pc \in {"status", "poll"} /\ UNCHANGED <<power, cmd, heard, shown>>
    BY DEF Query, deviceVars
<1>2. CASE \E how : Broken(how)
  <2>1. PICK how : Broken(how)
      BY <1>2
  <2> QED BY <1>1, <2>1, BrokenTruth
<1>3. CASE Safe /\ ~\E how : Broken(how)
  <2>1. PICK r \in Readings : /\ ReadPlug(r)
                              /\ r = "off" => power[plug] = "off"
                              /\ agent = "ilo2" /\ r = "on" => power[plug] = "on"
      BY <1>3, HonestReading
  <2> QED BY <1>1, <2>1, ReadTruth
<1>4. CASE ~Safe /\ ~\E how : Broken(how)
  <2>1. PICK r \in Readings : ReadPlug(r)
      BY <1>4 DEF Query
  <2> QED BY <1>1, <1>4, <2>1, ReadTruth
<1> QED BY <1>2, <1>3, <1>4

\* A command, taken or not.
LEMMA CommandTruth ==
    ASSUME RunInv, TruthInv, RunNext, Honest', Command \/ CommandRefused
    PROVE  Truth'
<1>1. pc = "set" /\ UNCHANGED <<heard, shown>> /\ plug \in Plugs
    BY DEF Command, CommandRefused, RunInv, RunType
<1>2. CASE \E how : Broken(how)
  <2>1. PICK how : Broken(how)
      BY <1>2
  <2> QED BY <1>1, <2>1, BrokenTruth
<1>3. CASE CommandSent
  <2>1. /\ pc' \in {"set", "poll"} /\ UNCHANGED <<opt, action>>
        /\ pc' = "poll" => plug' = 1
        /\ pc' = "set" => plug < NPlugs
      BY <1>1, <1>3 DEF CommandSent
  <2>2. OnPortion' => OnPortion
      BY <2>1 DEF OnPortion
  <2>3. pc' = "poll" => \A q \in Plugs : ~(q < plug')
      BY <2>1 DEF Plugs
  <2>4. Outcome' /\ (Safe' => OffInv')
      BY <1>1, <2>1, <2>2, <2>3, GoesOn DEF OffInv
  <2>5. agent = "ilo2" => ButtonInv'
      BY <1>1, <2>1, ButtonFacts DEF Buttons, ButtonInv
  <2> QED BY <1>1, <2>4, <2>5, HonestStep DEF Truth
<1> QED BY <1>2, <1>3 DEF Command, CommandRefused

\* A callback that switches the machine and answers for it.
LEMMA SyncTruth ==
    ASSUME RunInv, TruthInv, RunNext, Honest', SyncCommand
    PROVE  Truth'
<1>1. /\ pc = "sync" /\ UNCHANGED <<heard, shown>> /\ plug \in Plugs /\ success \in BOOLEAN
      /\ Safe => action = "off"
    BY DEF SyncCommand, RunInv, RunType, RunControl, Safe
<1>n. NPlugs \in Nat /\ plug \in Nat
    BY <1>1, FenceActionAssumption DEF Plugs
<1>2. ASSUME NEW ok \in BOOLEAN, UNCHANGED <<opt, pc, action>>,
             \/ UNCHANGED <<plug, success>>
             \/ plug < NPlugs /\ plug' = plug + 1 /\ success' = (success /\ ok),
             Safe /\ ok => power'[plug] = "off"
      PROVE  Truth'
  <2>1. OnPortion' => OnPortion
      BY <1>2 DEF OnPortion
  <2>2. Safe' => Safe
      BY <1>1, HonestStep
  <2>3. ASSUME Safe, success', NEW q \in Plugs, q < plug' PROVE power'[q] = "off"
    <3>n. q \in Nat
        BY DEF Plugs
    <3>1. success /\ (q < plug \/ (q = plug /\ ok))
      <4>1. CASE UNCHANGED <<plug, success>>
          BY <2>3, <4>1
      <4>2. CASE plug < NPlugs /\ plug' = plug + 1 /\ success' = (success /\ ok)
        <5>1. success /\ ok
            BY <2>3, <4>2
        <5>2. q < plug + 1
            BY <2>3, <4>2
        <5> QED BY <5>1, <5>2, <3>n, <1>n
      <4> QED BY <1>2, <4>1, <4>2
    <3>2. CASE q < plug
      <4>1. power[q] = "off"
          BY <1>1, <2>3, <3>1, <3>2, HonestStep DEF Truth, OffInv
      <4> QED BY <1>1, <2>3, <4>1, HonestStep
    <3>3. CASE q = plug /\ ok
        BY <1>2, <2>3, <3>3
    <3> QED BY <3>1, <3>2, <3>3
  <2>4. Outcome' /\ (Safe' => OffInv')
      BY <1>1, <1>2, <2>1, <2>2, <2>3, GoesOn DEF OffInv
  <2>5. ButtonInv'
      BY <1>1, <1>2 DEF ButtonInv
  <2> QED BY <2>4, <2>5 DEF Truth
<1>3. CASE Broken(Row.set.refused)
    BY <1>1, <1>3, BrokenTruth
<1>4. CASE LoopTail(FALSE, Attempts(action), SetReturned(FALSE))
  <2>1. CASE SetReturned(FALSE)
      BY <1>1, <2>1, SetReturnedTruth
  <2>2. CASE ~SetReturned(FALSE)
    <3>1. /\ UNCHANGED <<opt, pc, action>>
          /\ \/ UNCHANGED <<plug, success>>
             \/ plug < NPlugs /\ plug' = plug + 1 /\ success' = (success /\ FALSE)
        BY <1>4, <2>2 DEF LoopTail
    <3> QED BY <3>1, <1>2
  <2> QED BY <2>1, <2>2
<1>5. CASE /\ power' = [power EXCEPT ![Target] = action]
           /\ LoopTail(TRUE, Attempts(action), SetReturned(success))
  <2>1. Safe => power'[plug] = "off"
    <3> SUFFICES ASSUME Safe PROVE power'[plug] = "off"
        OBVIOUS
    <3>1. Target = plug
        BY <1>1, HonestStep, TargetIsPlug DEF Honest
    <3> QED BY <3>1, <1>1, <1>5 DEF RunInv, RunType
  <2>2. CASE ~(plug < NPlugs)
    <3>1. SetReturned(success)
        BY <1>5, <2>2 DEF LoopTail
    <3>2. ASSUME Safe, success, NEW q \in Plugs PROVE power'[q] = "off"
      <4>1. q < plug \/ q = plug
          BY <1>n, <1>1, <2>2 DEF Plugs
      <4>2. CASE q < plug
        <5>1. power[q] = "off"
            BY <1>1, <3>2, <4>2, HonestStep DEF Truth, OffInv
        <5> QED BY <1>1, <3>2, <5>1, HonestStep
      <4> QED BY <4>1, <4>2, <2>1, <3>2
    <3>3. Safe /\ success => Dark(power')
        BY <3>2 DEF Dark
    <3> QED BY <1>1, <3>1, <3>3, SetReturnedTruth
  <2>3. CASE plug < NPlugs
    <3>1. /\ UNCHANGED <<opt, pc, action>>
          /\ \/ UNCHANGED <<plug, success>>
             \/ plug < NPlugs /\ plug' = plug + 1 /\ success' = (success /\ TRUE)
        BY <1>5, <2>3 DEF LoopTail
    <3> QED BY <3>1, <2>1, <1>2
  <2> QED BY <2>2, <2>3
<1> QED BY <1>3, <1>4, <1>5 DEF SyncCommand

\* A power cycle, which claims nothing.
LEMMA CycleTruth ==
    ASSUME RunInv, TruthInv, RunNext, Honest', CycleCommand
    PROVE  Truth'
<1>1. pc = "cycle" /\ UNCHANGED <<heard, shown>> /\ Cycle
    BY DEF CycleCommand, RunInv, RunControl
<1>2. ~Safe' /\ opt.action = "reboot" /\ Cycle'
    BY <1>1, HonestStep DEF Safe, Cycle
<1>3. ASSUME NEW ok, CycleReturned(ok) PROVE Truth'
  <2>1. Exit(IF ok THEN 0 ELSE 1) /\ action' = action
      BY <1>3 DEF CycleReturned
  <2>2. shown' = "off" => opt.action \in {"list", "monitor"} /\ power'[1] = "off"
      BY <1>1, HonestStep DEF Truth, Outcome
  <2> QED BY <1>1, <1>2, <2>1, <2>2, ExitTruth
<1>4. ASSUME UNCHANGED <<opt, pc, action>> PROVE Truth'
  <2>1. OnPortion' => OnPortion
      BY <1>4 DEF OnPortion
  <2> QED BY <1>1, <1>2, <1>4, <2>1, GoesOn DEF Truth
<1> QED BY <1>3, <1>4 DEF CycleCommand, LoopTail

\* The device carries out a command, also after the end of the process.
LEMMA DeviceTruth ==
    ASSUME RunInv, TruthInv, RunNext, Honest', pc # "input",
           Device /\ UNCHANGED runVars
    PROVE  Truth'
<1>1. UNCHANGED <<opt, pc, action, plug, acc, status, success, result, heard, shown, agent>>
    BY DEF Device, DeviceActs, DeviceCycles, DeviceToggles, agentVars, runVars
<1>2. Safe' = Safe /\ Row' = Row /\ Cycle' = Cycle /\ Succeeded' = Succeeded
    BY <1>1 DEF Safe, Row, Cycle, Succeeded
<1>3. Safe => OffInv'
  <2> SUFFICES ASSUME Safe PROVE OffInv'
      OBVIOUS
  <2>1. OffInv /\ Harmless' /\ (Dark(power) => Dark(power'))
      BY HonestStep DEF Truth
  <2>2. \A q \in Plugs : power[q] = "off" => power'[q] = "off"
      BY HonestStep
  <2> QED BY <1>1, <1>2, <2>1, <2>2 DEF OffInv
<1>4. Outcome'
  <2>1. Outcome /\ (allOff => allOff')
      BY HonestStep DEF Truth
  <2>2. opt.action = "off" /\ Dark(power) => Dark(power')
      BY HonestStep DEF Safe
  <2>3. pc = "done" /\ result = 2 => power' = power
      BY HonestStep
  <2>4. opt.action \in {"list", "monitor"} => power' = power
      BY HonestStep
  <2> QED BY <1>1, <1>2, <2>1, <2>2, <2>3, <2>4 DEF Outcome, Dark
<1>5. Safe /\ agent = "ilo2" => ButtonInv'
  <2> SUFFICES ASSUME Safe, agent = "ilo2" PROVE ButtonInv'
      OBVIOUS
  <2>1. ButtonInv /\ Plugs = {1}
      BY HonestStep, ButtonFacts DEF Buttons, Truth, Plugs
  <2>2. cmd[1] # "none"
      BY <2>1 DEF Device, DeviceActs, DeviceCycles, DeviceToggles
  <2> QED BY <1>1, <2>1, <2>2 DEF ButtonInv
<1> QED BY <1>1, <1>2, <1>3, <1>4, <1>5 DEF Truth

\* Every step of a run.
LEMMA TruthStep == RunInv /\ TruthInv /\ [RunNext]_agentRunVars => TruthInv'
<1>1. ASSUME RunInv, TruthInv, UNCHANGED agentRunVars PROVE TruthInv'
    BY <1>1 DEF agentRunVars, vars, agentVars, deviceVars, runVars, TruthInv, Untouched, Dark, Honest,
                MixesPlugs, Truth, Safe, OffInv, Harmless, ButtonInv, Outcome, Row, Cycle, Succeeded
<1>2. ASSUME RunInv, TruthInv, RunNext PROVE TruthInv'
  <2>1. Untouched' /\ attempt' \in Nat \ {0} /\ (Dark(power') => allOff')
      BY <1>2, UntouchedStep, AttemptStep, DarkNoted
  <2>2. ASSUME Honest', pc' # "input" PROVE Truth'
    <3>1. CASE CheckInput
        BY <1>2, <3>1, InputTruth
    <3>2. CASE MainStep
        BY <1>2, <2>2, <3>2, MainTruth
    <3>3. CASE MainStepFails \/ List
        BY <1>2, <2>2, <3>3, ListTruth
    <3>4. CASE Start
        BY <1>2, <2>2, <3>4, StartTruth
    <3>5. CASE Decide
        BY <1>2, <2>2, <3>5, DecideTruth
    <3>6. CASE Query
        BY <1>2, <2>2, <3>6, QueryTruth
    <3>7. CASE Command \/ CommandRefused
        BY <1>2, <2>2, <3>7, CommandTruth
    <3>8. CASE SyncCommand
        BY <1>2, <2>2, <3>8, SyncTruth
    <3>9. CASE CycleCommand
        BY <1>2, <2>2, <3>9, CycleTruth
    <3>10. CASE Device /\ UNCHANGED runVars
      <4>1. pc # "input"
          BY <3>10, <2>2 DEF Device, DeviceActs, DeviceCycles, DeviceToggles, agentVars
      <4> QED BY <1>2, <2>2, <3>10, <4>1, DeviceTruth
    <3>11. CASE Finished /\ UNCHANGED runVars
      <4>1. UNCHANGED agentRunVars
          BY <3>11 DEF Finished, agentRunVars
      <4> QED BY <1>1, <1>2, <2>2, <4>1 DEF TruthInv
    <3> QED BY <1>2, <3>1, <3>2, <3>3, <3>4, <3>5, <3>6, <3>7, <3>8, <3>9, <3>10, <3>11
            DEF RunNext, AgentStep
  <2> QED BY <2>1, <2>2 DEF TruthInv
<1> QED BY <1>1, <1>2

\* For every agent of the tables, any number of plugs and any input: a code 0
\* for off or for the off portion of a reboot, a code 2 for status and an "off"
\* in a list are only given for machines that are off, whatever the device
\* answers, refuses, loses or does late, but for the answers in TakenForOff,
\* for --missing-as-off and for the agents that mix their plugs up.
THEOREM ReportsTruthCorrect == RunSpec => []ReportsTruth
<1>1. RunInv /\ TruthInv => ReportsTruth
    BY DEF TruthInv, Honest, Truth, Outcome, ReportsTruth, Succeeded
<1> QED BY <1>1, InitTruth, TruthStep, RunInvCorrect, PTL DEF RunSpec

----------------------------------------------------------------------------
(* The options that are left for the login.                                *)

\* DEPENDENCY_OPT, option by option.
LEMMA DependencyFacts ==
    ASSUME NEW opts, NEW x
    PROVE  x \in _add_dependency_options(opts) <=>
             \/ x = "passwd_script" /\ "passwd" \in opts
             \/ x \in {"identity_file", "ssh_path"} /\ "secure" \in opts
             \/ x = "telnet_path" /\ "telnet" \in opts
             \/ x = "ipport" /\ "ipaddr" \in opts
             \/ x = "separator" /\ "port" \in opts
             \/ x \in {"ssl_secure", "ssl_insecure", "gnutlscli_path"} /\ "ssl" \in opts
             \/ x = "community" /\ "snmp" \in opts
             \/ x = "port_as_ip" /\ "ipaddr" \in opts /\ "port" \notin opts
<1>1. x \in UNION {DEPENDENCY_OPT[o] : o \in opts \cap DOMAIN DEPENDENCY_OPT} <=>
        \E o \in opts \cap DOMAIN DEPENDENCY_OPT : x \in DEPENDENCY_OPT[o]
    OBVIOUS
<1>2. DOMAIN DEPENDENCY_OPT = {"passwd", "secure", "telnet", "ipaddr", "port", "ssl", "snmp"}
    BY DEF DEPENDENCY_OPT
<1>3. /\ DEPENDENCY_OPT["passwd"] = {"passwd_script"}
      /\ DEPENDENCY_OPT["secure"] = {"identity_file", "ssh_path"}
      /\ DEPENDENCY_OPT["telnet"] = {"telnet_path"}
      /\ DEPENDENCY_OPT["ipaddr"] = {"ipport"}
      /\ DEPENDENCY_OPT["port"] = {"separator"}
      /\ DEPENDENCY_OPT["ssl"] = {"ssl_secure", "ssl_insecure", "gnutlscli_path"}
      /\ DEPENDENCY_OPT["snmp"] = {"community"}
    BY DEF DEPENDENCY_OPT
<1>4. (\E o \in opts \cap DOMAIN DEPENDENCY_OPT : x \in DEPENDENCY_OPT[o]) <=>
        \/ "passwd" \in opts /\ x = "passwd_script"
        \/ "secure" \in opts /\ x \in {"identity_file", "ssh_path"}
        \/ "telnet" \in opts /\ x = "telnet_path"
        \/ "ipaddr" \in opts /\ x = "ipport"
        \/ "port" \in opts /\ x = "separator"
        \/ "ssl" \in opts /\ x \in {"ssl_secure", "ssl_insecure", "gnutlscli_path"}
        \/ "snmp" \in opts /\ x = "community"
    BY <1>2, <1>3
<1>5. x \in _add_dependency_options(opts) <=>
        \/ x \in UNION {DEPENDENCY_OPT[o] : o \in opts \cap DOMAIN DEPENDENCY_OPT}
        \/ x = "port_as_ip" /\ "ipaddr" \in opts /\ "port" \notin opts
  <2>1. PICK u : u = UNION {DEPENDENCY_OPT[o] : o \in opts \cap DOMAIN DEPENDENCY_OPT}
      OBVIOUS
  <2>2. _add_dependency_options(opts) =
           u \cup (IF "ipaddr" \in opts /\ "port" \notin opts THEN {"port_as_ip"} ELSE {})
      BY <2>1 DEF _add_dependency_options
  <2>3. x \in _add_dependency_options(opts) <=>
           \/ x \in u
           \/ x = "port_as_ip" /\ "ipaddr" \in opts /\ "port" \notin opts
      BY <2>2
  <2> QED BY <2>1, <2>3
<1> QED BY <1>1, <1>4, <1>5

\* The device_opt of an agent that logs in, before and after the dependencies.
LEMMA CompleteFacts ==
    ASSUME NEW d, {"ipaddr", "login", "passwd"} \subseteq d
    PROVE  /\ \A x : x \in CompleteOpt(d) =>
                 \/ x \in d
                 \/ x = "community" /\ "snmp" \in d
                 \/ x \in {"passwd_script", "identity_file", "ssh_path", "telnet_path", "ipport",
                           "separator", "ssl_secure", "ssl_insecure", "gnutlscli_path",
                           "port_as_ip", "port"}
           /\ d \subseteq CompleteOpt(d) /\ AvailOpt(d) \subseteq CompleteOpt(d)
           /\ {"passwd_script", "ipport"} \subseteq CompleteOpt(d)
           /\ "identity_file" \in CompleteOpt(d) => "identity_file" \in d \/ "secure" \in d
           /\ "secure" \in d => {"identity_file", "ssh_path"} \subseteq CompleteOpt(d)
           /\ "telnet" \in d => "telnet_path" \in CompleteOpt(d)
           /\ "telnet_path" \in CompleteOpt(d) => "telnet_path" \in d \/ "telnet" \in d
           /\ "ssl" \in d => "gnutlscli_path" \in CompleteOpt(d)
<1>1. \A x : x \in AvailOpt(d) =>
         \/ x \in d
         \/ x = "community" /\ "snmp" \in d
         \/ x \in {"identity_file", "ssh_path"} /\ "secure" \in d
         \/ x = "telnet_path" /\ "telnet" \in d
         \/ x \in {"passwd_script", "ipport", "separator", "ssl_secure",
                   "ssl_insecure", "gnutlscli_path", "port_as_ip", "port"}
    BY DependencyFacts DEF AvailOpt
<1>2. d \cup _add_dependency_options(d) \subseteq AvailOpt(d)
    BY DEF AvailOpt
<1>3. CompleteOpt(d) = AvailOpt(d) \cup _add_dependency_options(AvailOpt(d))
    BY DEF CompleteOpt
<1>4. \A x : x \in CompleteOpt(d) =>
         \/ x \in d
         \/ x = "community" /\ "snmp" \in d
         \/ x \in {"passwd_script", "identity_file", "ssh_path", "telnet_path", "ipport",
                   "separator", "ssl_secure", "ssl_insecure", "gnutlscli_path",
                   "port_as_ip", "port"}
    BY <1>1, <1>3, DependencyFacts
<1>5. /\ "identity_file" \in CompleteOpt(d) => "identity_file" \in d \/ "secure" \in d
      /\ "telnet_path" \in CompleteOpt(d) => "telnet_path" \in d \/ "telnet" \in d
    BY <1>1, <1>3, DependencyFacts
<1>6. {"passwd_script", "ipport"} \subseteq CompleteOpt(d)
    BY <1>2, <1>3, DependencyFacts
<1>7. "secure" \in d => {"identity_file", "ssh_path"} \subseteq CompleteOpt(d)
    BY <1>2, <1>3, DependencyFacts
<1>8. /\ "telnet" \in d => "telnet_path" \in CompleteOpt(d)
      /\ "ssl" \in d => "gnutlscli_path" \in CompleteOpt(d)
    BY <1>2, <1>3, DependencyFacts
<1> QED BY <1>2, <1>3, <1>4, <1>5, <1>6, <1>7, <1>8

\* What check_input leaves to an agent with the options d and the defaults f.
Prepared(a, main, o) ==
    /\ "login" \in o.has \/ a = "wti"
    /\ "ipaddr" \in o.has \/ a = "lpar"
    /\ "passwd" \in o.has \/ "identity_file" \in o.has \/ a = "wti"
    /\ "identity_file" \in o.has => "secure" \in o.has
    /\ "secure" \in o.has => "secure" \in main.device_opt
    /\ "secure" \in main.device_opt => "ssh_path" \in o.has
    /\ "secure" \in main.defaults => "secure" \in o.has
    /\ "telnet" \in main.device_opt <=> "telnet_path" \in o.has
    /\ "ssl" \in o.has <=> "ssl" \in main.device_opt
    /\ "ssl" \in main.device_opt => "gnutlscli_path" \in o.has
    /\ "cmd_prompt" \in main.defaults => "cmd_prompt" \in o.has
    /\ "telnet" \in main.device_opt \/ {"secure", "ssl"} \cap o.has # {} => "ipport" \in o.has
    /\ o.port # "given" =>
          IF "ssl" \in o.has THEN o.port = "443"
          ELSE IF "secure" \in o.has THEN o.port = "22" \/ a = "raritan_px3"
          ELSE "telnet" \in main.device_opt => o.port \in {"23", "own"}

\* check_input, for an agent that logs in.
LEMMA InputPrepared ==
    ASSUME NEW a, NEW main, LoginOK(a, main), NEW i \in 1 .. Len(main.steps),
           main.steps[i] = "fence_login",
           NEW names, names \subseteq UserOptions, NEW act, NEW o,
           LET device_opt == CompleteOpt(main.device_opt)
               defaults   == main.defaults
               avail      == AvailOpt(main.device_opt)
               parsed     == process_input(names, avail)
               has        == _set_default_values(device_opt, defaults, parsed)
           IN /\ _validate_input(device_opt, has, act)
              /\ o = [has |-> CheckedInput(has), port |-> DefaultPort(device_opt, defaults, parsed)]
    PROVE  Prepared(a, main, o)
<1>1. PICK d, f : d = main.device_opt /\ f = main.defaults
    OBVIOUS
<1>2. /\ {"ipaddr", "login", "passwd"} \subseteq d
      /\ {"web", "snmp", "community", "target", "ipport", "identity_file",
          "passwd_script", "telnet_path"} \cap d = {}
      /\ {"no_login", "no_password"} \cap d = {} \/ a = "wti"
      /\ f \subseteq {"secure", "cmd_prompt", "ssl", "ipport", "ipport_unless_ssh"}
      /\ f \cap {"secure", "cmd_prompt", "ssl"} \subseteq d
      /\ "managed" \in d => a = "lpar"
      /\ "ipport" \in f => a = "raritan_px3"
      /\ "ipport_unless_ssh" \in f => "secure" \notin f
      /\ "ssl" \in d => "ssl" \in f /\ "secure" \notin d /\ {"ipport", "ipport_unless_ssh"} \cap f = {}
    BY <1>1 DEF LoginOK
<1>3. PICK D : D = CompleteOpt(d)
    OBVIOUS
<1>4. /\ d \subseteq D /\ {"passwd_script", "ipport"} \subseteq D
      /\ \A x \in {"login", "ipaddr", "managed", "secure", "ssl", "telnet", "target", "no_login",
                   "no_password", "web", "community"} : x \in D => x \in d
      /\ "identity_file" \in D => "secure" \in d
      /\ "secure" \in d => "ssh_path" \in D
      /\ "telnet" \in d <=> "telnet_path" \in D
      /\ "ssl" \in d => "gnutlscli_path" \in D
  <2>1. \A x : x \in D =>
           \/ x \in d
           \/ x = "community" /\ "snmp" \in d
           \/ x \in {"passwd_script", "identity_file", "ssh_path", "telnet_path", "ipport",
                     "separator", "ssl_secure", "ssl_insecure", "gnutlscli_path",
                     "port_as_ip", "port"}
      BY <1>2, <1>3, CompleteFacts
  <2>2. \A x \in {"login", "ipaddr", "managed", "secure", "ssl", "telnet", "target", "no_login",
                  "no_password", "web", "community"} : x \in D => x \in d
      BY <2>1, <1>2
  <2> QED BY <2>2, <1>2, <1>3, CompleteFacts
<1>5. PICK p : p = process_input(names, AvailOpt(d))
    OBVIOUS
<1>6. p \subseteq D /\ p \subseteq UserOptions
  <2>1. AvailOpt(d) \subseteq D
      BY <1>2, <1>3, CompleteFacts
  <2> QED BY <2>1, <1>2, <1>4, <1>5 DEF process_input, _parse_input_stdin, UserOptions
<1>7. PICK h : h = _set_default_values(D, f, p)
    OBVIOUS
<1>8. \A x : x \in h <=>
         \/ x \in p
         \/ x \in D /\ x \in f
         \/ x \in D /\ x \in {"ssh_path", "telnet_path", "gnutlscli_path", "separator"}
         \/ x = "ipport" /\ DefaultPort(D, f, p) # "none"
    BY <1>7 DEF _set_default_values
<1>9. _validate_input(D, h, act)
    BY <1>1, <1>3, <1>5, <1>7
<1>10. o = [has |-> CheckedInput(h), port |-> DefaultPort(D, f, p)]
    BY <1>1, <1>3, <1>5, <1>7
<1>11. \A x : x \in o.has <=>
         \/ x \in h
         \/ x = "passwd" /\ "passwd_script" \in h
  <2>1. {"ssl_secure", "ssl_insecure"} \cap h = {}
      BY <1>2, <1>6, <1>8 DEF UserOptions
  <2> QED BY <2>1, <1>10 DEF CheckedInput
<1>12. ("login" \in h \/ a = "wti") /\ ("ipaddr" \in h \/ a = "lpar")
  <2>1. ("login" \in h \/ a = "wti") /\ {"ipaddr", "managed", "target"} \cap h # {}
      BY <1>2, <1>4, <1>9 DEF _validate_input
  <2>2. "target" \notin h
      BY <1>2, <1>4, <1>6, <1>8
  <2>3. "managed" \in h => a = "lpar"
      BY <1>2, <1>4, <1>6, <1>8
  <2> QED BY <2>1, <2>2, <2>3
<1>13. /\ "passwd" \in o.has \/ "identity_file" \in o.has \/ a = "wti"
       /\ "identity_file" \in o.has => "secure" \in o.has
    BY <1>2, <1>4, <1>9, <1>11 DEF _validate_input
<1>14. /\ "secure" \in h => "secure" \in d
       /\ "secure" \in d => "ssh_path" \in h
       /\ "secure" \in f => "secure" \in h
       /\ "telnet" \in d <=> "telnet_path" \in h
       /\ "ssl" \in h <=> "ssl" \in d
       /\ "ssl" \in d => "gnutlscli_path" \in h
       /\ "cmd_prompt" \in f => "cmd_prompt" \in h
    BY <1>2, <1>4, <1>6, <1>8 DEF UserOptions
<1>15. /\ "telnet" \in d \/ {"secure", "ssl"} \cap h # {} => DefaultPort(D, f, p) # "none"
       /\ DefaultPort(D, f, p) # "given" =>
             IF "ssl" \in h THEN DefaultPort(D, f, p) = "443"
             ELSE IF "secure" \in h THEN DefaultPort(D, f, p) = "22" \/ a = "raritan_px3"
             ELSE "telnet" \in d => DefaultPort(D, f, p) \in {"23", "own"}
  <2>1. /\ "community" \notin D /\ "web" \notin D /\ "ipport" \in D
        /\ {"ssl_secure", "ssl_insecure"} \cap (p \cup f) = {}
        /\ "telnet" \in d <=> "telnet" \in D
        /\ "secure" \in h <=> "secure" \in p \cup f
        /\ "ssl" \in h <=> "ssl" \in p \cup f
      BY <1>2, <1>4, <1>6, <1>8 DEF UserOptions
  <2>2. "ssl" \in h => "secure" \notin p \cup f
      BY <1>2, <1>14, <2>1
  <2>3. DefaultPort(D, f, p) =
           IF "ipport" \in p THEN "given"
           ELSE IF "ipport" \in f \/ ("ipport_unless_ssh" \in f /\ "secure" \notin p) THEN "own"
           ELSE IF "secure" \in h THEN "22"
           ELSE IF "ssl" \in h THEN "443"
           ELSE IF "telnet" \in d THEN "23" ELSE "none"
      BY <2>1 DEF DefaultPort
  <2>4. CASE "ssl" \in h
      BY <2>1, <2>2, <2>3, <2>4, <1>2, <1>14
  <2>5. CASE "ssl" \notin h /\ "secure" \in h
    <3>1. "ipport_unless_ssh" \in f => "secure" \in p
        BY <2>1, <2>5, <1>2
    <3> QED BY <2>3, <2>5, <3>1, <1>2
  <2>6. CASE "ssl" \notin h /\ "secure" \notin h
      BY <2>3, <2>6
  <2> QED BY <2>4, <2>5, <2>6
<1>16. "telnet" \in d \/ {"secure", "ssl"} \cap h # {} => "ipport" \in h
    BY <1>8, <1>15
<1>17. o.port = DefaultPort(D, f, p)
    BY <1>10
<1>18. \A x \in {"login", "ipaddr", "secure", "ssl", "ssh_path", "telnet_path", "gnutlscli_path",
                 "cmd_prompt", "ipport"} : x \in o.has <=> x \in h
    BY <1>11
<1> QED BY <1>1, <1>12, <1>13, <1>14, <1>15, <1>16, <1>17, <1>18 DEF Prepared

\* main logs in by fence_login.
Logs == \E i \in 1 .. Len(Row.main.steps) : Row.main.steps[i] = "fence_login"

\* While main runs, the options are those that check_input has left, or the
\* agent's own in their place.
LoginInv ==
    /\ pc = "input" => given.names \subseteq UserOptions
    /\ pc = "main" =>
          options = [has |-> options.has, port |-> options.port] /\ options.port # "forgotten"
    /\ pc = "main" /\ Logs =>
          /\ Prepared(agent, Row.main, options)
          /\ step > 1 /\ Row.main.steps[1] = "set_ssh" =>
                {"secure", "ipport", "cmd_prompt"} \subseteq options.has
          /\ step > 1 /\ Row.main.steps[1] = "set_prompt" => "cmd_prompt" \in options.has

\* Before check_input.
LEMMA InitLogin == RunInit => LoginInv
<1> SUFFICES ASSUME RunInit PROVE given.names \subseteq UserOptions
    BY DEF RunInit, LoginInv
<1>1. agent \in Agents /\ given.names \in Inputs[agent]
    BY DEF RunInit
<1> QED BY <1>1, AgentsAssumption

\* The steps of main that assign options do not forget them.
LEMMA AssignedKept ==
    ASSUME LoginInv, pc = "main", NEW s, NEW o, o = Assigned(s)
    PROVE  o = [has |-> o.has, port |-> o.port] /\ o.port # "forgotten"
<1>1. options = [has |-> options.has, port |-> options.port] /\ options.port # "forgotten"
    BY DEF LoginInv
<1>2. CASE s = "set_prompt"
  <2>1. o = [has |-> options.has \cup {"cmd_prompt"}, port |-> options.port]
      BY <1>1, <1>2 DEF Assigned
  <2> QED BY <1>1, <2>1
<1>3. CASE s = "set_ssh"
    BY <1>3 DEF Assigned
<1>4. CASE s \notin {"set_prompt", "set_ssh"}
    BY <1>1, <1>4 DEF Assigned
<1> QED BY <1>2, <1>3, <1>4

\* They leave them prepared.
LEMMA AssignedPrepared ==
    ASSUME RunInv, DelayInv, LoginInv, pc = "main", Logs,
           NEW o, o = Assigned(Step)
    PROVE  /\ Prepared(agent, Row.main, o)
           /\ Row.main.steps[1] = "set_ssh" => {"secure", "ipport", "cmd_prompt"} \subseteq o.has
           /\ Row.main.steps[1] = "set_prompt" => "cmd_prompt" \in o.has
<1>1. PICK i \in 1 .. Len(Row.main.steps) : Row.main.steps[i] = "fence_login"
    BY DEF Logs
<1>2. /\ options = [has |-> options.has, port |-> options.port]
      /\ Prepared(agent, Row.main, options)
    BY DEF LoginInv
<1>n. step \in 1 .. Len(Row.main.steps) /\ Len(Row.main.steps) \in Nat
    BY RowFacts DEF DelayInv, DelayOK, RunInv, RunType
<1>l. LoginOK(agent, Row.main)
    BY RowFacts DEF RunInv, RunType
<1>w. agent = "wti" => Row.main.steps[1] = "time_sleep"
    BY RowFacts DEF DelayOK, RunInv, RunType
<1>s. Step = Row.main.steps[step] \/ (Step = "none" /\ agent = "wti")
    BY DEF Step, StepAt
<1>3. CASE step > 1
  <2>1. step \in 2 .. Len(Row.main.steps)
      BY <1>3, <1>n
  <2>2. Step \notin {"set_ssh", "set_prompt"}
      BY <2>1, <1>l, <1>s DEF LoginOK
  <2>3. o = options
      BY <2>2 DEF Assigned
  <2> QED BY <1>2, <1>3, <2>3 DEF LoginInv
<1>4. CASE step = 1 /\ Row.main.steps[1] = "set_ssh"
  <2>1. o = [has |-> options.has \cup {"secure", "ipport", "cmd_prompt"}, port |-> "22"]
      BY <1>4, <1>s, <1>w DEF Assigned
  <2>2. "ssl" \notin Row.main.device_opt /\ "secure" \in Row.main.device_opt
    <3>1. "ssl" \notin Row.main.device_opt
        BY <1>1, <1>4, <1>l DEF LoginOK
    <3> QED BY <3>1, <1>1, <1>4, <1>l DEF LoginOK
  <2>3. Prepared(agent, Row.main, o)
      BY <1>2, <2>1, <2>2 DEF Prepared
  <2> QED BY <1>4, <2>1, <2>3
<1>5. CASE step = 1 /\ Row.main.steps[1] = "set_prompt"
  <2>1. o = [options EXCEPT !.has = @ \cup {"cmd_prompt"}]
      BY <1>5, <1>s, <1>w DEF Assigned
  <2>2. o = [has |-> options.has \cup {"cmd_prompt"}, port |-> options.port]
      BY <2>1, <1>2
  <2>3. Prepared(agent, Row.main, o)
      BY <1>2, <2>2 DEF Prepared
  <2> QED BY <1>5, <2>2, <2>3
<1>6. CASE step = 1 /\ Row.main.steps[1] \notin {"set_ssh", "set_prompt"}
  <2>1. o = options
      BY <1>6, <1>s DEF Assigned
  <2> QED BY <1>2, <1>6, <2>1
<1> QED BY <1>n, <1>3, <1>4, <1>5, <1>6

\* Every step of a run.
LEMMA LoginStep == RunInv /\ DelayInv /\ LoginInv /\ [RunNext]_agentRunVars => LoginInv'
<1> SUFFICES ASSUME RunInv, DelayInv, LoginInv, [RunNext]_agentRunVars PROVE LoginInv'
    OBVIOUS
<1>1. CASE UNCHANGED <<pc, given, options, step, agent>>
    BY <1>1 DEF LoginInv, Logs, Row
<1>2. CASE RunNext /\ pc \notin {"input", "main"}
    BY <1>2, RunKeeps DEF LoginInv
<1>3. CASE CheckInput
  <2>1. /\ pc = "input" /\ agent' = agent /\ Row' = Row
        /\ given.names \subseteq UserOptions
        /\ pc' = "done" \/ (pc' = "main" /\ step' = 1)
      BY <1>3 DEF CheckInput, LoginInv, Row
  <2>p. ASSUME pc' = "main"
        PROVE  options' = [has |-> options'.has, port |-> options'.port] /\ options'.port # "forgotten"
    <3>1. PICK h, d, f, p : options' = [has |-> h, port |-> DefaultPort(d, f, p)]
        BY <1>3, <2>p DEF CheckInput
    <3>2. DefaultPort(d, f, p) # "forgotten"
        BY DEF DefaultPort
    <3> QED BY <3>1, <3>2
  <2>2. CASE pc' = "main" /\ step' = 1 /\ Logs
    <3>1. PICK i \in 1 .. Len(Row.main.steps) : Row.main.steps[i] = "fence_login"
        BY <2>2 DEF Logs
    <3>2. LET device_opt == CompleteOpt(Row.main.device_opt)
              defaults   == Row.main.defaults
              avail      == AvailOpt(Row.main.device_opt)
              parsed     == process_input(given.names, avail)
              has        == _set_default_values(device_opt, defaults, parsed)
          IN /\ _validate_input(device_opt, has, opt'.action)
             /\ options' = [has |-> CheckedInput(has),
                            port |-> DefaultPort(device_opt, defaults, parsed)]
        BY <1>3, <2>2 DEF CheckInput
    <3>3. LoginOK(agent, Row.main)
        BY RowFacts DEF RunInv, RunType
    <3>4. Prepared(agent, Row.main, options')
        BY <2>1, <3>1, <3>2, <3>3, InputPrepared
    <3> QED BY <2>1, <2>p, <2>2, <3>4 DEF LoginInv
  <2> QED BY <2>1, <2>p, <2>2 DEF LoginInv, Logs
<1>4. CASE MainStep
  <2>1. pc = "main" /\ agent' = agent /\ Row' = Row
      BY <1>4 DEF MainStep, Row
  <2>p. ASSUME pc' = "main"
        PROVE  /\ options' = Assigned(Step)
               /\ options' = [has |-> options'.has, port |-> options'.port]
               /\ options'.port # "forgotten"
    <3>1. options' = Assigned(Step)
        BY <1>4, <2>p DEF MainStep, MainGoesOn, Exit
    <3> QED BY <2>1, <3>1, AssignedKept
  <2>2. CASE pc' = "main" /\ Logs
      BY <2>1, <2>p, <2>2, AssignedPrepared DEF LoginInv
  <2>3. CASE pc' # "main"
      BY <1>4, <2>3 DEF LoginInv, MainStep, MainGoesOn, Exit
  <2> QED BY <2>1, <2>p, <2>2, <2>3 DEF LoginInv, Logs
<1>5. CASE MainStepFails
    BY <1>5 DEF MainStepFails, Exit, LoginInv
<1>6. CASE RunNext /\ pc \in {"input", "main"} /\ ~(CheckInput \/ MainStep \/ MainStepFails)
  <2>1. UNCHANGED <<pc, given, options, step, agent>>
      BY <1>6 DEF RunNext, AgentStep, Start, fence_action_start,
                  Decide, fence_action_decide, List, Query, Command, CommandSent, CommandRefused,
                  SyncCommand, CycleCommand, Device, DeviceActs, DeviceCycles, DeviceToggles,
                  agentVars, runVars, Finished, vars
  <2> QED BY <2>1, <1>1
<1> QED BY <1>1, <1>2, <1>3, <1>4, <1>5, <1>6 DEF agentRunVars, vars, agentVars, runVars

\* What an agent about to log in has.
LEMMA LoginFacts ==
    ASSUME RunInv, DelayInv, LoginInv, AboutToLogIn
    PROVE  /\ Prepared(agent, Row.main, options)
           /\ IF "ssl" \in Row.main.device_opt THEN TRUE
              ELSE /\ "cmd_prompt" \in options.has
                   /\ \/ "secure" \in options.has \/ "telnet" \in Row.main.device_opt
                      \/ agent = "cyberpower_ssh"
<1>1. step \in 1 .. Len(Row.main.steps) /\ pc = "main" /\ Row.main.steps[step] = "fence_login"
    BY DEF AboutToLogIn, DelayInv, Step, StepAt
<1>2. LoginOK(agent, Row.main)
    BY RowFacts DEF RunInv, RunType
<1>3. Prepared(agent, Row.main, options)
    BY <1>1 DEF LoginInv, Logs
<1>4. CASE "ssl" \in Row.main.device_opt
    BY <1>3, <1>4
<1>5. CASE "ssl" \notin Row.main.device_opt /\ Row.main.steps[1] = "set_ssh"
  <2>1. step > 1
      BY <1>1, <1>2, <1>5 DEF LoginOK
  <2> QED BY <1>1, <1>3, <1>5, <2>1 DEF LoginInv, Logs
<1>6. CASE "ssl" \notin Row.main.device_opt /\ Row.main.steps[1] # "set_ssh"
  <2>1. /\ "cmd_prompt" \in Row.main.defaults \/ (step > 1 /\ Row.main.steps[1] = "set_prompt")
        /\ \/ "secure" \in Row.main.defaults \/ "telnet" \in Row.main.device_opt
           \/ agent = "cyberpower_ssh"
      BY <1>1, <1>2, <1>6 DEF LoginOK
  <2>2. "cmd_prompt" \in options.has
      BY <1>1, <1>3, <2>1 DEF LoginInv, Logs, Prepared
  <2> QED BY <1>3, <1>6, <2>1, <2>2 DEF Prepared
<1> QED BY <1>4, <1>5, <1>6

\* What the four ways of login read.
LEMMA LoginReadsFacts ==
    /\ LoginReads["ssl"] = {"gnutlscli_path", "ipport", "ipaddr"}
    /\ LoginReads["ssh"] = {"ssh_path", "login", "ipaddr", "ipport", "passwd", "cmd_prompt"}
    /\ LoginReads["identity"] =
          {"ssh_path", "login", "ipaddr", "ipport", "identity_file", "cmd_prompt"}
    /\ LoginReads["telnet"] =
          {"telnet_path", "ipaddr", "ipport", "login", "passwd", "cmd_prompt"}
BY DEF LoginReads

\* The invariant is enough for the login.
LEMMA LoginEnough == RunInv /\ DelayInv /\ LoginInv => AcceptedCanLogIn
<1> SUFFICES ASSUME RunInv, DelayInv, LoginInv, AboutToLogIn,
                    ~(agent = "cyberpower_ssh" /\ "secure" \notin options.has),
                    ~(agent = "lpar" /\ "ipaddr" \notin options.has),
                    ~(agent = "wti" /\ ~LoginGiven)
             PROVE  CanLogIn(options.has)
    BY DEF AcceptedCanLogIn
<1>1. Prepared(agent, Row.main, options)
    BY LoginFacts
<1>2. /\ "ipaddr" \in options.has /\ "login" \in options.has
      /\ "passwd" \in options.has \/ "identity_file" \in options.has
    BY <1>1 DEF Prepared, LoginGiven
<1>3. CASE "ssl" \in options.has
    BY <1>1, <1>2, <1>3, LoginReadsFacts DEF Prepared, CanLogIn, LoginPath
<1>4. CASE "ssl" \notin options.has
  <2>1. /\ "cmd_prompt" \in options.has
        /\ "secure" \in options.has \/ "telnet" \in Row.main.device_opt
      BY <1>1, <1>4, LoginFacts DEF Prepared
  <2> QED BY <1>1, <1>2, <1>4, <2>1, LoginReadsFacts DEF Prepared, CanLogIn, LoginPath
<1> QED BY <1>3, <1>4

\* For every agent of the tables and every set of options that a user can give:
\* what check_input and the defaults of main let pass is enough for the way of
\* login that fence_login takes, but for fence_cyberpower_ssh without --ssh, for
\* fence_lpar with --managed in place of an address, and for fence_wti with --ssh
\* and without a user or a password.
THEOREM AcceptedCanLogInCorrect == RunSpec => []AcceptedCanLogIn
<1>1. RunInit => DelayInv
    BY DEF RunInit, DelayInv
<1> QED BY <1>1, LoginEnough, InitLogin, LoginStep, DelayStep, RunInvCorrect, PTL DEF RunSpec

\* For every agent of the tables and every set of options: a port that the user
\* did not choose is the port of the way of login that is taken later, but for
\* fence_raritan_px3 with --ssh.
THEOREM PortFitsPathCorrect == RunSpec => []PortFitsPath
<1>1. RunInv /\ DelayInv /\ LoginInv => PortFitsPath
  <2> SUFFICES ASSUME RunInv, DelayInv, LoginInv, AboutToLogIn, CanLogIn(options.has),
                      options.port # "given"
               PROVE  CASE LoginPath(options.has) = "ssl" -> options.port = "443"
                        [] LoginPath(options.has) = "telnet" -> options.port \in {"23", "own"}
                        [] OTHER -> options.port = "22" \/ agent = "raritan_px3"
      BY DEF PortFitsPath
  <2>1. Prepared(agent, Row.main, options)
      BY LoginFacts
  <2>2. CASE "ssl" \in options.has
    <3>1. LoginPath(options.has) = "ssl" /\ options.port = "443"
        BY <2>1, <2>2 DEF Prepared, LoginPath
    <3> QED BY <3>1
  <2>3. CASE "ssl" \notin options.has /\ "secure" \notin options.has
    <3>1. LoginPath(options.has) = "telnet"
        BY <2>3 DEF LoginPath
    <3>2. "telnet_path" \in options.has
        BY <3>1, LoginReadsFacts DEF CanLogIn
    <3>3. options.port \in {"23", "own"}
        BY <2>1, <2>3, <3>2 DEF Prepared
    <3> QED BY <3>1, <3>3
  <2>4. CASE "ssl" \notin options.has /\ "secure" \in options.has
    <3>1. LoginPath(options.has) \in {"identity", "ssh"}
        BY <2>4 DEF LoginPath
    <3>2. options.port = "22" \/ agent = "raritan_px3"
        BY <2>1, <2>4 DEF Prepared
    <3> QED BY <3>1, <3>2
  <2> QED BY <2>2, <2>3, <2>4
<1>2. RunInit => DelayInv
    BY DEF RunInit, DelayInv
<1> QED BY <1>1, <1>2, InitLogin, LoginStep, DelayStep, RunInvCorrect, PTL DEF RunSpec

----------------------------------------------------------------------------
(* What goes right.                                                        *)

\* The device has done nothing wrong, and the request is one that can be met.
Fine == ~faulty /\ ~Defective

\* The power of machine p once the device has carried out its command.
Due(p) ==
    CASE cmd[p] = "none"   -> power[p]
      [] cmd[p] = "toggle" -> IF power[p] = "on" THEN "off" ELSE "on"
      [] cmd[p] = "cycle"  -> "on"
      [] OTHER -> cmd[p]

\* What check_input leaves for fence_action fits the callbacks of the agent.
Chosen ==
    /\ opt.fns = "none" => opt.action \notin {"on", "off"} /\ opt.cycleFn /\ agent = "rcd_serial"
    /\ Cycle => \/ Has("method") /\ "cycle" \in Row.main.fns
                \/ Has("diag")
    /\ pc = "sync" => opt.fns = "sync"
    /\ pc = "list" => Listing
    /\ ~opt.forceOn

\* The readings so far are those of the machines.
FineReading ==
    /\ pc = "status" => acc \in {"on", "off"}
    /\ agent # "gce_baremetal" =>
          /\ pc = "status" => (acc = "off" <=> \A q \in Plugs : q < plug => power[q] = "off")
          /\ pc = "decide" /\ status # "none" => (status = "off" <=> Dark(power))
    /\ Row.names = "once" /\ heard # "none" /\ pc \in {"main", "start", "status"} =>
          heard \in DOMAIN Row.get /\ MayAnswer(heard, power[1])

\* The commands so far lead where --action asks.
FineCommand ==
    /\ pc = "set" => \A q \in Plugs : q < plug => Due(q) = action
    /\ pc = "set" /\ agent \in Buttons => power[1] # action /\ cmd[1] = "none"
    /\ pc = "poll" => /\ \A q \in Plugs : Due(q) = action
                      /\ acc = IF plug = 1 THEN "off" ELSE action
    /\ pc \in {"sync", "cycle"} => success
    /\ Row.names = "last" /\ pc \in {"decide", "set", "poll", "sync"} => kept = 1

\* The exit code is the one that the request deserves.
FineEnd ==
    pc = "done" /\ step > 0 /\ ~Insufficient =>
        /\ result # 1
        /\ opt.action = "status" => result = IF Dark(power) THEN 2 ELSE 0

\* All of it.
Good == FineReading /\ FineCommand /\ FineEnd

\* A run of an agent that meets no fault.
CleanInv ==
    /\ diag => Has("diag")
    /\ pc = "input" => step = 0 /\ heard = "none"
    /\ pc # "input" => Chosen
    /\ pc # "input" /\ Fine => Good

\* The initial states.
LEMMA InitClean == RunInit => CleanInv
BY DEF RunInit, CleanInv

\* A fault is never forgotten.
LEMMA FaultKept ==
    ASSUME RunNext
    PROVE  diag' = diag /\ (faulty => faulty')
<1>1. CASE CheckInput \/ Start \/ Decide
    BY <1>1 DEF CheckInput, Start, Decide, runVars
<1>m. CASE MainStepFails
  <2>1. PICK x : diag' = diag /\ faulty' = (faulty \/ ~x)
      BY <1>m DEF MainStepFails
  <2> QED BY <2>1
<1>2. CASE MainStep
    BY <1>2 DEF MainStep, Hear
<1>3. CASE List
    BY <1>3 DEF List, Hear
<1>4. CASE Query
    BY <1>4 DEF Query, Hear
<1>5. CASE Command
    BY <1>5 DEF Command
<1>r. CASE CommandRefused
  <2>1. diag' = diag /\ faulty' = (faulty \/ Asked \notin {"soft", "exit"})
      BY <1>r DEF CommandRefused
  <2> QED BY <2>1
<1>6. CASE SyncCommand
  <2>1. diag' = diag /\ (faulty' = faulty \/ faulty' = TRUE)
      BY <1>6 DEF SyncCommand
  <2> QED BY <2>1
<1>7. CASE CycleCommand
    BY <1>7 DEF CycleCommand
<1>8. CASE UNCHANGED runVars
    BY <1>8 DEF runVars
<1> QED BY <1>1, <1>m, <1>2, <1>3, <1>4, <1>5, <1>r, <1>6, <1>7, <1>8
    DEF RunNext, AgentStep

\* A fault is never forgotten, and the request stays the same.
LEMMA FineBack ==
    ASSUME RunInv, RunNext, pc # "input"
    PROVE  /\ UNCHANGED <<agent, opt, diag, uuids>> /\ pc' # "input"
           /\ Row' = Row /\ Cycle' = Cycle /\ Listing' = Listing
           /\ Fine' => Fine
<1>1. UNCHANGED <<agent, opt, uuids>> /\ pc' # "input"
    BY Settled, HonestBack
<1>2. diag' = diag /\ (faulty => faulty')
    BY FaultKept
<1>3. Defective' = Defective
    BY <1>1 DEF Defective, MixesPlugs, Listing, Cycle
<1> QED BY <1>1, <1>2, <1>3 DEF Fine, Row, Cycle, Listing

\* What every step without a fault can rely on.
LEMMA FineStep ==
    ASSUME RunInv, TruthInv, CleanInv, RunNext, Fine', pc # "input"
    PROVE  /\ Fine /\ Good /\ Chosen /\ ~MixesPlugs /\ ~faulty'
           /\ UNCHANGED <<agent, opt, diag>> /\ pc' # "input" /\ Row' = Row
           /\ \/ pc \in {"main", "start", "list", "status", "decide"}
              \/ opt.action = "status"
              => power' = power /\ \A p \in Plugs : cmd[p] = "none"
<1>1. Fine /\ ~faulty' /\ UNCHANGED <<agent, opt, diag>> /\ pc' # "input" /\ Row' = Row
    BY FineBack DEF Fine
<1>2. Good /\ Chosen /\ ~MixesPlugs
    BY <1>1 DEF CleanInv, Fine, Defective
<1>3. ASSUME \/ pc \in {"main", "start", "list", "status", "decide"}
             \/ opt.action = "status"
      PROVE  power' = power /\ \A p \in Plugs : cmd[p] = "none"
  <2>1. \A p \in Plugs : cmd[p] = "none"
      BY <1>3 DEF TruthInv, Untouched
  <2>2. pc \notin {"set", "sync", "cycle"}
      BY <1>3 DEF RunInv, RunControl, Cycle
  <2> QED BY <2>1, <2>2, DeviceMoves DEF Device, DeviceActs, DeviceCycles, DeviceToggles
<1> QED BY <1>1, <1>2, <1>3

\* The process ends with code 0, for anything but a status.
LEMMA EndsWell ==
    ASSUME pc' = "done", result' = 0, opt'.action # "status"
    PROVE  Good'
BY DEF Good, FineReading, FineCommand, FineEnd

\* The loops of set_multi_power_fn start.
LEMMA BeginsWell ==
    ASSUME NEW a, BeginSet(a), Row'.names = "last" => kept' = 1,
           agent' \in Buttons /\ opt.fns = "async" => power'[1] # a /\ cmd'[1] = "none"
    PROVE  Good'
<1>1. /\ pc' = IF opt.fns = "async" THEN "set" ELSE "sync"
      /\ action' = a /\ plug' = 1 /\ success' = TRUE
    BY DEF BeginSet
<1>2. \A q \in Plugs : ~(q < plug')
    BY <1>1 DEF Plugs
<1>3. FineReading' /\ FineEnd'
    BY <1>1 DEF FineReading, FineEnd
<1>4. FineCommand'
    BY <1>1, <1>2 DEF FineCommand
<1> QED BY <1>3, <1>4 DEF Good

\* check_input, and what it leaves for fence_action.
LEMMA ChosenStep ==
    ASSUME RunInv, CleanInv, RunNext, pc' # "input"
    PROVE  Chosen'
<1>1. CASE pc = "input"
  <2>1. CheckInput
      BY <1>1 DEF RunNext, AgentStep, MainStep, MainStepFails, Start,
              fence_action_start, Decide, fence_action_decide, List, Query, Command,
              CommandSent, CommandRefused, SyncCommand, CycleCommand, Device, DeviceActs,
              DeviceCycles, DeviceToggles, Finished, vars, agentVars, runVars
  <2>2. /\ UNCHANGED <<agent, diag>> /\ opt' \in {o \in Options : Fits(o)}
        /\ pc' \in {"main", "done"}
      BY <2>1 DEF CheckInput
  <2>3. PICK o \in Options : o = opt' /\ Fits(o)
      BY <2>2
  <2>4. CleanMain(agent, Row)
      BY RowFacts DEF RunInv, RunType
  <2>5. o.fns = "none" => o.action \notin {"on", "off"} /\ o.cycleFn /\ agent = "rcd_serial"
    <3> SUFFICES ASSUME o.fns = "none"
                 PROVE  o.action \notin {"on", "off"} /\ o.cycleFn /\ agent = "rcd_serial"
        OBVIOUS
    <3>1. {"set", "sync"} \cap Row.main.fns = {}
        BY <2>3 DEF Fits
    <3>2. /\ agent = "rcd_serial" /\ "cycle" \in Row.main.fns
          /\ {"no_on", "no_off"} \subseteq Row.main.device_opt
        BY <3>1, <2>4 DEF CleanMain
    <3>3. {"no_on", "no_off"} \subseteq CompleteOpt(Row.main.device_opt)
        BY <3>2 DEF CompleteOpt, AvailOpt
    <3> QED BY <3>2, <3>3, <2>3 DEF Fits, AcceptableActions
  <2>6. Cycle' => \/ Has("method") /\ "cycle" \in Row.main.fns
                  \/ Has("diag")
      BY <2>3 DEF Cycle, Fits, CleanInv
  <2>7. ~o.forceOn
      BY <2>3 DEF Fits
  <2> QED BY <2>2, <2>3, <2>5, <2>6, <2>7 DEF Chosen, Row, Has
<1>2. CASE pc # "input"
  <2>1. Chosen /\ UNCHANGED <<agent, opt>> /\ Row' = Row /\ Cycle' = Cycle /\ Listing' = Listing
      BY <1>2, FineBack DEF CleanInv
  <2>b. ASSUME NEW a, BeginSet(a), opt.fns # "none" PROVE pc' = "sync" => opt.fns = "sync"
    <3>1. opt.fns \in {"async", "sync", "none"}
        BY <1>2, OptionFacts DEF RunInv, RunType
    <3> QED BY <2>b, <3>1 DEF BeginSet
  <2>s. ASSUME NEW ok, SetReturned(ok) PROVE pc' # "list" /\ (pc' = "sync" => opt.fns = "sync")
      BY <2>s, <2>b DEF SetReturned, StartOnPortion, Trivial, BeginSet, Exit
  <2>h. ASSUME NEW how, Broken(how) PROVE pc' = "done"
      BY <2>h DEF Broken, Exit
  <2>2. /\ pc' = "list" => Listing
        /\ pc' = "sync" => opt.fns = "sync"
    <3>1. CASE CheckInput \/ MainStep \/ MainStepFails \/ List
        BY <3>1, <1>2 DEF CheckInput, MainStep, MainGoesOn, MainStepFails, List, Exit
    <3>2. CASE Start
        BY <3>2 DEF Start, fence_action_start
    <3>3. CASE Decide
        BY <3>3, <2>b DEF Decide, fence_action_decide, CallSet, StartOnPortion, Trivial, BeginSet,
                          Exit
    <3>4. CASE Query
      <4>1. ASSUME NEW r, ReadPlug(r) PROVE pc' # "list" /\ (pc' = "sync" => opt.fns = "sync")
          BY <4>1, <2>s DEF ReadPlug, StatusKnown, Polled, Exit
      <4> QED BY <3>4, <4>1, <2>h DEF Query
    <3>5. CASE Command \/ CommandRefused
        BY <3>5, <2>h DEF Command, CommandRefused, CommandSent
    <3>6. CASE SyncCommand
        BY <3>6, <2>h, <2>s, <2>1 DEF SyncCommand, LoopTail, Chosen
    <3>7. CASE CycleCommand
        BY <3>7 DEF CycleCommand, LoopTail, CycleReturned, Exit
    <3>8. CASE Device \/ Finished
        BY <3>8, <2>1 DEF Device, DeviceActs, DeviceCycles, DeviceToggles, agentVars, Finished, vars,
                     Chosen
    <3> QED BY <3>1, <3>2, <3>3, <3>4, <3>5, <3>6, <3>7, <3>8 DEF RunNext, AgentStep
  <2> QED BY <2>1, <2>2 DEF Chosen, Has
<1> QED BY <1>1, <1>2

\* check_input, as far as Good goes.
LEMMA InputGood ==
    ASSUME CleanInv, CheckInput
    PROVE  Good'
<1>1. /\ pc = "input" /\ heard' = heard
      /\ pc' = "main" \/ (pc' = "done" /\ step' = step)
    BY DEF CheckInput
<1>2. heard' = "none" /\ (pc' = "done" => step' = 0)
    BY <1>1 DEF CleanInv
<1> QED BY <1>1, <1>2 DEF Good, FineReading, FineCommand, FineEnd

\* The steps of main, the one that reads the status once among them.
LEMMA MainGood ==
    ASSUME RunInv, TruthInv, CleanInv, RunNext, Fine', MainStep
    PROVE  Good'
<1>1. pc = "main"
    BY DEF MainStep
<1>2. power' = power /\ Row' = Row /\ opt' = opt /\ Good
    BY <1>1, FineStep
<1>3. CASE Exit(0) /\ opt.action = "monitor"
    BY <1>2, <1>3, EndsWell DEF Exit
<1>4. CASE ~(Exit(0) /\ opt.action = "monitor")
  <2>1. pc' \in {"main", "start"}
      BY <1>1, <1>4 DEF MainStep, MainGoesOn
  <2>2. Row.names = "once" /\ heard' # "none" =>
           heard' \in DOMAIN Row.get /\ MayAnswer(heard', power[1])
    <3>1. \/ heard' = heard
          \/ \E w \in DOMAIN Row.get : MayAnswer(w, power[1]) /\ heard' = w
        BY DEF MainStep
    <3> QED BY <3>1, <1>1, <1>2 DEF Good, FineReading
  <2>3. FineReading'
      BY <2>1, <2>2, <1>2 DEF FineReading, MayAnswer
  <2> QED BY <2>1, <2>3 DEF Good, FineCommand, FineEnd
<1> QED BY <1>3, <1>4

\* A step of main fails for a fault, for an agent of Defective, or for the want of
\* an option.
LEMMA MainFailsGood ==
    ASSUME RunInv, TruthInv, CleanInv, DelayInv, LoginInv, RunNext, Fine', MainStepFails
    PROVE  Good'
<1>1. pc = "main" /\ pc' = "done" /\ UNCHANGED <<agent, options>>
    BY DEF MainStepFails, Exit
<1>2. Fine /\ ~faulty'
    BY <1>1, FineStep
<1>3. PICK s : s = Step
    OBVIOUS
<1>4. MayMiss(s) \/ OnePlugOnly(s) \/ (s = "plug_found" /\ opt.action \in {"list", "monitor"})
    BY <1>2, <1>3 DEF MainStepFails
<1>5. StepOK(agent, s)
  <2>1. step \in 1 .. Len(Row.main.steps)
      BY <1>1 DEF DelayInv
  <2>2. StepOK(agent, Row.main.steps[step])
      BY <2>1, RowFacts DEF CleanMain, RunInv, RunType
  <2> QED BY <1>3, <2>2 DEF StepOK, Step, StepAt
<1>6. MayMiss(s)
  <2>1. ~Defective
      BY <1>2 DEF Fine
  <2> QED BY <1>4, <1>5, <2>1 DEF StepOK, OnePlugOnly, Defective
<1>7. Insufficient
  <2>1. options # NoOptions
    <3>1. options.port # "forgotten"
        BY <1>1 DEF LoginInv
    <3> QED BY <3>1 DEF NoOptions
  <2>2. CASE s = "fence_login"
    <3>1. ~CanLogIn(options.has)
        BY <1>6, <2>2 DEF MayMiss, Misses
    <3>2. AcceptedCanLogIn /\ AboutToLogIn
        BY <1>1, <1>3, <2>2, LoginEnough DEF AboutToLogIn
    <3> QED BY <2>1, <3>1, <3>2 DEF AcceptedCanLogIn, Insufficient
  <2>3. CASE s # "fence_login"
      BY <1>5, <1>6, <2>1, <2>3 DEF MayMiss, Misses, StepOK, Insufficient, LoginGiven
  <2> QED BY <2>2, <2>3
<1>8. Insufficient'
    BY <1>1, <1>7 DEF Insufficient, LoginGiven
<1> QED BY <1>1, <1>8 DEF Good, FineReading, FineCommand, FineEnd

\* get_outlet_list
LEMMA ListGood ==
    ASSUME RunInv, TruthInv, CleanInv, RunNext, Fine', List
    PROVE  Good'
<1>1. pc = "list"
    BY DEF List
<1>2. Fine /\ ~faulty' /\ opt' = opt /\ Listing
    BY <1>1, FineStep DEF Chosen
<1>3. PICK w \in DOMAIN Row.list :
         /\ Hear(w)
         /\ IF Line(w) \in {"raise", "fail"} THEN Exit(1) ELSE Exit(0)
    BY DEF List
<1>4. w \in Clear
    BY <1>2, <1>3 DEF Hear
<1>5. CleanList(agent, Row)
    BY RowFacts DEF RunInv, RunType
<1>6. opt.action \in {"list", "monitor"}
    BY <1>2 DEF Listing
<1>7. Row.list[w] \notin {"raise", "fail"}
    BY <1>2, <1>4, <1>5, <1>6 DEF CleanList, Fine, Defective
<1>8. Line(w) \notin {"raise", "fail"}
    BY <1>7 DEF Line
<1> QED BY <1>2, <1>3, <1>6, <1>8, EndsWell DEF Exit

\* fence_action, up to its first callback.
LEMMA StartGood ==
    ASSUME RunInv, TruthInv, CleanInv, RunNext, Fine', Start
    PROVE  Good'
<1>1. /\ pc = "start" /\ plug' = 1 /\ acc' = "off" /\ UNCHANGED <<opt, status, heard>>
      /\ status = "none" /\ opt.noStatus = Has("no_status")
      /\ \/ pc' = "list"
         \/ pc' = "status"
         \/ pc' = "decide" /\ opt.noStatus
         \/ pc' = "done" /\ result' = 0 /\ opt.action \in {"list", "monitor"}
    BY DEF Start, fence_action_start, runVars, Listing, RunInv, RunControl
<1>2. power' = power /\ Row' = Row /\ Good
    BY <1>1, FineStep
<1>3. CASE pc' = "done"
    BY <1>1, <1>3, EndsWell
<1>4. CASE pc' # "done"
  <2>1. \A q \in Plugs : ~(q < plug')
      BY <1>1 DEF Plugs
  <2>2. FineReading'
      BY <1>1, <1>2, <1>4, <2>1 DEF Good, FineReading, MayAnswer
  <2>3. CleanMain(agent, Row)
      BY RowFacts DEF RunInv, RunType
  <2>4. FineCommand'
      BY <1>1, <1>2, <1>4, <2>3 DEF FineCommand, CleanMain, Has
  <2> QED BY <1>1, <1>4, <2>2, <2>4 DEF Good, FineEnd
<1> QED BY <1>3, <1>4

\* fence_action has its status and chooses what to do.
LEMMA DecideGood ==
    ASSUME RunInv, TruthInv, CleanInv, RunNext, Fine', Decide
    PROVE  Good'
<1>1. pc = "decide" /\ UNCHANGED <<power, cmd, kept>> /\ opt.action \in Actions
    BY OptionFacts DEF Decide, fence_action_decide, runVars, deviceVars, RunInv, RunType
<1>2. /\ Fine /\ Good /\ Chosen /\ Row' = Row /\ UNCHANGED <<opt, agent>>
      /\ \A p \in Plugs : cmd[p] = "none"
    BY <1>1, FineStep
<1>3. opt.action \in {"on", "off", "reboot", "status"} => agent # "gce_baremetal"
    BY <1>2 DEF Fine, Defective
<1>4. Row'.names = "last" => kept' = 1
    BY <1>1, <1>2 DEF Good, FineCommand
<1>5. opt.retryOn \in Nat /\ opt.method \in {"onoff", "cycle"}
    BY <1>1, FenceActionAssumption DEF RunInv, RunType, OptionSpace
<1>6. /\ opt.action \in {"on", "off"} => opt.fns # "none"
      /\ opt.action = "reboot" /\ ~Cycle => opt.fns # "none"
    BY <1>2, <1>5 DEF Chosen, Cycle, Fine, Defective
<1>7. agent \in Buttons /\ opt.action \in {"on", "off", "reboot"} =>
        /\ status \in {"on", "off"} /\ power[1] \in {"on", "off"}
        /\ status = "off" <=> power[1] = "off"
        /\ cmd[1] = "none"
  <2> SUFFICES ASSUME agent \in Buttons, opt.action \in {"on", "off", "reboot"}
               PROVE  /\ status \in {"on", "off"} /\ power[1] \in {"on", "off"}
                      /\ status = "off" <=> power[1] = "off"
                      /\ cmd[1] = "none"
      OBVIOUS
  <2>1. Plugs = {1} /\ ~Has("no_status")
      BY ButtonFacts DEF Plugs
  <2>2. status \in {"on", "off"}
      BY <1>1, <2>1 DEF RunInv, RunControl
  <2>3. status = "off" <=> Dark(power)
      BY <1>1, <1>2, <2>2 DEF Good, FineReading, Buttons
  <2> QED BY <1>2, <2>1, <2>2, <2>3 DEF Dark, RunInv, RunType
<1>8. CASE opt.action \in {"on", "off"}
  <2>1. CASE Already
    <3>1. Exit(0)
        BY <1>8, <2>1 DEF Decide, fence_action_decide, Cycle
    <3> QED BY <1>2, <1>8, <3>1, EndsWell DEF Exit
  <2>2. CASE ~Already
    <3>1. CallSet(opt.action)
        BY <1>8, <2>2 DEF Decide, fence_action_decide, Cycle
    <3>2. Attempts(opt.action) # 0
        BY <1>5, <1>8 DEF Attempts
    <3>3. BeginSet(opt.action)
        BY <3>1, <3>2, <1>6, <1>8 DEF CallSet, Trivial
    <3>4. status # opt.action
        BY <2>2, <1>2, <1>8 DEF Already, Chosen
    <3>5. agent' \in Buttons /\ opt.fns = "async" => power'[1] # opt.action /\ cmd'[1] = "none"
        BY <1>1, <1>2, <1>7, <1>8, <3>4
    <3> QED BY <1>4, <3>3, <3>5, BeginsWell
  <2> QED BY <2>1, <2>2
<1>9. CASE Cycle
  <2>1. opt.action = "reboot" /\ status # "reboot"
      BY <1>9 DEF Cycle, RunInv, RunControl
  <2>2. pc' = "cycle" /\ success' = TRUE
      BY <1>9, <2>1 DEF Decide, fence_action_decide, Already
  <2> QED BY <2>2 DEF Good, FineReading, FineCommand, FineEnd
<1>10. CASE opt.action = "reboot" /\ ~Cycle
  <2>1. status # "reboot"
      BY DEF RunInv, RunControl
  <2>2. IF status # "off" THEN CallSet("off") ELSE StartOnPortion
      BY <1>10, <2>1 DEF Decide, fence_action_decide, Already
  <2>3. CASE status # "off"
    <3>1. BeginSet("off")
        BY <2>2, <2>3, <1>6, <1>10 DEF CallSet, Trivial, Attempts
    <3>2. agent' \in Buttons /\ opt.fns = "async" => power'[1] # "off" /\ cmd'[1] = "none"
        BY <1>1, <1>2, <1>7, <1>10, <2>3
    <3> QED BY <1>4, <3>1, <3>2, BeginsWell
  <2>4. CASE status = "off"
    <3>1. CASE Trivial("on")
        BY <1>2, <1>10, <2>2, <2>4, <3>1, EndsWell DEF StartOnPortion, Exit
    <3>2. CASE ~Trivial("on")
      <4>1. BeginSet("on")
          BY <2>2, <2>4, <3>2 DEF StartOnPortion
      <4>2. agent' \in Buttons /\ opt.fns = "async" => power'[1] # "on" /\ cmd'[1] = "none"
          BY <1>1, <1>2, <1>7, <1>10, <2>4
      <4> QED BY <1>4, <4>1, <4>2, BeginsWell
    <3> QED BY <3>1, <3>2
  <2> QED BY <2>3, <2>4
<1>11. CASE opt.action = "status"
  <2>1. Exit(IF status = "off" THEN 2 ELSE 0)
      BY <1>11 DEF Decide, fence_action_decide, Already, Cycle, RunInv, RunControl
  <2>2. status # "none"
      BY <1>1, <1>11, OptionFacts DEF RunInv, RunControl, RunType
  <2>3. status = "off" <=> Dark(power)
      BY <1>1, <1>2, <1>3, <1>11, <2>2 DEF Good, FineReading
  <2>4. result' = IF Dark(power') THEN 2 ELSE 0
      BY <1>1, <2>1, <2>3 DEF Exit, Dark
  <2>5. pc' = "done" /\ result' # 1
      BY <2>1, <2>4 DEF Exit
  <2> QED BY <2>4, <2>5 DEF Good, FineReading, FineCommand, FineEnd
<1>12. CASE opt.action \in {"list", "monitor"}
  <2>1. Exit(0)
      BY <1>12 DEF Decide, fence_action_decide, Already, Cycle, RunInv, RunControl
  <2> QED BY <1>2, <1>12, <2>1, EndsWell DEF Exit
<1> QED BY <1>1, <1>8, <1>9, <1>10, <1>11, <1>12 DEF Actions

\* A query without a fault: the machine of the plug is read, with nothing
\* pending, and what is read is what it is.
LEMMA FineRead ==
    ASSUME RunInv, TruthInv, CleanInv, RunNext, Fine', Query
    PROVE  /\ \A p \in Plugs : cmd[p] = "none"
           /\ UNCHANGED <<power, cmd>>
           /\ \E r \in {"on", "off"} :
                 ReadPlug(r) /\ (agent # "gce_baremetal" => r = power[plug])
<1>1. pc \in {"status", "poll"} /\ UNCHANGED <<power, cmd>> /\ plug \in Plugs
    BY DEF Query, deviceVars, RunInv, RunType
<1>2. Fine /\ Good /\ ~MixesPlugs /\ ~faulty'
    BY <1>1, FineStep
<1>3. PICK w \in DOMAIN Row.get :
         /\ IF Row.names = "once" THEN w = heard ELSE MayAnswer(w, power[Target])
         /\ Hear(w)
         /\ \/ Meaning(w) \in Readings /\ ReadPlug(Meaning(w))
            \/ Meaning(w) \in {"raise", "fail"}
    BY DEF Query
<1>4. w \in Clear /\ \A p \in Plugs : cmd[p] = "none"
    BY <1>2, <1>3 DEF Hear
<1>5. CleanGet(agent, Row) /\ CleanMain(agent, Row)
    BY RowFacts DEF RunInv, RunType
<1>6. Meaning(w) \in {"on", "off"}
    BY <1>3, <1>4, <1>5 DEF CleanGet, Meaning
<1>7. ReadPlug(Meaning(w))
    BY <1>3, <1>6
<1>8. MayAnswer(w, power[plug])
  <2>1. CASE Row.names = "once"
    <3>1. agent = "raritan_px3"
        BY <2>1, <1>5 DEF CleanMain
    <3>2. ~(NPlugs > 1) /\ opt.action = "status"
        BY <3>1, <1>2 DEF Fine, Defective
    <3>3. plug = 1
        BY <3>2, <1>1, FenceActionAssumption DEF Plugs
    <3>4. pc = "status" /\ w # "none"
        BY <1>1, <1>3, <1>5, <3>2 DEF RunInv, RunControl, CleanGet
    <3> QED BY <2>1, <3>3, <3>4, <1>2, <1>3 DEF Good, FineReading
  <2>2. CASE Row.names # "once"
      BY <2>2, <1>1, <1>2, <1>3, TargetIsPlug
  <2> QED BY <2>1, <2>2
<1>9. agent # "gce_baremetal" => Meaning(w) = power[plug]
    BY <1>3, <1>4, <1>5, <1>8 DEF CleanGet, Meaning, MayAnswer, Clear
<1> QED BY <1>1, <1>4, <1>6, <1>7, <1>9

\* What the agent remembers after a query or a command.
LEMMA KeptOne ==
    ASSUME RunInv, TruthInv, Fine, pc # "input", Remember, Row.names = "last",
           pc = "set" => kept = 1
    PROVE  kept' = 1 /\ NPlugs = 1
<1>1. CleanMain(agent, Row)
    BY RowFacts DEF RunInv, RunType
<1>2. NPlugs = 1
    BY <1>1, FenceActionAssumption DEF CleanMain, Fine, Defective
<1>3. plug = 1
    BY <1>2 DEF RunInv, RunType, Plugs
<1> QED BY <1>2, <1>3 DEF Remember, Target

\* fence_action goes on after set_multi_power_fn.
LEMMA ReturnsWell ==
    ASSUME RunInv, TruthInv, CleanInv, RunNext, Fine', pc \in {"poll", "sync"}, SetReturned(TRUE),
           Row.names = "last" => kept' = 1,
           pc = "poll" => power'[1] = action /\ cmd'[1] = "none"
    PROVE  Good'
<1>1. /\ action \in {"on", "off"} /\ opt.action \in {action, "reboot"}
      /\ pc = "sync" => opt.fns = "sync"
      /\ UNCHANGED <<opt, agent>> /\ Row' = Row
    BY FineStep DEF RunInv, RunControl, Chosen
<1>2. CASE Exit(0)
    BY <1>1, <1>2, EndsWell DEF Exit
<1>3. CASE ~Exit(0)
  <2>1. BeginSet("on") /\ action = "off"
      BY <1>1, <1>3 DEF SetReturned, StartOnPortion
  <2>2. agent' \in Buttons /\ opt.fns = "async" => power'[1] # "on" /\ cmd'[1] = "none"
      BY <1>1, <2>1
  <2> QED BY <1>1, <2>1, <2>2, BeginsWell
<1> QED BY <1>2, <1>3

\* A query, for the status or for a poll.
LEMMA QueryGood ==
    ASSUME RunInv, TruthInv, CleanInv, RunNext, Fine', Query
    PROVE  Good'
<1>1. /\ pc \in {"status", "poll"} /\ UNCHANGED <<power, cmd, heard>> /\ Remember
      /\ plug \in Plugs /\ 1 \in Plugs /\ NPlugs \in Nat /\ plug \in Nat
    BY FenceActionAssumption DEF Query, deviceVars, RunInv, RunType, Plugs
<1>2. Fine /\ Good /\ Row' = Row /\ UNCHANGED <<opt, agent>>
    BY <1>1, FineStep
<1>3. PICK r \in {"on", "off"} : ReadPlug(r) /\ (agent # "gce_baremetal" => r = power[plug])
    BY FineRead
<1>4. Row.names = "last" => kept' = 1 /\ NPlugs = 1
    BY <1>1, <1>2, KeptOne
<1>5. \A p \in Plugs : cmd[p] = "none"
    BY FineRead
<1>6. PICK s : s = Aggregate(acc, r)
    OBVIOUS
<1>7. CASE pc = "status"
  <2>1. acc \in {"on", "off"} /\ s \in {"on", "off"}
      BY <1>2, <1>3, <1>6, <1>7 DEF Good, FineReading, Aggregate
  <2>2. agent # "gce_baremetal" =>
          (s = "off" <=> \A q \in Plugs : q <= plug => power[q] = "off")
    <3> SUFFICES ASSUME agent # "gce_baremetal"
                 PROVE  s = "off" <=> \A q \in Plugs : q <= plug => power[q] = "off"
        OBVIOUS
    <3>1. acc = "off" <=> \A q \in Plugs : q < plug => power[q] = "off"
        BY <1>2, <1>7 DEF Good, FineReading
    <3>2. s = "off" <=> acc = "off" /\ power[plug] = "off"
        BY <1>3, <1>6, <2>1 DEF Aggregate
    <3>3. \A q \in Plugs : q <= plug <=> q < plug \/ q = plug
        BY <1>1 DEF Plugs
    <3> QED BY <1>1, <3>1, <3>2, <3>3
  <2>3. CASE plug < NPlugs
    <3>1. pc' = "status" /\ plug' = plug + 1 /\ acc' = s
        BY <1>3, <1>6, <1>7, <2>3 DEF ReadPlug
    <3>2. \A q \in Plugs : q < plug' <=> q <= plug
        BY <1>1, <3>1 DEF Plugs
    <3>3. FineReading'
      <4>1. acc' \in {"on", "off"}
          BY <2>1, <3>1
      <4>2. agent' # "gce_baremetal" =>
              (acc' = "off" <=> \A q \in Plugs : q < plug' => power'[q] = "off")
          BY <1>1, <1>2, <2>2, <3>1, <3>2
      <4>3. Row'.names = "once" /\ heard' # "none" =>
              heard' \in DOMAIN Row'.get /\ MayAnswer(heard', power'[1])
          BY <1>1, <1>2, <1>7 DEF Good, FineReading
      <4> QED BY <3>1, <4>1, <4>2, <4>3 DEF FineReading, MayAnswer
    <3> QED BY <3>1, <3>3 DEF Good, FineCommand, FineEnd
  <2>4. CASE ~(plug < NPlugs)
    <3>1. StatusKnown(s)
        BY <1>3, <1>6, <1>7, <2>4 DEF ReadPlug
    <3>2. pc' = "decide" /\ status' = s
        BY <2>1, <3>1 DEF StatusKnown
    <3>3. \A q \in Plugs : q <= plug
        BY <1>1, <2>4 DEF Plugs
    <3>4. agent' # "gce_baremetal" => (status' = "off" <=> Dark(power'))
        BY <1>1, <1>2, <2>2, <3>2, <3>3 DEF Dark
    <3> QED BY <1>2, <1>4, <3>2, <3>4 DEF Good, FineReading, FineCommand, FineEnd
  <2> QED BY <2>3, <2>4
<1>8. CASE pc = "poll"
  <2>1. action \in {"on", "off"} /\ opt.action \in {"on", "off", "reboot"}
      BY <1>8 DEF RunInv, RunControl
  <2>2. agent # "gce_baremetal"
      BY <1>2, <2>1 DEF Fine, Defective
  <2>3. \A q \in Plugs : power[q] = action
      BY <1>2, <1>5, <1>8 DEF Good, FineCommand, Due
  <2>4. s = action
      BY <1>1, <1>2, <1>3, <1>6, <1>8, <2>2, <2>3 DEF Good, FineCommand, Aggregate
  <2>5. CASE plug < NPlugs
    <3>1. pc' = "poll" /\ plug' = plug + 1 /\ acc' = s /\ action' = action
        BY <1>3, <1>6, <1>8, <2>5 DEF ReadPlug
    <3>2. plug' # 1
        BY <1>1, <3>1 DEF Plugs
    <3>3. \A q \in Plugs : Due(q)' = action
        BY <1>1, <1>5, <2>3 DEF Due
    <3> QED BY <1>2, <1>4, <2>4, <3>1, <3>2, <3>3 DEF Good, FineReading, FineCommand, FineEnd
  <2>6. CASE ~(plug < NPlugs)
    <3>1. SetReturned(TRUE)
        BY <1>3, <1>6, <1>8, <2>4, <2>6 DEF ReadPlug, Polled
    <3> QED BY <1>1, <1>4, <1>5, <1>8, <2>3, <3>1, ReturnsWell
  <2> QED BY <2>5, <2>6
<1> QED BY <1>1, <1>7, <1>8

\* What is asked of the device is what --action says.
LEMMA FineAsked ==
    ASSUME RunInv, Fine, pc = "set"
    PROVE  agent \notin Buttons => Asked = action
<1>1. /\ action \in {"on", "off"} /\ opt.action \in {action, "reboot"} /\ opt.fns = "async"
      /\ "set" \in Row.main.fns
    BY DEF RunInv, RunControl
<1>2. CleanSet(agent, Row)
    BY RowFacts DEF RunInv, RunType
<1> QED BY <1>1, <1>2 DEF CleanSet, Asked, Fine, Defective

\* The device takes a command.
LEMMA CommandGood ==
    ASSUME RunInv, TruthInv, CleanInv, RunNext, Fine', Command
    PROVE  Good'
<1>1. /\ pc = "set" /\ power' = power /\ Remember /\ plug \in Plugs /\ NPlugs \in Nat
      /\ action \in {"on", "off"} /\ plug \in Nat
      /\ power \in [Plugs -> {"on", "off"}]
      /\ cmd \in [Plugs -> {"none", "on", "off", "cycle", "toggle"}]
    BY FenceActionAssumption DEF Command, RunInv, RunType, RunControl, Plugs
<1>2. Fine /\ Good /\ ~MixesPlugs /\ Row' = Row /\ UNCHANGED <<opt, agent>>
    BY <1>1, FineStep
<1>3. Row.names = "last" => kept = 1
    BY <1>1, <1>2 DEF Good, FineCommand
<1>4. Row.names = "last" => kept' = 1 /\ NPlugs = 1
    BY <1>1, <1>2, <1>3, KeptOne
<1>5. Target = plug
  <2>1. CASE Row.names = "last"
      BY <1>1, <1>3, <1>4, <2>1 DEF Target, Plugs
  <2>2. CASE Row.names # "last"
      BY <1>2, <2>2, TargetIsPlug
  <2> QED BY <2>1, <2>2
<1>6. PICK c : c = IF Asked = "soft" THEN "off" ELSE Asked
    OBVIOUS
<1>7. cmd' = [cmd EXCEPT ![plug] = c] /\ CommandSent
    BY <1>5, <1>6 DEF Command
<1>p. PICK p \in Plugs : p = plug
    BY <1>1
<1>8. Due(p)' = action
  <2>1. CASE agent \notin Buttons
    <3>1. c = action
        BY <1>1, <1>2, <1>6, <2>1, FineAsked
    <3>2. cmd'[p] = action
        BY <1>1, <1>7, <1>p, <3>1
    <3> QED BY <1>1, <3>2 DEF Due
  <2>2. CASE agent \in Buttons
    <3>1. c \in {"toggle", action} /\ plug = 1 /\ power[1] # action
        BY <1>1, <1>2, <1>6, <2>2, AskedType, ButtonFacts DEF Good, FineCommand
    <3>2. cmd'[1] \in {"toggle", action} /\ power'[1] \in {"on", "off"} \ {action}
        BY <1>1, <1>7, <3>1
    <3>3. p = 1
        BY <1>p, <3>1
    <3> QED BY <1>1, <3>2, <3>3 DEF Due
  <2> QED BY <2>1, <2>2
<1>9. \A q \in Plugs : q < plug => Due(q)' = action
  <2> SUFFICES ASSUME NEW q \in Plugs, q < plug PROVE Due(q)' = action
      OBVIOUS
  <2>1. q # plug /\ Due(q) = action
      BY <1>1, <1>2 DEF Good, FineCommand, Plugs
  <2>2. cmd'[q] = cmd[q] /\ power'[q] = power[q]
      BY <1>1, <1>7, <2>1
  <2> QED BY <2>1, <2>2 DEF Due
<1>10. \A q \in Plugs : q <= plug => Due(q)' = action
  <2>1. \A q \in Plugs : q <= plug => q < plug \/ q = p
      BY <1>1, <1>p DEF Plugs
  <2> QED BY <1>8, <1>9, <2>1
<1>11. action' = action /\ acc' = "off"
    BY <1>7 DEF CommandSent
<1>12. CASE plug < NPlugs
  <2>1. pc' = "set" /\ plug' = plug + 1
      BY <1>1, <1>7, <1>12 DEF CommandSent
  <2>2. \A q \in Plugs : q < plug' => q <= plug
      BY <1>1, <2>1 DEF Plugs
  <2>3. agent \notin Buttons
      BY <1>1, <1>12, ButtonFacts
  <2> QED BY <1>2, <1>4, <1>10, <1>11, <2>1, <2>2, <2>3 DEF Good, FineReading, FineCommand, FineEnd
<1>13. CASE ~(plug < NPlugs)
  <2>1. pc' = "poll" /\ plug' = 1
      BY <1>7, <1>13 DEF CommandSent
  <2>2. \A q \in Plugs : q <= plug
      BY <1>1, <1>13 DEF Plugs
  <2> QED BY <1>2, <1>4, <1>10, <1>11, <2>1, <2>2 DEF Good, FineReading, FineCommand, FineEnd
<1> QED BY <1>12, <1>13

\* A command that is refused is a fault, or is none.
LEMMA RefusedNot ==
    ASSUME RunInv, TruthInv, CleanInv, RunNext, Fine', CommandRefused
    PROVE  FALSE
<1>1. pc = "set" /\ action \in {"on", "off"}
    BY DEF CommandRefused, RunInv, RunControl
<1>2. Fine /\ ~faulty'
    BY <1>1, FineStep
<1>3. Asked \in {"soft", "exit"}
    BY <1>2 DEF CommandRefused
<1> QED BY <1>1, <1>2, <1>3, FineAsked, AskedType

\* A callback that switches the machine and answers for it.
LEMMA SyncGood ==
    ASSUME RunInv, TruthInv, CleanInv, RunNext, Fine', SyncCommand
    PROVE  Good'
<1>1. pc = "sync" /\ Remember
    BY DEF SyncCommand
<1>2. /\ Fine /\ Good /\ ~faulty' /\ success /\ Row' = Row
      /\ success \in BOOLEAN
    BY <1>1, FineStep DEF Good, FineCommand, RunInv, RunType
<1>3. LoopTail(TRUE, Attempts(action), SetReturned(success))
    BY <1>2 DEF SyncCommand
<1>4. Row.names = "last" => kept' = 1
    BY <1>1, <1>2, KeptOne
<1>5. CASE plug < NPlugs
  <2>1. pc' = "sync" /\ success'
      BY <1>1, <1>2, <1>3, <1>5 DEF LoopTail
  <2> QED BY <1>2, <1>4, <2>1 DEF Good, FineReading, FineCommand, FineEnd
<1>6. CASE ~(plug < NPlugs)
  <2>1. SetReturned(TRUE)
    <3>1. success = TRUE
        BY <1>2
    <3>2. SetReturned(success)
        BY <1>3, <1>6 DEF LoopTail
    <3> QED BY <3>1, <3>2
  <2> QED BY <1>1, <1>4, <2>1, ReturnsWell
<1> QED BY <1>5, <1>6

\* A power cycle.
LEMMA CycleGood ==
    ASSUME RunInv, TruthInv, CleanInv, RunNext, Fine', CycleCommand
    PROVE  Good'
<1>1. pc = "cycle" /\ Cycle /\ opt.action = "reboot"
    BY DEF CycleCommand, RunInv, RunControl, Cycle
<1>2. /\ Fine /\ Good /\ Chosen /\ ~faulty' /\ success /\ Row' = Row /\ opt' = opt
      /\ success \in BOOLEAN
    BY <1>1, FineStep DEF Good, FineCommand, RunInv, RunType
<1>3. PICK taken \in BOOLEAN :
         /\ faulty' = (faulty \/ ~taken)
         /\ IF CycleValue(taken) \in {"true", "false"}
            THEN LET ok == CycleValue(taken) = "true"
                 IN LoopTail(ok, 1 + opt.retryOn, CycleReturned(success /\ ok))
            ELSE CycleReturned(FALSE)
    BY DEF CycleCommand
<1>4. taken = TRUE
    BY <1>2, <1>3
<1>5. CleanSet(agent, Row)
    BY RowFacts DEF RunInv, RunType
<1>6. Row.cycle.taken = "true"
    BY <1>1, <1>2, <1>5 DEF CleanSet, Chosen, Has, Fine, Defective
<1>7. CycleValue(taken) = "true"
    BY <1>4, <1>6 DEF CycleValue
<1>8. PICK ok : ok = TRUE /\ LoopTail(ok, 1 + opt.retryOn, CycleReturned(success /\ ok))
    BY <1>3, <1>7
<1>9. CASE plug < NPlugs
  <2>1. pc' = "cycle" /\ success'
      BY <1>1, <1>2, <1>8, <1>9 DEF LoopTail
  <2> QED BY <2>1 DEF Good, FineReading, FineCommand, FineEnd
<1>10. CASE ~(plug < NPlugs)
  <2>1. CycleReturned(success /\ ok)
      BY <1>8, <1>10 DEF LoopTail
  <2>2. pc' = "done" /\ result' = 0
      BY <1>2, <1>8, <2>1 DEF CycleReturned, Exit
  <2> QED BY <1>1, <1>2, <2>2, EndsWell
<1> QED BY <1>9, <1>10

\* The device carries out a command.
LEMMA DeviceGood ==
    ASSUME RunInv, TruthInv, CleanInv, RunNext, Fine', pc # "input", Device, UNCHANGED runVars
    PROVE  Good'
<1>1. UNCHANGED <<opt, pc, action, plug, acc, status, success, result, heard, agent, kept, step, options>>
    BY DEF Device, DeviceActs, DeviceCycles, DeviceToggles, agentVars, runVars
<1>2. /\ Good /\ Row' = Row
      /\ power \in [Plugs -> {"on", "off"}]
      /\ cmd \in [Plugs -> {"none", "on", "off", "cycle", "toggle"}]
    BY FineStep DEF RunInv, RunType
<1>3. pc \in {"main", "start", "list", "status", "decide"} \/ opt.action = "status" => power' = power
    BY FineStep
<1>4. PICK p \in Plugs : DeviceActs(p) \/ DeviceCycles(p) \/ DeviceToggles(p)
    BY DEF Device
<1>5. \A q \in Plugs : Due(q)' = Due(q)
  <2> SUFFICES ASSUME NEW q \in Plugs PROVE Due(q)' = Due(q)
      OBVIOUS
  <2>1. CASE q # p
    <3>1. power'[q] = power[q] /\ cmd'[q] = cmd[q]
        BY <1>2, <1>4, <2>1 DEF DeviceActs, DeviceCycles, DeviceToggles
    <3> QED BY <3>1 DEF Due
  <2>2. CASE q = p
    <3>1. cmd'[q] = "none"
        BY <1>2, <1>4, <2>2 DEF DeviceActs, DeviceCycles, DeviceToggles
    <3>2. power'[q] = Due(q)
        BY <1>2, <1>4, <2>2 DEF DeviceActs, DeviceCycles, DeviceToggles, Due
    <3> QED BY <3>1, <3>2 DEF Due
  <2> QED BY <2>1, <2>2
<1>6. FineReading'
    BY <1>1, <1>2, <1>3 DEF Good, FineReading, Dark, MayAnswer
<1>7. FineCommand'
  <2>1. pc = "set" /\ agent \in Buttons => FALSE
    <3> SUFFICES ASSUME pc = "set", agent \in Buttons PROVE FALSE
        OBVIOUS
    <3>1. p = 1 /\ cmd[1] = "none"
        BY <1>2, ButtonFacts DEF Plugs, Good, FineCommand
    <3> QED BY <1>4, <3>1 DEF DeviceActs, DeviceCycles, DeviceToggles
  <2> QED BY <1>1, <1>2, <1>5, <2>1 DEF Good, FineCommand
<1>8. FineEnd'
    BY <1>1, <1>2, <1>3 DEF Good, FineEnd, Dark, Insufficient, LoginGiven
<1> QED BY <1>6, <1>7, <1>8 DEF Good

\* Every step of a run.
LEMMA CleanStep ==
    RunInv /\ TruthInv /\ DelayInv /\ LoginInv /\ CleanInv /\ [RunNext]_agentRunVars => CleanInv'
<1>1. ASSUME CleanInv, UNCHANGED agentRunVars PROVE CleanInv'
    BY <1>1 DEF agentRunVars, vars, agentVars, deviceVars, runVars, CleanInv, Chosen, Fine, Defective,
                MixesPlugs, Listing, Cycle, Good, FineReading, FineCommand, FineEnd, Due, Dark,
                MayAnswer, Row, Has, Insufficient, LoginGiven
<1>2. ASSUME RunInv, TruthInv, DelayInv, LoginInv, CleanInv, RunNext PROVE CleanInv'
  <2>1. (diag' => Has("diag")') /\ (pc' = "input" => step' = 0 /\ heard' = "none")
    <3>1. CASE pc # "input"
        BY <1>2, <3>1, FineBack DEF CleanInv, Has
    <3>2. CASE pc = "input"
      <4>1. CASE CheckInput
          BY <1>2, <4>1 DEF CheckInput, CleanInv, Has, Row
      <4>2. CASE ~CheckInput
        <5>1. UNCHANGED runVars /\ pc' = pc
            BY <1>2, <3>2, <4>2
            DEF RunNext, AgentStep, MainStep, MainStepFails, Start, fence_action_start, Decide,
                fence_action_decide, List, Query, Command, CommandSent, CommandRefused,
                SyncCommand, CycleCommand, Device, DeviceActs, DeviceCycles, DeviceToggles,
                Finished, vars, agentVars
        <5> QED BY <1>2, <5>1 DEF runVars, CleanInv, Has, Row
      <4> QED BY <4>1, <4>2
    <3> QED BY <3>1, <3>2
  <2>2. ASSUME pc' # "input", Fine' PROVE Good'
    <3>1. CASE CheckInput
        BY <1>2, <3>1, InputGood
    <3>2. CASE MainStep
        BY <1>2, <2>2, <3>2, MainGood
    <3>3. CASE MainStepFails
        BY <1>2, <2>2, <3>3, MainFailsGood
    <3>4. CASE List
        BY <1>2, <2>2, <3>4, ListGood
    <3>5. CASE Start
        BY <1>2, <2>2, <3>5, StartGood
    <3>6. CASE Decide
        BY <1>2, <2>2, <3>6, DecideGood
    <3>7. CASE Query
        BY <1>2, <2>2, <3>7, QueryGood
    <3>8. CASE Command
        BY <1>2, <2>2, <3>8, CommandGood
    <3>9. CASE CommandRefused
        BY <1>2, <2>2, <3>9, RefusedNot
    <3>10. CASE SyncCommand
        BY <1>2, <2>2, <3>10, SyncGood
    <3>11. CASE CycleCommand
        BY <1>2, <2>2, <3>11, CycleGood
    <3>12. CASE Device /\ UNCHANGED runVars
      <4>1. pc # "input"
          BY <3>12, <2>2 DEF Device, DeviceActs, DeviceCycles, DeviceToggles, agentVars
      <4> QED BY <1>2, <2>2, <3>12, <4>1, DeviceGood
    <3>13. CASE Finished /\ UNCHANGED runVars
      <4>1. UNCHANGED agentRunVars
          BY <3>13 DEF Finished, agentRunVars
      <4> QED BY <1>1, <1>2, <2>2, <4>1 DEF CleanInv
    <3> QED BY <1>2, <3>1, <3>2, <3>3, <3>4, <3>5, <3>6, <3>7, <3>8, <3>9, <3>10, <3>11, <3>12, <3>13
            DEF RunNext, AgentStep
  <2>3. pc' # "input" => Chosen'
      BY <1>2, ChosenStep
  <2> QED BY <2>1, <2>2, <2>3 DEF CleanInv
<1> QED BY <1>1, <1>2

\* For every agent of the tables, any number of plugs, any input, any timeout
\* and any number of retries: a request that check_input lets pass, and that is
\* not one of Defective or refused by main for the want of an option, never
\* fails when the device is never late, unclear or unwilling, and a status tells
\* on from off.
THEOREM NoFaultNoFailureCorrect == RunSpec => []NoFaultNoFailure
<1>1. RunInv /\ CleanInv => NoFaultNoFailure
  <2> SUFFICES ASSUME RunInv, CleanInv, pc = "done", step > 0, ~faulty, ~Defective,
                      ~Insufficient
               PROVE  /\ ExitCode # 1
                      /\ opt.action = "status" => ExitCode = IF Dark(power) THEN 2 ELSE 0
      BY DEF NoFaultNoFailure
  <2>1. FineEnd
      BY DEF CleanInv, Fine, Good
  <2>2. CleanMain(agent, Row)
      BY RowFacts DEF RunInv, RunType
  <2>3. opt.action = "status" => Row.main.session # "dropped"
      BY <2>2 DEF CleanMain, Defective
  <2> QED BY <2>1, <2>3 DEF FineEnd, ExitCode
<1>2. RunInit => DelayInv
    BY DEF RunInit, DelayInv
<1> QED BY <1>1, <1>2, InitClean, CleanStep, InitTruth, TruthStep, InitLogin, LoginStep, DelayStep,
           RunInvCorrect, PTL DEF RunSpec

----------------------------------------------------------------------------
(* No machine is switched the wrong way.                                   *)

\* What the device has accepted for machine p leads to the state that
\* fence_action is at.
Leads(p) ==
    \/ cmd[p] = "none"
    \/ cmd[p] \in {"on", "off"} /\ cmd[p] = action
    \/ cmd[p] = "toggle" /\ action \in {"on", "off"} /\ power[p] # action
AllLead == \A p \in Plugs : Leads(p)
NothingPending == \A p \in Plugs : cmd[p] = "none"

\* An on or an off leaves its own commands at the device; in a run without a
\* fault no command outlives its portion of a reboot.
WayInv ==
    /\ pc = "input" => NothingPending
    /\ pc # "input" /\ agent \notin Buttons /\ opt.action # "reboot" =>
          \A p \in Plugs : cmd[p] \in {"none", opt.action}
    /\ pc # "input" /\ ~Cycle /\ ~faulty => AllLead /\ (pc = "sync" => NothingPending)

\* The step that SwitchesRightWay allows.
RightWay ==
    pc # "input" /\ ~Cycle /\ (~faulty' \/ (agent \notin Buttons /\ opt.action # "reboot")) =>
        \A p \in Plugs : power'[p] # power[p] => power'[p] = action

\* The commands of an on or an off, late, lost and repeated ones included.
LEMMA OwnCommands ==
    ASSUME RunInv, TruthInv, WayInv, RunNext, pc # "input", agent \notin Buttons, opt.action # "reboot"
    PROVE  \A p \in Plugs : cmd'[p] \in {"none", opt.action}
<1>t. /\ cmd \in [Plugs -> {"none", "on", "off", "cycle", "toggle"}]
      /\ \A p \in Plugs : cmd[p] \in {"none", opt.action}
    BY DEF RunInv, RunType, WayInv
<1>1. CASE UNCHANGED <<power, cmd>>
    BY <1>1, <1>t
<1>2. CASE pc = "set" /\ Asked # "exit" /\ Accepts(Target, IF Asked = "soft" THEN "off" ELSE Asked)
  <2>1. PICK c : c = IF Asked = "soft" THEN "off" ELSE Asked
      OBVIOUS
  <2>2. action \in {"on", "off"} /\ action = opt.action
      BY <1>2 DEF RunInv, RunControl
  <2>3. c = opt.action
      BY <1>2, <2>1, <2>2, AskedType DEF Buttons
  <2> QED BY <1>2, <1>t, <2>1, <2>3 DEF Accepts
<1>3. CASE pc = "sync" /\ (CarriesOut(Target, action) \/ \E c \in {"none", action} : Accepts(Target, c))
  <2>1. action = opt.action
      BY <1>3 DEF RunInv, RunControl
  <2> QED BY <1>3, <1>t, <2>1 DEF Accepts, CarriesOut
<1>4. CASE pc = "cycle" /\ Accepts(Target, "cycle")
    BY <1>4 DEF RunInv, RunControl, Cycle
<1>5. CASE Device /\ UNCHANGED <<agentVars, runVars>>
  <2>1. PICK q \in Plugs : cmd' = [cmd EXCEPT ![q] = "none"]
      BY <1>5 DEF Device, DeviceActs, DeviceCycles, DeviceToggles
  <2> QED BY <2>1, <1>t
<1> QED BY <1>1, <1>2, <1>3, <1>4, <1>5, DeviceMoves

\* A command of a run without a fault leads to the state asked for; a button is
\* pressed when the machine is known to be in the other one.
LEMMA CommandLeads ==
    ASSUME RunInv, CleanInv, AllLead, ~faulty, Command
    PROVE  AllLead'
<1>1. /\ pc = "set" /\ power' = power /\ action' = action /\ action \in {"on", "off"}
      /\ cmd \in [Plugs -> {"none", "on", "off", "cycle", "toggle"}]
    BY DEF Command, CommandSent, RunInv, RunType, RunControl
<1>2. PICK c : c = IF Asked = "soft" THEN "off" ELSE Asked
    OBVIOUS
<1>3. cmd' = [cmd EXCEPT ![Target] = c] /\ Asked # "exit"
    BY <1>2 DEF Command
<1>4. CASE agent \notin Buttons
  <2>1. c = action
      BY <1>1, <1>2, <1>3, <1>4, AskedType DEF Buttons
  <2> QED BY <1>1, <1>3, <2>1 DEF AllLead, Leads
<1>5. CASE agent \in Buttons
  <2>1. ~Defective
      BY <1>5, ButtonFacts DEF Defective, MixesPlugs, Buttons
  <2>2. power[1] # action
      BY <1>1, <1>5, <2>1 DEF CleanInv, Fine, Good, FineCommand
  <2>3. Plugs = {1}
      BY <1>5, ButtonFacts DEF Plugs
  <2>4. c = "toggle" \/ c = action
      BY <1>1, <1>2, <1>5, AskedType
  <2> QED BY <1>1, <1>3, <2>2, <2>3, <2>4 DEF AllLead, Leads
<1> QED BY <1>4, <1>5

\* Without a fault nothing is pending when fence_action goes on to another state.
LEMMA NothingLeft ==
    ASSUME RunInv, TruthInv, WayInv, CleanInv, RunNext, pc # "input", ~Cycle, ~faulty'
    PROVE  AllLead' /\ (pc' = "sync" => NothingPending')
<1>1. ~faulty /\ AllLead /\ (pc = "sync" => NothingPending)
    BY FaultKept DEF WayInv
<1>t. cmd \in [Plugs -> {"none", "on", "off", "cycle", "toggle"}]
    BY DEF RunInv, RunType
<1>k. ASSUME UNCHANGED <<power, cmd, action>> PROVE AllLead'
    BY <1>1, <1>k DEF AllLead, Leads
<1>n. ASSUME NothingPending' PROVE AllLead' /\ (pc' = "sync" => NothingPending')
    BY <1>n DEF AllLead, Leads, NothingPending
<1>2. CASE CheckInput
    BY <1>2 DEF CheckInput
<1>3. CASE MainStep \/ MainStepFails \/ List \/ Start
  <2>1. UNCHANGED <<power, cmd, action>> /\ pc' # "sync"
      BY <1>3 DEF MainStep, MainGoesOn, MainStepFails, List, Start, fence_action_start, Exit, deviceVars
  <2> QED BY <2>1, <1>k
<1>4. CASE Decide
  <2>1. UNCHANGED <<power, cmd>> /\ pc = "decide"
      BY <1>4 DEF Decide, fence_action_decide, deviceVars
  <2>2. NothingPending'
      BY <2>1 DEF TruthInv, Untouched, NothingPending
  <2> QED BY <2>2, <1>n
<1>5. CASE Query
  <2>1. UNCHANGED <<power, cmd>> /\ \E w : Hear(w)
      BY <1>5 DEF Query, deviceVars
  <2>2. NothingPending'
      BY <2>1 DEF Hear, NothingPending
  <2> QED BY <2>2, <1>n
<1>6. CASE Command
  <2>1. pc' # "sync"
      BY <1>6 DEF Command, CommandSent
  <2> QED BY <1>1, <1>6, <2>1, CommandLeads
<1>7. CASE CommandRefused
  <2>1. pc = "set" /\ UNCHANGED <<power, cmd>> /\ Asked \in {"soft", "exit"}
    <3>1. faulty' = (faulty \/ Asked \notin {"soft", "exit"})
        BY <1>7 DEF CommandRefused
    <3> QED BY <3>1, <1>7 DEF CommandRefused, deviceVars
  <2>2. Asked = "soft" => action # "on"
      BY <2>1, AskedType
  <2>3. action' = action /\ pc' # "sync"
      BY <1>7, <2>1, <2>2 DEF CommandRefused, CommandSent, Broken, OnPortion, Exit
  <2> QED BY <2>1, <2>3, <1>k
<1>8. CASE SyncCommand
  <2>1. pc = "sync" /\ cmd' = [cmd EXCEPT ![Target] = "none"]
      BY <1>8 DEF SyncCommand
  <2>2. NothingPending'
      BY <1>1, <1>t, <2>1 DEF NothingPending
  <2> QED BY <2>2, <1>n
<1>9. CASE CycleCommand
    BY <1>9 DEF CycleCommand, RunInv, RunControl
<1>10. CASE Device /\ UNCHANGED runVars
  <2>1. /\ UNCHANGED <<pc, action>>
        /\ \E q \in Plugs : /\ cmd' = [cmd EXCEPT ![q] = "none"]
                             /\ \E v : power' = [power EXCEPT ![q] = v]
      BY <1>10 DEF Device, DeviceActs, DeviceCycles, DeviceToggles, agentVars
  <2>2. power \in [Plugs -> {"on", "off"}]
      BY DEF RunInv, RunType
  <2> QED BY <1>1, <1>t, <2>1, <2>2 DEF AllLead, Leads, NothingPending
<1>11. CASE Finished
  <2>1. UNCHANGED <<pc, power, cmd, action>>
      BY <1>11 DEF Finished, vars, agentVars, deviceVars
  <2> QED BY <1>1, <2>1 DEF AllLead, Leads, NothingPending
<1> QED BY <1>2, <1>3, <1>4, <1>5, <1>6, <1>7, <1>8, <1>9, <1>10, <1>11 DEF RunNext, AgentStep

\* A machine is switched by what was pending for it, or by a job.
LEMMA GoesRight ==
    ASSUME RunInv, TruthInv, WayInv, RunNext
    PROVE  RightWay
<1> SUFFICES ASSUME pc # "input", ~Cycle, ~faulty' \/ (agent \notin Buttons /\ opt.action # "reboot"),
                    NEW p \in Plugs, power'[p] # power[p]
             PROVE  power'[p] = action
    BY DEF RightWay
<1>t. /\ power \in [Plugs -> {"on", "off"}]
      /\ cmd \in [Plugs -> {"none", "on", "off", "cycle", "toggle"}]
      /\ opt.action \in Actions
    BY OptionFacts DEF RunInv, RunType
<1>1. CASE pc = "sync" /\ CarriesOut(Target, action)
    BY <1>1, <1>t DEF CarriesOut
<1>2. CASE Device
  <2>1. PICK q \in Plugs : DeviceActs(q) \/ DeviceCycles(q) \/ DeviceToggles(q)
      BY <1>2 DEF Device
  <2>2. q = p
      BY <1>t, <2>1 DEF DeviceActs, DeviceCycles, DeviceToggles
  <2>3. Leads(p)
    <3>1. CASE agent \notin Buttons /\ opt.action # "reboot"
      <4>1. cmd[p] \in {"none", opt.action} /\ cmd[p] # "none"
          BY <2>1, <2>2, <3>1 DEF WayInv, DeviceActs, DeviceCycles, DeviceToggles
      <4>2. opt.action \in {"on", "off"}
          BY <1>t, <4>1 DEF Actions
      <4> QED BY <4>1, <4>2 DEF Leads, RunInv, RunControl
    <3>2. CASE ~faulty'
        BY <3>2, FaultKept DEF WayInv, AllLead
    <3> QED BY <3>1, <3>2
  <2> QED BY <1>t, <2>1, <2>2, <2>3 DEF Leads, DeviceActs, DeviceCycles, DeviceToggles
<1> QED BY <1>1, <1>2, DeviceMoves DEF Accepts

\* Every step keeps to the way.
LEMMA WayStep ==
    RunInv /\ TruthInv /\ CleanInv /\ WayInv /\ [RunNext]_agentRunVars => WayInv'
<1>1. ASSUME WayInv, UNCHANGED agentRunVars PROVE WayInv'
    BY <1>1 DEF agentRunVars, vars, agentVars, deviceVars, runVars, WayInv, AllLead, Leads,
                NothingPending, Cycle
<1>2. ASSUME RunInv, TruthInv, CleanInv, WayInv, RunNext, pc = "input" PROVE WayInv'
  <2>1. NothingPending
      BY <1>2 DEF WayInv
  <2>2. UNCHANGED <<power, cmd>>
      BY <1>2, <2>1, Settled DEF NothingPending, Device, DeviceActs, DeviceCycles, DeviceToggles
  <2>3. \A p \in Plugs : cmd'[p] = "none"
      BY <2>1, <2>2 DEF NothingPending
  <2> QED BY <2>3 DEF WayInv, NothingPending, AllLead, Leads
<1>3. ASSUME RunInv, TruthInv, CleanInv, WayInv, RunNext, pc # "input" PROVE WayInv'
  <2>1. pc' # "input" /\ opt' = opt /\ agent' = agent /\ (Cycle' <=> Cycle)
      BY <1>3, Settled DEF Cycle
  <2>2. agent \notin Buttons /\ opt.action # "reboot" => \A p \in Plugs : cmd'[p] \in {"none", opt.action}
      BY <1>3, OwnCommands
  <2>3. ~Cycle /\ ~faulty' => AllLead' /\ (pc' = "sync" => NothingPending')
      BY <1>3, NothingLeft
  <2> QED BY <2>1, <2>2, <2>3 DEF WayInv
<1> QED BY <1>1, <1>2, <1>3

\* For every agent, any number of plugs and any number of retries: a machine is
\* only switched to the state that fence_action is at, without a fault in every
\* run, the ones that press a power button included; with late, lost and
\* repeated commands in every on and every off of an agent without a button.
THEOREM SwitchesRightWayCorrect == RunSpec => SwitchesRightWay
<1>1. RunInit => WayInv /\ DelayInv
    BY DEF RunInit, WayInv, NothingPending, DelayInv
<1>2. RunInv /\ TruthInv /\ WayInv /\ [RunNext]_agentRunVars =>
        [pc # "input" /\ ~Cycle /\ (~faulty' \/ (agent \notin Buttons /\ opt.action # "reboot")) =>
           \A p \in Plugs : power'[p] # power[p] => power'[p] = action]_agentRunVars
    BY GoesRight DEF RightWay
<1> QED BY <1>1, <1>2, WayStep, InitClean, CleanStep, InitTruth, TruthStep, InitLogin, LoginStep, DelayStep,
           RunInvCorrect, PTL DEF RunSpec, SwitchesRightWay

=============================================================================
