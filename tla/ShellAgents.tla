---------------------------- MODULE ShellAgents ----------------------------
(***************************************************************************)
(* The agents that talk to a command line: management cards, switches,     *)
(* blade chassis and hypervisors behind telnet, ssh, a serial line or a    *)
(* command line tool.  AgentTable says how to read the tables.             *)
(***************************************************************************)
EXTENDS AgentTable

Card == {"ipaddr", "login", "passwd", "cmd_prompt"}

alom_get_power_status == [standby |-> "off", on |-> "on", other |-> "on", garbled |-> "on"]
alom_set_power_status == Set("on", "off", "ignored")
alom_main ==
    Having({"secure", "cmd_prompt"},
           Main(Card \cup {"secure"}, <<"fence_login">>, {"set", "get"}, "pipe"))

ilo_mp_get_power_status == [enabled |-> "on", disabled |-> "off", other |-> "off", garbled |-> "raise"]
ilo_mp_set_power_status == Set("on", "off", "ignored")
ilo_mp_main ==
    Having({"cmd_prompt"},
           Main(Card \cup {"secure", "telnet"}, <<"fence_login", "SMCLP">>,
                {"set", "get"}, "pipe"))

drac_get_power_status == [on |-> "on", off |-> "off", garbled |-> "raise"]
drac_set_power_status == Set("on", "off", "ignored")
drac_main ==
    Having({"cmd_prompt"},
           Main(Card \cup {"telnet"}, <<"fence_login">>, {"set", "get"}, "pipe"))

rsa_get_power_status == [on |-> "on", off |-> "off", other |-> "error", garbled |-> "error"]
rsa_set_power_status == Set("on", "off", "ignored")
rsa_main ==
    Having({"cmd_prompt"},
           Main(Card \cup {"secure", "telnet"}, <<"fence_login">>, {"set", "get"}, "pipe"))

ilo_moonshot_get_power_status ==
    [on |-> "on", off |-> "off", other |-> "error", absent |-> "fail"]
ilo_moonshot_set_power_status == Set("on", "off", "ignored")
ilo_moonshot_main ==
    Having({"secure", "cmd_prompt"},
           Main(Card \cup {"secure", "port"}, <<"fence_login">>,
                {"set", "get", "list"}, "pipe"))

cyberpower_ssh_get_power_status == [on |-> "on", off |-> "off", absent |-> "fail"]
cyberpower_ssh_set_power_status == Set("on", "off", "ignored")
cyberpower_ssh_main ==
    Having({"cmd_prompt"},
           Main(Card \cup {"secure", "port"}, <<"fence_login">>,
                {"set", "get", "list"}, "pipe"))

\* The dialogue has to run to its end, or an expected text times out.
rsb_set_power_status == Set("on", "off", "raise")
rsb_get_power_status == [on |-> "on", off |-> "off", garbled |-> "raise"]
rsb_main ==
    Having({"cmd_prompt", "ipport_unless_ssh"},
           Main(Card \cup {"secure", "telnet"}, <<"fence_login">>, {"set", "get"}, "pipe"))

\* Whatever is not the eighth word "Disabled" of the port's line is on.
brocade_get_power_status == [Disabled |-> "off", Online |-> "on", other |-> "on", absent |-> "raise"]
brocade_set_power_status == Set("on", "off", "ignored")

\* Mutant: the port is resolved by main, once.
brocade_main_once ==
    Having({"cmd_prompt"},
           Main(Card \cup {"secure", "port", "fabric_fencing", "telnet"},
                <<"check_plug", "fence_login">>, {"set", "get", "list"}, "pipe"))
brocade_main ==
    Having({"cmd_prompt"},
           Main(Card \cup {"secure", "port", "fabric_fencing", "telnet"},
                <<"fence_login">>, {"set", "get", "list"}, "pipe"))

ilo_ssh_get_power_status == [enabled |-> "on", disabled |-> "off", other |-> "off", garbled |-> "raise"]
ilo_ssh_set_power_status == Set("on", "off", "ignored")
ilo_ssh_reboot_cycle == Cycled("true", "true")
ilo_ssh_main ==
    Having({"cmd_prompt"},
           Main(Card \cup {"secure", "method", "telnet"}, <<"fence_login", "SMCLP">>,
                {"set", "get", "cycle"}, "pipe"))

\* The command is sent and its answer is not read.
raritan_set_power_status == Set("on", "off", "ignored")
raritan_get_power_status == [on |-> "on", off |-> "off", garbled |-> "raise"]
raritan_main ==
    Having({"ipport"},
           Main({"ipaddr", "login", "passwd", "port", "telnet"},
                <<"run_delay", "open", "monitor_returns">>, {"set", "get"}, "pipe"))

netio_get_power_status ==
    [on |-> "on", off |-> "off", reboot |-> "error", manual |-> "error",
     timer |-> "error", garbled |-> "raise"]
netio_set_power_status == Set("on", "off", "raise")
netio_get_outlet_list == [on |-> "unknown", off |-> "unknown", garbled |-> "none"]
netio_main ==
    Having({"ipport"},
           Main({"ipaddr", "login", "passwd", "port", "telnet"}, <<"run_delay", "open">>,
                {"set", "get", "list"}, "pipe"))

\* The list is read word by word, so "no state" becomes "no".
virsh_get_outlets_status ==
    [running |-> "on", blocked |-> "on", idle |-> "on", no_state |-> "off",
     paused |-> "on", shut_off |-> "off", in_shutdown |-> "off",
     crashed |-> "off", pmsuspended |-> "off"]
virsh_get_power_status ==
    [running |-> "on", blocked |-> "on", idle |-> "on", no_state |-> "on",
     paused |-> "on", shut_off |-> "off", in_shutdown |-> "off",
     crashed |-> "off", pmsuspended |-> "off",
     absent |-> "missing", refused |-> "fail", garbled |-> "off"]
virsh_set_power_status == Set("on", "off", "ignored")
virsh_main ==
    Having({"secure", "cmd_prompt"},
           Main(Card \cup {"secure", "port", "sudo", "missing_as_off"},
                <<"fence_login">>, {"set", "get", "list"}, "pipe"))

\* The pin is toggled; nothing tells whether a cable is there.
rcd_serial_reboot_device == Cycled("true", "true")
rcd_serial_main ==
    Main({"serial_port", "no_status", "no_password", "no_login", "method", "no_on", "no_off"},
         <<"time_sleep", "open">>, {"cycle"}, "pipe")

ldom_get_power_status == [bound |-> "off", active |-> "on", other |-> "on", absent |-> "fail"]
ldom_set_power_status == Set("on", "off", "ignored")
ldom_main ==
    Having({"secure", "cmd_prompt"},
           Main(Card \cup {"secure", "port"}, <<"fence_login">>,
                {"set", "get", "list"}, "pipe"))

bladecenter_get_power_status ==
    [on |-> "on", off |-> "off", other |-> "error", absent |-> "missing"]
bladecenter_set_power_status == Set("on", "off", "ignored")
bladecenter_get_blades_list == [on |-> "unknown", off |-> "unknown"]
bladecenter_main ==
    Having({"cmd_prompt"},
           Main(Card \cup {"secure", "port", "missing_as_off", "telnet"},
                <<"fence_login">>, {"set", "get", "list"}, "pipe"))

\* The node is off when it does not answer pings over the crossed cable.
crosslink_get_power_status == [answers |-> "on", silent |-> "off", garbled |-> "off"]
crosslink_set_power_status == Set("exit", "exit", "fail")
crosslink_main == Main({"crosscableip", "timeout", "no_password", "no_login", "port"},
                       <<"run_delay">>, {"set", "get"}, "none")

hds_cb_get_power_status == [on |-> "on", off |-> "off", other |-> "error", absent |-> "error"]
hds_cb_set_power_status == Set("on", "off", "raise")
hds_cb_get_blades_list == [on |-> "unknown", off |-> "unknown"]
hds_cb_main ==
    Having({"cmd_prompt"},
           Main(Card \cup {"secure", "port", "missing_as_off", "telnet"},
                <<"fence_login">>, {"set", "get", "list"}, "pipe"))

\* A blade is On or Off; a partition of a superdome is on unless it is DOWN.
hpblade_get_power_status ==
    [on |-> "on", off |-> "off", other |-> "error",
     UP |-> "on", DOWN |-> "off", partition_other |-> "on",
     garbled |-> "missing", absent |-> "missing"]
hpblade_set_power_status == Set("on", "off", "ignored")
hpblade_get_instances_list == [on |-> "on", off |-> "off", other |-> "unknown",
                               UP |-> "unknown", DOWN |-> "unknown", partition_other |-> "unknown"]
hpblade_main ==
    Having({"cmd_prompt"},
           Main(Card \cup {"secure", "port", "missing_as_off", "telnet"},
                <<"fence_login", "get_enclosure_type">>, {"set", "get", "list"}, "pipe"))

\* Whatever is not S0 is off: a machine asleep (S3), and any other two letters.
amt_get_power_status ==
    [S0 |-> "on", S3 |-> "off", S5 |-> "off", other |-> "off", garbled |-> "error"]
amt_set_power_status == Set("on", "off", "ignored")
amt_reboot_cycle == Cycled("true", "false")
amt_main ==
    Having({"ipport"},
           Main({"ipaddr", "no_login", "passwd", "boot_option", "no_port", "sudo",
                "amttool_path", "method"},
                <<"run_delay", "is_executable">>, {"set", "get", "cycle"}, "none"))

ironic_get_power_status == [on |-> "on", off |-> "off", other |-> "error", garbled |-> "error"]
ironic_set_power_status == Set("on", "off", "ignored")
ironic_get_devices_list == ironic_get_power_status
ironic_main == Main({"login", "passwd", "port", "auth-url", "tenant-name", "openstack-path"},
                    <<"run_delay", "is_executable">>, {"set", "get", "list"}, "none")

\* A machine that is not in the second answer, of running ones, is off.
vbox_get_outlets_status == [running |-> "on", poweroff |-> "off", other |-> "off"]
vbox_get_power_status ==
    [running |-> "on", poweroff |-> "off", other |-> "off", absent |-> "missing"]
vbox_set_power_status == Set("on", "off", "ignored")
vbox_main ==
    Having({"secure", "cmd_prompt"},
           Main(Card \cup {"secure", "port", "sudo", "missing_as_off",
                "vboxmanage_path", "host_os"},
                <<"fence_login">>, {"set", "get", "list"}, "pipe"))

drac5_get_power_status ==
    [on |-> "on", off |-> "off", powering_on |-> "on", powering_off |-> "on",
     garbled |-> "raise", absent |-> "raise"]
drac5_set_power_status == Set("on", "off", "ignored")
drac5_get_list_devices == [on |-> "on", off |-> "off"]
drac5_main ==
    Having({"cmd_prompt"},
           Main(Card \cup {"secure", "drac_version", "port", "no_port", "telnet"},
                <<"fence_login", "drac_version">>, {"set", "get", "list"}, "pipe"))

\* The state that was asked for, not the one that the link is in.
sanbox2_get_power_status == [online |-> "on", offline |-> "off", garbled |-> "raise"]
sanbox2_set_power_status == Set("on", "off", "ignored")
sanbox2_get_list_devices == [online |-> "on", offline |-> "off"]
sanbox2_main ==
    Having({"cmd_prompt"},
           Main({"fabric_fencing", "ipaddr", "login", "passwd", "cmd_prompt", "port",
                "telnet"},
                <<"fence_login", "admin_start">>, {"set", "get", "list"}, "pipe"))

ilo_get_power_status == [on |-> "on", off |-> "off", other |-> "error", garbled |-> "raise"]

\* An iLO2 gets the same command for on and for off, which toggles the power (up
\* to firmware 1.29 without saying so).  Others are asked for a state before
\* RIBCL 2.21; then for a press of the button, or to hold it until they are off.
ilo_set_power_status(firmware) ==
    CASE firmware = "iLO2" -> Set("toggle", "toggle", "ignored")
      [] firmware = "RIBCL_200" -> Set("on", "off", "ignored")
      [] OTHER -> Set("toggle", "off", "ignored")
ilo_main ==
    Having({"ssl"},
           Main({"ipaddr", "login", "passwd", "ssl", "notls", "tls1.0", "ribcl"},
                <<"fence_login", "ribcl_version">>, {"set", "get"}, "pipe"))

\* eps_run_command: a reply other than 200 and a broken connection fail().
eps_eps_run_command == "fail"
eps_get_power_status ==
    [on |-> "on", off |-> "off", absent |-> "fail", refused |-> eps_eps_run_command]
eps_set_power_status == Set("on", "off", eps_eps_run_command)
eps_main == Main({"ipaddr", "login", "passwd", "no_login", "no_password", "port", "hidden_page", "web"},
                 <<"run_delay">>, {"set", "get", "list"}, "none")

\* "Not Activated" and every word that is not one of the four is off.
lpar__normalize_status ==
    [Running |-> "on", Open_Firmware |-> "on", Shutting_Down |-> "on", Starting |-> "on",
     Not_Activated |-> "off", other |-> "off"]
lpar_get_power_status == lpar__normalize_status @@ [garbled |-> "fail"]
lpar_set_power_status == Set("on", "off", "ignored")
lpar_get_lpar_list == lpar__normalize_status @@ [garbled |-> "fail"]
lpar_main ==
    Having({"secure", "cmd_prompt"},
           Main(Card \cup {"secure", "port", "managed", "hmc_version"},
                <<"managed_given", "validate_all", "fence_login">>,
                {"set", "get", "list"}, "pipe"))

wti_get_plug_status == [on |-> "on", off |-> "off", other |-> "error"]

\* A group is off unless one of its plugs says "on".
wti_get_plug_group_status_from_list ==
    [group_on |-> "on", group_off |-> "off", group_other |-> "off"]
wti_get_plug_group_status == wti_get_plug_group_status_from_list @@ [absent |-> "error"]
wti_get_power_status == wti_get_plug_status @@ wti_get_plug_group_status

\* In a list the status of a group is the name of the group.
wti_get_outlet_list ==
    wti_get_plug_status @@ [w \in DOMAIN wti_get_plug_group_status_from_list |-> "unknown"]
wti_set_power_status == Set("on", "off", "ignored")

\* Without --ssh the first two steps, with it the last one: see Step in AgentRun.
wti_main ==
    Having({"cmd_prompt"},
           Main(Card \cup {"no_login", "no_password", "secure", "port", "telnet"},
                <<"time_sleep", "prompts", "fence_login">>, {"set", "get", "list"}, "pipe"))

\* The menus, and the command line of firmware 5 to 7.
apc_get_power_status  == [on |-> "on", off |-> "off", absent |-> "fail"]
apc_get_power_status5 == [on |-> "on", off |-> "off", absent |-> "fail"]
apc_set_power_status  == Set("on", "off", "raise")
apc_set_power_status5 == Set("on", "off", "ignored")
apc_main ==
    Having({"cmd_prompt"},
           Main(Card \cup {"secure", "port", "switch", "telnet"}, <<"fence_login">>,
                {"set", "get", "list"}, "pipe"))

\* get_power_status serves as the list as well, and needs a plug to return.
cdu_get_power_status == [on |-> "on", off |-> "off", absent |-> "fail"]
cdu_set_power_status == Set("on", "off", "ignored")
cdu_main == Main({"ipaddr", "login", "port", "switch", "passwd", "telnet"},
                 <<"set_prompt", "fence_login", "get_version">>, {"set", "get", "list"}, "pipe")

\* PowerMan: the daemon's client; an exit code that is not 0 is not an error.
powerman_PowerMan == [query |-> [on |-> "on", off |-> "off", other |-> "error",
                                 absent |-> "error", garbled |-> "error"],
                      refused |-> "ignored"]
powerman_get_power_status == powerman_PowerMan.query
powerman_set_power_status == Set("on", "off", powerman_PowerMan.refused)
powerman_main ==
    Having({"ipport"},
           Main({"ipaddr", "no_password", "no_login", "powerman_path"},
                <<"run_delay", "is_executable">>, {"set", "get", "list"}, "none"))

ipmilan_get_power_status == [on |-> "on", off |-> "off", other |-> "error", garbled |-> "error"]
ipmilan_set_power_status == Set("on", "off", "ignored")
ipmilan_reboot_cycle == Cycled("true", "false")

\* "diag" becomes a reboot by cycle, after run_delay has looked at the action.
ipmilan_main ==
    Having({"ipport"},
           Main({"ipaddr", "login", "no_login", "no_password", "passwd", "diag", "lanplus",
                "auth", "cipher", "privlvl", "sudo", "ipmitool_path",
                "ipmitool_timeout", "method", "target", "hexadecimal_kg"},
                <<"run_delay", "is_executable">>, {"set", "get", "cycle"}, "none"))

\* The number of lines of the answer decides whether it is one.
eaton_ssh_get_plug_status == [on |-> "ON", off |-> "OFF", other |-> "ERROR", garbled |-> "fail"]
eaton_ssh_get_power_status ==
    [w \in DOMAIN eaton_ssh_get_plug_status |->
        CASE eaton_ssh_get_plug_status[w] = "ON"    -> "on"
          [] eaton_ssh_get_plug_status[w] = "OFF"   -> "off"
          [] eaton_ssh_get_plug_status[w] = "ERROR" -> "error"
          [] OTHER -> "fail"]
eaton_ssh_set_power_status == Set("on", "off", "ignored")

\* A list of lines is split like a string: an AttributeError.
eaton_ssh_get_plug_names == "raise"
eaton_ssh_get_outlet_list ==
    [on |-> eaton_ssh_get_plug_names, off |-> eaton_ssh_get_plug_names, garbled |-> "fail"]

\* No value is returned, which counts as a failure.
eaton_ssh_reboot_cycle == Cycled("false", "false")
eaton_ssh_main == Main({"secure", "ipaddr", "login", "passwd", "port", "cmd_prompt"},
                       <<"set_ssh", "fence_login">>, {"set", "get", "list", "cycle"}, "pipe")

amt_ws_get_power_status ==
    [on |-> "on", off |-> "off", other |-> "fail", refused |-> "fail", garbled |-> "fail"]
amt_ws_set_power_status == Set("on", "off", "fail")
amt_ws_reboot_cycle == Cycled("true", amt_ws_set_power_status.refused)
amt_ws_main ==
    Having({"ipport"},
           Main({"ipaddr", "no_login", "passwd", "boot_option", "no_port", "method"},
                <<"run_delay">>, {"set", "get", "cycle"}, "none"))

\* A broken connection or answer of the SMAPI server.
zvmip_open_socket == "fail"
zvmip_get_list_of_images == "fail"

\* An image that is not active is off, whether it exists or not.
zvmip_get_power_status ==
    [active |-> "on", not_active |-> "off", absent |-> "off", other |-> "error",
     refused |-> zvmip_open_socket, garbled |-> zvmip_get_list_of_images]

\* An image that is defined and not among the active ones is off.  An error reply
\* to the first query, whose return code is not looked at, has no active images.
zvmip_get_outlet_list ==
    [active |-> "on", not_active |-> "off", error_reply |-> "off",
     refused |-> zvmip_open_socket, garbled |-> zvmip_get_list_of_images]

\* The return code is logged only.
zvmip_set_power_status == Set("on", "off", "ignored")
zvmip_main ==
    Having({"ipport", "ssl"},
           Main({"ipaddr", "login", "passwd", "port", "method", "missing_as_off",
                "inet4_only", "inet6_only", "ssl", "disable_ssl"},
                <<"plug_length", "validate_all", "run_delay">>,
                {"set", "get", "list"}, "none"))

\* The states are read once, before fence_action is called.
raritan_px3_px3_get_outlet_list == [on |-> "on", off |-> "off", other |-> "unknown"]
raritan_px3_px3_get_outlet_group == [on |-> "on", off |-> "off", other |-> "error"]
raritan_px3_get_power_status == raritan_px3_px3_get_outlet_group @@ [absent |-> "fail"]
raritan_px3_set_power_status == Set("on", "off", "raise")
raritan_px3_reboot_cycle == Cycled("false", raritan_px3_set_power_status.refused)
raritan_px3_main ==
    Having({"cmd_prompt", "ipport"},
           Main(Card \cup {"port", "telnet", "secure"},
                <<"fence_login", "plug_found", "monitor_returns">>,
                {"set", "get", "list", "cycle"}, "pipe"))

ShellTable == [
    alom |-> AgentRow(alom_main, alom_get_power_status, alom_set_power_status,
        <<>>, <<>>, "plug"),
    ilo_mp |-> AgentRow(ilo_mp_main, ilo_mp_get_power_status, ilo_mp_set_power_status,
        <<>>, <<>>, "plug"),
    drac |-> AgentRow(drac_main, drac_get_power_status, drac_set_power_status,
        <<>>, <<>>, "plug"),
    rsa |-> AgentRow(rsa_main, rsa_get_power_status, rsa_set_power_status,
        <<>>, <<>>, "plug"),
    ilo_moonshot |-> AgentRow(ilo_moonshot_main, ilo_moonshot_get_power_status, ilo_moonshot_set_power_status,
        ilo_moonshot_get_power_status, <<>>, "plug"),
    cyberpower_ssh |-> AgentRow(cyberpower_ssh_main, cyberpower_ssh_get_power_status, cyberpower_ssh_set_power_status,
        cyberpower_ssh_get_power_status, <<>>, "plug"),
    rsb |-> AgentRow(rsb_main, rsb_get_power_status, rsb_set_power_status,
        <<>>, <<>>, "plug"),
    brocade |-> AgentRow(brocade_main, brocade_get_power_status, brocade_set_power_status,
        brocade_get_power_status, <<>>, "plug"),
    ilo_ssh |-> AgentRow(ilo_ssh_main, ilo_ssh_get_power_status, ilo_ssh_set_power_status,
        <<>>, ilo_ssh_reboot_cycle, "plug"),
    raritan |-> AgentRow(raritan_main, raritan_get_power_status, raritan_set_power_status,
        <<>>, <<>>, "plug"),
    netio |-> AgentRow(netio_main, netio_get_power_status, netio_set_power_status,
        netio_get_outlet_list, <<>>, "plug"),
    virsh |-> AgentRow(virsh_main, virsh_get_power_status, virsh_set_power_status,
        virsh_get_outlets_status, <<>>, "uuid"),
    rcd_serial |-> AgentRow(rcd_serial_main, <<>>, <<>>,
        <<>>, rcd_serial_reboot_device, "plug"),
    ldom |-> AgentRow(ldom_main, ldom_get_power_status, ldom_set_power_status,
        ldom_get_power_status, <<>>, "plug"),
    bladecenter |-> AgentRow(bladecenter_main, bladecenter_get_power_status, bladecenter_set_power_status,
        bladecenter_get_blades_list, <<>>, "plug"),
    crosslink |-> AgentRow(crosslink_main, crosslink_get_power_status, crosslink_set_power_status,
        <<>>, <<>>, "plug"),
    hds_cb |-> AgentRow(hds_cb_main, hds_cb_get_power_status, hds_cb_set_power_status,
        hds_cb_get_blades_list, <<>>, "plug"),
    hpblade |-> AgentRow(hpblade_main, hpblade_get_power_status, hpblade_set_power_status,
        hpblade_get_instances_list, <<>>, "plug"),
    amt |-> AgentRow(amt_main, amt_get_power_status, amt_set_power_status,
        <<>>, amt_reboot_cycle, "plug"),
    ironic |-> AgentRow(ironic_main, ironic_get_power_status, ironic_set_power_status,
        ironic_get_devices_list, <<>>, "uuid"),
    vbox |-> AgentRow(vbox_main, vbox_get_power_status, vbox_set_power_status,
        vbox_get_outlets_status, <<>>, "plug"),
    drac5 |-> AgentRow(drac5_main, drac5_get_power_status, drac5_set_power_status,
        drac5_get_list_devices, <<>>, "plug"),
    sanbox2 |-> AgentRow(sanbox2_main, sanbox2_get_power_status, sanbox2_set_power_status,
        sanbox2_get_list_devices, <<>>, "plug"),
    ilo |-> AgentRow(ilo_main, ilo_get_power_status, ilo_set_power_status("RIBCL_222"),
        <<>>, <<>>, "plug"),
    ilo_old |-> AgentRow(ilo_main, ilo_get_power_status, ilo_set_power_status("RIBCL_200"),
        <<>>, <<>>, "plug"),
    ilo2 |-> AgentRow(ilo_main, ilo_get_power_status, ilo_set_power_status("iLO2"),
        <<>>, <<>>, "plug"),
    eps |-> AgentRow(eps_main, eps_get_power_status, eps_set_power_status,
        eps_get_power_status, <<>>, "plug"),
    lpar |-> AgentRow(lpar_main, lpar_get_power_status, lpar_set_power_status,
        lpar_get_lpar_list, <<>>, "plug"),
    wti |-> AgentRow(wti_main, wti_get_power_status, wti_set_power_status,
        wti_get_outlet_list, <<>>, "plug"),
    apc |-> AgentRow(apc_main, apc_get_power_status, apc_set_power_status,
        apc_get_power_status, <<>>, "plug"),
    apc5 |-> AgentRow(apc_main, apc_get_power_status5, apc_set_power_status5,
        apc_get_power_status5, <<>>, "plug"),
    cdu |-> AgentRow(cdu_main, cdu_get_power_status, cdu_set_power_status,
        [on |-> "fail", off |-> "fail"], <<>>, "plug"),
    powerman |-> AgentRow(powerman_main, powerman_get_power_status, powerman_set_power_status,
        powerman_get_power_status, <<>>, "plug"),
    ipmilan |-> AgentRow(ipmilan_main, ipmilan_get_power_status, ipmilan_set_power_status,
        <<>>, ipmilan_reboot_cycle, "plug"),
    eaton_ssh |-> AgentRow(eaton_ssh_main, eaton_ssh_get_power_status, eaton_ssh_set_power_status,
        eaton_ssh_get_outlet_list, eaton_ssh_reboot_cycle, "plug"),
    amt_ws |-> AgentRow(amt_ws_main, amt_ws_get_power_status, amt_ws_set_power_status,
        <<>>, amt_ws_reboot_cycle, "plug"),
    zvmip |-> AgentRow(zvmip_main, zvmip_get_power_status, zvmip_set_power_status,
        zvmip_get_outlet_list, <<>>, "plug"),
    raritan_px3 |-> AgentRow(raritan_px3_main, raritan_px3_get_power_status, raritan_px3_set_power_status,
        raritan_px3_px3_get_outlet_list, raritan_px3_reboot_cycle, "once")]
=============================================================================
