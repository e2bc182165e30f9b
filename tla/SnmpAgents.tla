----------------------------- MODULE SnmpAgents -----------------------------
(***************************************************************************)
(* The agents of power strips, switches and blade chassis that talk SNMP   *)
(* through the library fencing_snmp.  AgentTable says how to read the      *)
(* tables.  "UP" and "DOWN" stand for the numbers of the device's MIB.     *)
(***************************************************************************)
EXTENDS AgentTable

\* FencingSnmp.run_command: what becomes of a command line tool that fails.
fencing_snmp_run_command == [timeout |-> "fail", refused |-> "fail"]

\* FencingSnmp.get takes two fields of the last line of the tool's output.
fencing_snmp_get == fencing_snmp_run_command @@ [garbled |-> "raise"]
fencing_snmp_set == fencing_snmp_run_command.refused

Snmp == {"ipaddr", "login", "passwd", "no_login", "no_password", "port", "snmp_version", "snmp"}

\* Every number that is not the one for "on" is taken for off.
UpOrOff == [UP |-> "on", DOWN |-> "off", other |-> "off"] @@ fencing_snmp_get

\* The walk of the names gives no status.
NoStatus == [UP |-> "unknown", DOWN |-> "unknown"] @@ fencing_snmp_run_command

\* FencingSnmp.__init__ is where the delay is taken.
SnmpMain(device_opt) ==
    Main(device_opt, <<"FencingSnmp">>, {"set", "get", "list"}, "none")

emerson_get_power_status == UpOrOff
emerson_set_power_status == Set("on", "off", fencing_snmp_set)
emerson_get_outlets_status ==
    [UP |-> "on", DOWN |-> "off", other |-> "off"] @@ fencing_snmp_run_command
emerson_main == SnmpMain(Snmp)

ibmblade_get_power_status == UpOrOff
ibmblade_set_power_status == Set("on", "off", fencing_snmp_set)
ibmblade_get_outlets_status ==
    [UP |-> "on", DOWN |-> "off", other |-> "off"] @@ fencing_snmp_run_command
ibmblade_main == SnmpMain(Snmp)

intelmodular_get_power_status == UpOrOff
intelmodular_set_power_status == Set("on", "off", fencing_snmp_set)
intelmodular_get_outlets_status ==
    [UP |-> "on", DOWN |-> "off", other |-> "off"] @@ fencing_snmp_run_command
intelmodular_main == SnmpMain(Snmp)

\* The port number is worked out by main, once.
cisco_mds_cisco_port2oid == "check_plug"
cisco_mds_get_power_status == UpOrOff
cisco_mds_set_power_status == Set("on", "off", fencing_snmp_set)
cisco_mds_get_outlets_status == NoStatus
cisco_mds_main == Main(Snmp \cup {"fabric_fencing"}, <<cisco_mds_cisco_port2oid, "FencingSnmp">>,
                       {"set", "get", "list"}, "none")

\* The port that belongs to a plug is kept in a global variable once found.
ifmib_port2index == "first"
ifmib_get_power_status == UpOrOff @@ [absent |-> "fail"]
ifmib_set_power_status == Set("on", "off", fencing_snmp_set)
ifmib_get_outlets_status == NoStatus
ifmib_main == SnmpMain(Snmp \cup {"fabric_fencing"})

ipdu_ipdu_resolv_port_id == "first"
ipdu_get_power_status == UpOrOff @@ [absent |-> "fail"]
ipdu_set_power_status == Set("on", "off", fencing_snmp_set)
ipdu_get_outlets_status == NoStatus
ipdu_main == SnmpMain(Snmp)

apc_snmp_apc_resolv_port_id == "first"
apc_snmp_get_power_status == UpOrOff @@ [absent |-> "fail"]
apc_snmp_set_power_status == Set("on", "off", fencing_snmp_set)
apc_snmp_get_outlets_status == NoStatus
apc_snmp_main == SnmpMain(Snmp)

\* A device that no class knows is a KeyError.
eaton_snmp_eaton_set_device == [known |-> "class", other |-> "raise"]
eaton_snmp_eaton_resolv_port_id == "first"
eaton_snmp_get_power_status ==
    [UP |-> "on", DOWN |-> "off", other |-> "error", absent |-> "fail",
     unknown_device |-> eaton_snmp_eaton_set_device.other, garbled |-> "error"]
        @@ fencing_snmp_run_command
eaton_snmp_set_power_status == Set("on", "off", fencing_snmp_set)
eaton_snmp_get_outlets_status ==
    NoStatus @@ [unknown_device |-> eaton_snmp_eaton_set_device.other]
eaton_snmp_main == SnmpMain(Snmp)

\* Mutant: the port of the first plug is kept, as in other agents.
lindypdu_lpdu_resolv_port_id_kept == "first"
lindypdu_lpdu_resolv_port_id == "plug"
lindypdu_get_power_status ==
    [UP |-> "on", DOWN |-> "off", other |-> "error", absent |-> "fail", garbled |-> "error"]
        @@ fencing_snmp_run_command

\* The states of all outlets are read, one is changed, all are written.
lindypdu_set_power_status == Set("on", "off", fencing_snmp_set)
lindypdu_get_outlets_status ==
    [UP |-> "on", DOWN |-> "off", other |-> "off"] @@ fencing_snmp_run_command
lindypdu_main == SnmpMain(Snmp \cup {"switch"})

SnmpTable == [
    emerson |-> AgentRow(emerson_main, emerson_get_power_status, emerson_set_power_status,
        emerson_get_outlets_status, <<>>, "plug"),
    ibmblade |-> AgentRow(ibmblade_main, ibmblade_get_power_status, ibmblade_set_power_status,
        ibmblade_get_outlets_status, <<>>, "plug"),
    intelmodular |-> AgentRow(intelmodular_main, intelmodular_get_power_status, intelmodular_set_power_status,
        intelmodular_get_outlets_status, <<>>, "plug"),
    cisco_mds |-> AgentRow(cisco_mds_main, cisco_mds_get_power_status, cisco_mds_set_power_status,
        cisco_mds_get_outlets_status, <<>>, "plug"),
    ifmib |-> AgentRow(ifmib_main, ifmib_get_power_status, ifmib_set_power_status,
        ifmib_get_outlets_status, <<>>, ifmib_port2index),
    ipdu |-> AgentRow(ipdu_main, ipdu_get_power_status, ipdu_set_power_status,
        ipdu_get_outlets_status, <<>>, ipdu_ipdu_resolv_port_id),
    apc_snmp |-> AgentRow(apc_snmp_main, apc_snmp_get_power_status, apc_snmp_set_power_status,
        apc_snmp_get_outlets_status, <<>>, apc_snmp_apc_resolv_port_id),
    eaton_snmp |-> AgentRow(eaton_snmp_main, eaton_snmp_get_power_status, eaton_snmp_set_power_status,
        eaton_snmp_get_outlets_status, <<>>, eaton_snmp_eaton_resolv_port_id),
    lindypdu |-> AgentRow(lindypdu_main, lindypdu_get_power_status, lindypdu_set_power_status,
        lindypdu_get_outlets_status, <<>>, lindypdu_lpdu_resolv_port_id)]
=============================================================================
