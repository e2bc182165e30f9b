---------------------------- MODULE CloudAgents ----------------------------
(***************************************************************************)
(* The agents that talk HTTP: management controllers, virtualization       *)
(* managers and clouds.  AgentTable says how to read the tables.           *)
(***************************************************************************)
EXTENDS AgentTable

Web == {"ipaddr", "login", "passwd", "ssl", "notls", "web", "port"}

\* A reply that is not JSON fails; the status code of a reply is not looked at.
redfish_send_get_request == [garbled |-> "fail", timeout |-> "fail"]
redfish_send_post_request == [refused |-> "ignored", timeout |-> "fail"]

\* Whatever is not "Off" is on.
redfish_get_power_status ==
    [off |-> "off", on |-> "on", other |-> "on", refused |-> "fail"] @@ redfish_send_get_request
redfish_set_power_status == Set("on", "off", redfish_send_post_request.refused)

\* Called with --action diag only: an NMI, reported as taken unless it fails().
redfish_set_power_status_diag == Cycled("true", redfish_send_post_request.timeout)
redfish_find_systems_resource == "find_systems_resource"

\* Mutant: no run_delay.
redfish_main_hasty ==
    Having({"ssl"},
           Main({"ipaddr", "login", "passwd", "redfish-uri", "systems-uri", "ssl", "diag"},
                <<redfish_find_systems_resource>>, {"set", "get"}, "none"))
redfish_main ==
    Having({"ssl"},
           Main({"ipaddr", "login", "passwd", "redfish-uri", "systems-uri", "ssl", "diag"},
                <<"run_delay", redfish_find_systems_resource>>, {"set", "get"}, "none"))

\* The status code of a reply is not looked at.
rhevm_send_command == [refused |-> "ignored", timeout |-> "raise"]

\* A machine found without a state is taken to be off.
rhevm_get_power_status ==
    [down |-> "off", up |-> "on", other |-> "on", no_status |-> "off",
     absent |-> "fail", refused |-> "fail", timeout |-> rhevm_send_command.timeout]

\* The machine is the one of the last answer, options["id"].
rhevm_set_power_status == Set("on", "off", rhevm_send_command.refused)
rhevm_get_list == [down |-> "unknown", up |-> "unknown", no_status |-> "none", other |-> "unknown",
                   timeout |-> rhevm_send_command.timeout]
rhevm_main == Main(Web \cup {"use_cookies", "cookie_file", "api_version", "api_path",
                             "disable_http_filter"},
                   <<"run_delay">>, {"set", "get", "list"}, "none")

cisco_ucs_send_command == [refused |-> "ignored", timeout |-> "raise"]

\* A blade that is gone, or does not match its profile, is off.
cisco_ucs_get_power_status ==
    [on |-> "on", off |-> "off", other |-> "off", missing |-> "off", mismatch |-> "off",
     absent |-> "missing", refused |-> "missing", garbled |-> "fail",
     timeout |-> cisco_ucs_send_command.timeout]
cisco_ucs_set_power_status == Set("on", "off", cisco_ucs_send_command.refused)
cisco_ucs_get_list == [on |-> "unknown", off |-> "unknown", refused |-> "none",
                       timeout |-> cisco_ucs_send_command.timeout]
cisco_ucs_logout == "atexit"
cisco_ucs_main == Main(Web \cup {"suborg", "missing_as_off"}, <<"run_delay", "open">>,
                       {"set", "get", "list"}, cisco_ucs_logout)

\* Every reply other than 200 raises.
vmware_rest_send_command == "raise"
vmware_rest_get_power_status ==
    [POWERED_ON |-> "on", POWERED_OFF |-> "off", SUSPENDED |-> "off", other |-> "raise",
     absent |-> "fail", refused |-> "fail", timeout |-> "fail"]
vmware_rest_set_power_status == Set("on", "off", "fail")
vmware_rest_get_list ==
    [POWERED_ON |-> "on", POWERED_OFF |-> "off", SUSPENDED |-> "off", other |-> "raise",
     refused |-> "fail", timeout |-> "fail"]
vmware_rest_connect == "open"
vmware_rest_disconnect == "atexit"
vmware_rest_main == Main(Web \cup {"api_path", "filter"}, <<"run_delay", vmware_rest_connect>>,
                         {"set", "get", "list"}, vmware_rest_disconnect)

vmware_vcloud_send_command == "raise"
vmware_vcloud_get_power_status ==
    [POWERED_ON |-> "on", POWERED_OFF |-> "off", SUSPENDED |-> "off", other |-> "error",
     absent |-> "fail", refused |-> "fail", timeout |-> "fail"]
vmware_vcloud_set_power_status == Set("on", "off", "fail")
vmware_vcloud_get_list ==
    [POWERED_ON |-> "on", POWERED_OFF |-> "off", SUSPENDED |-> "off", other |-> "raise",
     refused |-> vmware_vcloud_send_command]
vmware_vcloud_connect == "open"
vmware_vcloud_disconnect == "atexit"
vmware_vcloud_main == Main(Web \cup {"api_path"}, <<"run_delay", vmware_vcloud_connect>>,
                           {"set", "get", "list"}, vmware_vcloud_disconnect)

\* Every error of the connection, the reply or its JSON is swallowed.
pve_send_cmd == "error"
pve_get_ticket == "open"
pve_get_power_status ==
    [running |-> "on", stopped |-> "off", other |-> "error", absent |-> pve_send_cmd,
     refused |-> pve_send_cmd, timeout |-> pve_send_cmd]
pve_set_power_status == Set("on", "off", "ignored")
pve_reboot_cycle == Cycled("true", "false")
pve_get_outlet_list == [running |-> "unknown", stopped |-> "unknown", other |-> "unknown",
                        absent |-> "none", refused |-> "raise"]
pve_main ==
    Having({"login", "ipport", "ssl"},
           Main({"ipaddr", "login", "passwd", "ssl", "web", "port", "pve_node",
                "pve_node_auto", "node_name", "vmtype", "method"},
                <<"run_delay", "node_given", pve_get_ticket>>,
                {"set", "get", "list", "cycle"}, "left"))

\* Every reply other than 200 is no reply.
docker_send_cmd == [refused |-> "error", timeout |-> "error", garbled |-> "error"]
docker_get_power_status == [running |-> "on", created |-> "off", exited |-> "off"] @@ docker_send_cmd
docker_set_power_status == Set("on", "off", "ignored")

\* The callback deletes conn and uses it once the container has restarted.
docker_reboot_cycle == Cycled("raise", "raise")

\* A container that was never started has no status "Exited".
docker_get_list == [running |-> "on", created |-> "on", exited |-> "off",
                    refused |-> "raise", timeout |-> "raise", garbled |-> "raise"]
docker_main ==
    Having({"ssl"},
           Main({"ipaddr", "no_password", "no_login", "port", "method", "web", "tlscert",
                "tlskey", "tlscacert", "ssl", "api_version", "unix_socket", "disable_ssl"},
                <<"run_delay">>, {"set", "get", "list", "cycle"}, "none"))

\* A conflict is retried six times and fails then; other codes are logged only.
ecloud_set_power_fn == Set("on", "off", "fail")
ecloud_get_power_fn == [Online |-> "on", Offline |-> "off", other |-> "error",
                        refused |-> "error", timeout |-> "raise"]

\* The value of fence_action is dropped: no "return 2" for a machine that is off.
ecloud_main == Main({"apikey", "port", "no_login", "no_password"},
                    <<"run_delay">>, {"set", "get"}, "dropped")

\* Every reply other than 200 raises.
shelly_gen2_send_command == "raise"
shelly_gen2_get_power_status ==
    [on |-> "on", off |-> "off", absent |-> "fail", refused |-> "fail", timeout |-> "fail",
     garbled |-> shelly_gen2_send_command]
shelly_gen2_set_power_status == Set("on", "off", "fail")
shelly_gen2_connect == "open"
shelly_gen2_main == Main({"ipaddr", "passwd", "ssl", "notls", "web", "port"},
                         <<"run_delay", shelly_gen2_connect>>, {"set", "get"}, "none")

\* A machine on its way up, or of a node out of reach, is taken for off.
skalar_get_power_status ==
    [RUNNING |-> "on", PAUSED |-> "on", STOPPING |-> "on", STOPPED |-> "off",
     SUSPENDED |-> "off", ERROR |-> "off", DELETED |-> "off", CREATING |-> "off",
     FAILED_TO_CREATE |-> "off", NODE_OFFLINE |-> "off", STARTING |-> "off",
     other |-> "raise", absent |-> "raise", refused |-> "raise"]
skalar_get_vm_id == "raise"
skalar_vm_task(graceful) ==
    [off |-> IF graceful THEN "soft" ELSE "off", refused |-> "raise"]
skalar_set_power_status(graceful) ==
    Set("on", skalar_vm_task(graceful).off, skalar_vm_task(graceful).refused)
skalar_get_list == [RUNNING |-> "unknown", STOPPED |-> "unknown", other |-> "unknown",
                    refused |-> "raise"]
skalar_authorize_and_get_cookie == "open"
skalar_logout == "atexit"
skalar_main == Main(Web \cup {"verbose", "graceful", "force"},
                    <<"run_delay", skalar_authorize_and_get_cookie>>,
                    {"set", "get", "list"}, skalar_logout)

\* A plug that is no server's name is looked for among the addresses of the
\* first page of servers.
hetzner_cloud_send_request == [refused |-> "raise", timeout |-> "raise"]
hetzner_cloud_get_server == [absent |-> "fail", refused |-> "fail", timeout |-> "fail"]
hetzner_cloud_get_power_status ==
    [off |-> "off", running |-> "on", other |-> "on"] @@ hetzner_cloud_get_server
hetzner_cloud_set_power_status == Set("on", "off", "fail")
hetzner_cloud_get_list ==
    [off |-> "off", running |-> "on", other |-> "on", refused |-> "fail", timeout |-> "fail"]
hetzner_cloud_connect == "open"
hetzner_cloud_main == Main({"api_url", "api_token", "no_password", "port", "web"},
                           <<"run_delay", hetzner_cloud_connect>>,
                           {"set", "get", "list"}, "none")

CloudTable == [
    redfish |-> AgentRow(redfish_main, redfish_get_power_status, redfish_set_power_status,
        <<>>, redfish_set_power_status_diag, "plug"),
    rhevm |-> AgentRow(rhevm_main, rhevm_get_power_status, rhevm_set_power_status,
        rhevm_get_list, <<>>, "last"),
    cisco_ucs |-> AgentRow(cisco_ucs_main, cisco_ucs_get_power_status, cisco_ucs_set_power_status,
        cisco_ucs_get_list, <<>>, "plug"),
    vmware_rest |-> AgentRow(vmware_rest_main, vmware_rest_get_power_status, vmware_rest_set_power_status,
        vmware_rest_get_list, <<>>, "last"),
    vmware_vcloud |-> AgentRow(vmware_vcloud_main, vmware_vcloud_get_power_status, vmware_vcloud_set_power_status,
        vmware_vcloud_get_list, <<>>, "plug"),
    pve |-> AgentRow(pve_main, pve_get_power_status, pve_set_power_status,
        pve_get_outlet_list, pve_reboot_cycle, "plug"),
    docker |-> AgentRow(docker_main, docker_get_power_status, docker_set_power_status,
        docker_get_list, docker_reboot_cycle, "plug"),
    ecloud |-> AgentRow(ecloud_main, ecloud_get_power_fn, ecloud_set_power_fn,
        <<>>, <<>>, "plug"),
    shelly_gen2 |-> AgentRow(shelly_gen2_main, shelly_gen2_get_power_status, shelly_gen2_set_power_status,
        <<>>, <<>>, "plug"),
    skalar |-> AgentRow(skalar_main, skalar_get_power_status, skalar_set_power_status(FALSE),
        skalar_get_list, <<>>, "plug"),
    skalar_graceful |-> AgentRow(skalar_main, skalar_get_power_status, skalar_set_power_status(TRUE),
        skalar_get_list, <<>>, "plug"),
    hetzner_cloud |-> AgentRow(hetzner_cloud_main, hetzner_cloud_get_power_status, hetzner_cloud_set_power_status,
        hetzner_cloud_get_list, <<>>, "plug")]
=============================================================================
