----------------------------- MODULE VmAgents -----------------------------
(***************************************************************************)
(* The agents of virtual machines and partitions that go through a client  *)
(* library of a hypervisor manager or a cloud.  AgentTable says how to     *)
(* read the tables.                                                        *)
(***************************************************************************)
EXTENDS AgentTable

\* Errors of the connection, the code and the JSON of a reply all fail().
ovm_send_command == [refused |-> "fail", timeout |-> "fail", garbled |-> "fail", absent |-> "fail"]
ovm_get_power_status ==
    [RUNNING |-> "on", STOPPED |-> "off", SUSPENDED |-> "off", other |-> "error"] @@ ovm_send_command

\* Waits for the job; a job that fails or is late, and a status that is not
\* the one asked for, is a False.
ovm_sync_set_power_status == Set("on", "off", ovm_send_command.refused)
ovm_get_outlet_list ==
    [RUNNING |-> "on", STOPPED |-> "off", SUSPENDED |-> "off", other |-> "unknown"] @@ ovm_send_command
ovm_validate_input == "validate_input"
ovm_main ==
    Having({"ipport"},
           Main({"ipaddr", "ipport", "login", "no_login", "passwd", "no_password", "port",
                "ssl", "ssl_client_certificate_file"},
                <<ovm_validate_input, "run_delay">>, {"sync", "get", "list"}, "none"))

\* By --uuid when there is one; a name that no or several machines have raises.
xenapi_return_vm_reference == "uuid"
xenapi_get_power_fn == [Halted |-> "off", Running |-> "on", other |-> "on",
                        absent |-> "error", refused |-> "error", timeout |-> "error"]
xenapi_set_power_fn == Set("on", "off", "ignored")
xenapi_get_outlet_list == [Halted |-> "unknown", Running |-> "unknown", other |-> "unknown",
                           refused |-> "none", timeout |-> "none"]
xenapi_connect_and_login == "password_login"
xenapi_main == Main({"login", "passwd", "port", "no_login", "no_password", "session_url", "web"},
                    <<"run_delay", xenapi_connect_and_login>>, {"set", "get", "list"}, "left")

vmware_vmware_run_command == [refused |-> "fail", timeout |-> "fail"]
vmware_vmware_get_outlets_vi ==
    [poweredOn |-> "on", poweredOff |-> "off", other |-> "off"] @@ vmware_vmware_run_command
vmware_vmware_get_outlets_vix ==
    [poweredOn |-> "on", poweredOff |-> "off", other |-> "off"] @@ vmware_vmware_run_command

\* Server 1 lists the machines that run: whatever it does not list is off.
vmware_get_power_status(vmware_type) ==
    IF vmware_type = "server1"
    THEN vmware_vmware_get_outlets_vix @@ [absent |-> "off"]
    ELSE vmware_vmware_get_outlets_vi @@ [absent |-> "fail"]
vmware_set_power_status == Set("on", "off", vmware_vmware_run_command.refused)
vmware_get_outlets_status == vmware_vmware_get_outlets_vi
vmware_vmware_check_vmware_type == "vmware_type"
vmware_vmware_is_supported_vmrun_version == "vmrun_version"

\* The first command of a callback reads --password; an identity file will not do.
vmware_vmware_prepare_command == "prepare_command"
vmware_main ==
    Having({"secure"},
           Main({"ipaddr", "login", "passwd", "secure", "exec", "vmware_type",
                "vmware_datacenter"},
                <<"run_delay", vmware_vmware_check_vmware_type,
                vmware_vmware_is_supported_vmrun_version, vmware_vmware_prepare_command>>,
                {"set", "get", "list"}, "none"))

\* The first plug that is resolved sets --uuid, which the next plugs keep.
vmware_soap_get_power_status ==
    [poweredOn |-> "on", poweredOff |-> "off", suspended |-> "off", other |-> "off",
     absent |-> "fail", refused |-> "fail", timeout |-> "raise"]
vmware_soap_set_power_status == Set("on", "off", "fail")
vmware_soap_process_results ==
    [poweredOn |-> "unknown", poweredOff |-> "unknown", suspended |-> "unknown",
     other |-> "unknown", refused |-> "fail", timeout |-> "raise"]
vmware_soap_soap_login == <<"run_delay", "open">>
vmware_soap_logout == "atexit"
vmware_soap_main == Main({"ipaddr", "login", "passwd", "web", "ssl", "notls", "port"},
                         vmware_soap_soap_login, {"set", "get", "list"}, vmware_soap_logout)

\* A machine without an instance is off; one that does not exist fails.
kubevirt_translate_status == [Running |-> "on", other |-> "error"]
kubevirt_get_power_status == kubevirt_translate_status @@
    [not_instantiated |-> "off", absent |-> "fail", refused |-> "fail", timeout |-> "fail"]
kubevirt_virtctl_vm_action == "raise"
kubevirt_set_power_status == Set("on", "off", "fail")
kubevirt_get_nodes_list == [Running |-> "unknown", not_instantiated |-> "unknown",
                            other |-> "unknown", refused |-> "none", timeout |-> "none"]
kubevirt_main == Main({"port", "namespace", "kubeconfig", "ssl_insecure", "no_password", "apiversion"},
                      <<"run_delay", "kubeconfig">>, {"set", "get", "list"}, "none")

\* A token that has expired since connect: renewing it uses an unknown name.
ibm_vpc_send_command == [refused |-> "raise", timeout |-> "raise", expired |-> "raise"]
ibm_vpc_get_power_status ==
    [running |-> "on", stopped |-> "off", starting |-> "error", stopping |-> "error",
     restarting |-> "error", pending |-> "error", deleting |-> "error", failed |-> "error",
     other |-> "fail", absent |-> "fail", refused |-> "fail", timeout |-> "fail", expired |-> "fail"]
ibm_vpc_set_power_status == Set("on", "off", "fail")
ibm_vpc_get_list ==
    [running |-> "on", stopped |-> "off", starting |-> "unknown", stopping |-> "unknown",
     other |-> "raise", refused |-> "none", timeout |-> "none", expired |-> "none"]
ibm_vpc_connect == "open"
ibm_vpc_main == Main({"apikey", "region", "proxy", "limit", "token_file", "port", "no_password"},
                     <<"run_delay", "key_file", ibm_vpc_connect>>, {"set", "get", "list"}, "none")

\* A failure leaves a placeholder for the token, and the commands are refused.
ibm_powervs_get_token == "run_delay"
ibm_powervs_send_command == [refused |-> "raise", timeout |-> "raise"]
ibm_powervs_get_list ==
    [ACTIVE |-> "on", SHUTOFF |-> "off", HARD_REBOOT |-> "on", SOFT_REBOOT |-> "on",
     ERROR |-> "unknown", other |-> "unknown", refused |-> "none", timeout |-> "none"]

\* A word that the table does not hold is looked up again in the list.
ibm_powervs_get_power_status ==
    [ACTIVE |-> "on", SHUTOFF |-> "off", HARD_REBOOT |-> "on", SOFT_REBOOT |-> "on",
     ERROR |-> "error", other |-> "error", absent |-> "raise"] @@ ibm_powervs_send_command
ibm_powervs_set_power_status == Set("on", "off", "fail")
ibm_powervs_reboot_cycle == Cycled("true", "unless_off")
ibm_powervs_main == Main({"token", "crn", "instance", "region", "api-type", "proxy", "port",
                          "no_password", "method"},
                         <<ibm_powervs_get_token>>, {"set", "get", "list", "cycle"}, "none")

\* _request: a code that is not expected and a body that is no JSON raise.
ibmz__request == [refused |-> "raise", timeout |-> "raise", garbled |-> "raise"]
ibmz__get_partition == [absent |-> "raise"] @@ ibmz__request

\* Whatever is not the one state for "on" of the mode is off.
ibmz_partition_status == [on |-> "on", off |-> "off", other |-> "off"] @@ ibmz__get_partition
ibmz_partition_list == [on |-> "on", off |-> "off", other |-> "off"] @@ ibmz__request
ibmz_parse_plug == "fail"
ibmz_get_power_status == ibmz_partition_status @@ [bad_plug |-> ibmz_parse_plug]

\* A classic partition is activated, waited for and loaded.
ibmz__wait_for_job == "raise"
ibmz__partition_switch_power == [refused |-> ibmz__wait_for_job]
ibmz_set_power_status == Set("on", "off", ibmz__partition_switch_power.refused)
ibmz_get_outlet_list == ibmz_partition_list
ibmz_logon == "open"
ibmz_disconnect == "atexit"
ibmz_main ==
    Having({"ipport"},
           Main({"ipaddr", "ipport", "login", "passwd", "port", "connect_retries",
                "connect_timeout", "operation_timeout", "read_retries", "read_timeout",
                "ssl_secure", "load_on_activate"},
                <<"run_delay", ibmz_logon>>, {"set", "get", "list"}, ibmz_disconnect))

\* Mutant: every state but ACTIVE is off.
openstack_translate_status_guess == [ACTIVE |-> "on", SHUTOFF |-> "off", other |-> "off"]
openstack_translate_status == [ACTIVE |-> "on", SHUTOFF |-> "off", other |-> "error"]
openstack_get_power_status == openstack_translate_status @@
    [absent |-> "fail", refused |-> "raise", timeout |-> "raise"]
openstack_set_power_status == Set("on", "off", "fail")
openstack_get_nodes_list == [ACTIVE |-> "on", SHUTOFF |-> "off", other |-> "unknown",
                             refused |-> "none", timeout |-> "none"]
openstack_get_cloud == "clouds_yaml"
openstack_nova_login == "open"
openstack_main == Main({"login", "no_login", "passwd", "no_password", "auth-url", "project-name",
                        "user-domain-name", "project-domain-name", "auth-plugin", "cloud",
                        "openrc", "port", "no_port", "uuid", "ssl_insecure", "cacert", "apitimeout"},
                       <<"plug_given", "run_delay", openstack_get_cloud, openstack_nova_login>>,
                       {"set", "get", "list"}, "none")

\* A paused machine is taken for off.
nutanix_ahv_get_power_state == [ON |-> "on", OFF |-> "off", PAUSED |-> "off", UNKNOWN |-> "error",
                                other |-> "raise"]
nutanix_ahv_request == "AHVFenceAgentException"
nutanix_ahv_get_power_status == nutanix_ahv_get_power_state @@
    [absent |-> "fail", refused |-> "fail", timeout |-> "fail"]

\* Nothing is sent to a machine that is in the state asked for.
nutanix_ahv__wait_for_task == "fail"
nutanix_ahv_set_power_state == [refused |-> nutanix_ahv__wait_for_task]
nutanix_ahv_set_power_status == Set("on", "off", nutanix_ahv_set_power_state.refused)

\* The machine is power cycled, and no value is returned.
nutanix_ahv_power_cycle_vm == "fail"
nutanix_ahv_power_cycle == Cycled("false", nutanix_ahv_power_cycle_vm)
nutanix_ahv_list_vms == [ON |-> "on", OFF |-> "off", PAUSED |-> "unknown", UNKNOWN |-> "unknown"]
nutanix_ahv_get_list == nutanix_ahv_list_vms @@ [refused |-> "fail", timeout |-> "fail"]
nutanix_ahv_connect == "open"
nutanix_ahv_main == Main({"ipaddr", "login", "passwd", "ssl", "notls", "web", "port", "filter",
                          "method", "disable_timeout", "power_timeout"},
                         <<"run_delay", nutanix_ahv_connect>>,
                         {"set", "get", "list", "cycle"}, "none")

\* A request is executed again, --retries times.
gce_retry_api_execute == "raise"
gce_translate_status == [RUNNING |-> "on", TERMINATED |-> "off", other |-> "error"]
gce_get_instance_power_status == gce_translate_status @@ [refused |-> "fail", timeout |-> "fail"]
gce_get_zone == "raise"

\* With --baremetalsolution the status is made up, so that on and off go ahead.
gce_get_power_status(baremetalsolution) ==
    IF baremetalsolution
    THEN [RUNNING |-> "contrary", TERMINATED |-> "contrary"]
    ELSE gce_get_instance_power_status @@ [absent |-> gce_get_zone]

\* An operation of the same kind that is under way is waited for instead.
gce_wait_for_operation == "raise"
gce_set_instance_power_status == [refused |-> "fail"]
gce_set_power_status == Set("on", "off", gce_set_instance_power_status.refused)
gce_power_cycle_instance == [refused |-> gce_wait_for_operation]
gce_power_cycle == Cycled("true", gce_power_cycle_instance.refused)
gce_get_nodes_list == [RUNNING |-> "on", TERMINATED |-> "off", other |-> "unknown",
                       refused |-> "fail", timeout |-> "fail"]
gce_main == Main({"port", "no_password", "zone", "project", "stackdriver-logging", "method",
                  "baremetalsolution", "apitimeout", "retries", "retrysleep", "serviceaccount",
                  "plugzonemap", "proxyhost", "proxyport", "earlyexit", "warntimeout",
                  "errortimeout", "runonwarn", "runonfail"},
                 <<"run_delay", "open", "zones">>, {"set", "get", "list", "cycle"}, "none")

aliyun__send_request == "fail"
aliyun_get_status == [Running |-> "Running", Stopped |-> "Stopped", other |-> "other", absent |-> "None"]
aliyun_get_power_status ==
    [w \in DOMAIN aliyun_get_status |->
        CASE aliyun_get_status[w] = "Running" -> "on"
          [] aliyun_get_status[w] = "Stopped" -> "off"
          [] OTHER -> "error"] @@ [refused |-> aliyun__send_request, timeout |-> aliyun__send_request]
aliyun_set_power_status == Set("on", "off", aliyun__send_request)
aliyun_get_nodes_list == [Running |-> "unknown", Stopped |-> "unknown", other |-> "unknown",
                          refused |-> aliyun__send_request, timeout |-> aliyun__send_request]
aliyun_main == Main({"port", "no_password", "region", "access_key", "secret_key", "ram_role",
                     "credentials_file", "credentials_file_profile", "filter"},
                    <<"run_delay", "credentials">>, {"set", "get", "list"}, "none")

\* aws_set_power_status: see AwsRace for the check of the own state before off.
aws_get_power_status ==
    [running |-> "on", stopped |-> "off", pending |-> "error", stopping |-> "error",
     shutting_down |-> "error", terminated |-> "error", other |-> "error",
     absent |-> "fail", refused |-> "fail", timeout |-> "fail"]
aws_set_power_status == Set("on", "off", "fail")
aws_get_nodes_list ==
    [running |-> "on", stopped |-> "off", pending |-> "unknown", stopping |-> "unknown",
     other |-> "unknown", refused |-> "fail", timeout |-> "none"]
aws_main == Main({"port", "no_password", "region", "access_key", "secret_key", "filter",
                  "boto3_debug", "skip_race_check", "skip_os_shutdown"},
                 <<"run_delay", "open">>, {"set", "get", "list"}, "none")

\* Without --network-fencing.  A machine in between counts as not there yet.
azure_arm_get_power_status ==
    [running |-> "on", deallocated |-> "off", stopped |-> "off", other |-> "contrary",
     absent |-> "fail", refused |-> "fail", timeout |-> "fail"]
azure_arm_set_power_status == Set("on", "off", "raise")
azure_arm_get_nodes_list == [running |-> "unknown", stopped |-> "unknown", other |-> "unknown",
                             refused |-> "raise", timeout |-> "fail"]
azure_arm_main == Main({"login", "no_login", "no_password", "passwd", "port", "resourceGroup",
                        "tenantId", "subscriptionId", "network-fencing", "msi", "cloud",
                        "metadata-endpoint"},
                       <<"run_delay", "azure_clients">>, {"set", "get", "list"}, "none")

VmTable == [
    ovm |-> AgentRow(ovm_main, ovm_get_power_status, ovm_sync_set_power_status,
        ovm_get_outlet_list, <<>>, "plug"),
    xenapi |-> AgentRow(xenapi_main, xenapi_get_power_fn, xenapi_set_power_fn,
        xenapi_get_outlet_list, <<>>, xenapi_return_vm_reference),
    vmware |-> AgentRow(vmware_main, vmware_get_power_status("esx"), vmware_set_power_status,
        vmware_get_outlets_status, <<>>, "plug"),
    vmware_server1 |-> AgentRow(vmware_main, vmware_get_power_status("server1"), vmware_set_power_status,
        vmware_vmware_get_outlets_vix, <<>>, "plug"),
    vmware_soap |-> AgentRow(vmware_soap_main, vmware_soap_get_power_status, vmware_soap_set_power_status,
        vmware_soap_process_results, <<>>, "first"),
    kubevirt |-> AgentRow(kubevirt_main, kubevirt_get_power_status, kubevirt_set_power_status,
        kubevirt_get_nodes_list, <<>>, "plug"),
    ibm_vpc |-> AgentRow(ibm_vpc_main, ibm_vpc_get_power_status, ibm_vpc_set_power_status,
        ibm_vpc_get_list, <<>>, "plug"),
    ibm_powervs |-> AgentRow(ibm_powervs_main, ibm_powervs_get_power_status, ibm_powervs_set_power_status,
        ibm_powervs_get_list, ibm_powervs_reboot_cycle, "plug"),
    ibmz |-> AgentRow(ibmz_main, ibmz_get_power_status, ibmz_set_power_status,
        ibmz_get_outlet_list, <<>>, "plug"),
    openstack |-> AgentRow(openstack_main, openstack_get_power_status, openstack_set_power_status,
        openstack_get_nodes_list, <<>>, "plug"),
    nutanix_ahv |-> AgentRow(nutanix_ahv_main, nutanix_ahv_get_power_status, nutanix_ahv_set_power_status,
        nutanix_ahv_get_list, nutanix_ahv_power_cycle, "uuid"),
    gce |-> AgentRow(gce_main, gce_get_power_status(FALSE), gce_set_power_status,
        gce_get_nodes_list, gce_power_cycle, "plug"),
    gce_baremetal |-> AgentRow(gce_main, gce_get_power_status(TRUE), gce_set_power_status,
        gce_get_nodes_list, gce_power_cycle, "plug"),
    aliyun |-> AgentRow(aliyun_main, aliyun_get_power_status, aliyun_set_power_status,
        aliyun_get_nodes_list, <<>>, "plug"),
    aws |-> AgentRow(aws_main, aws_get_power_status, aws_set_power_status,
        aws_get_nodes_list, <<>>, "plug"),
    azure_arm |-> AgentRow(azure_arm_main, azure_arm_get_power_status, azure_arm_set_power_status,
        azure_arm_get_nodes_list, <<>>, "plug")]
=============================================================================
