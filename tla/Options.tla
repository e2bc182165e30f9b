------------------------------ MODULE Options ------------------------------
(***************************************************************************)
(* The options of an agent: process_input and check_input of               *)
(* lib/fencing.py.py, and which way of login fence_login takes with them.  *)
(* The options here are the ones that these functions and the login read;  *)
(* a set of them stands for the keys of the dictionary "options".          *)
(***************************************************************************)

\* What a user can give, on the command line or on standard input.
UserOptions == {"ipaddr", "ipport", "login", "passwd", "passwd_script", "identity_file",
                "secure", "ssl", "port", "port_as_ip", "managed"}

DEPENDENCY_OPT ==
    [passwd |-> {"passwd_script"}, secure |-> {"identity_file", "ssh_path"},
     telnet |-> {"telnet_path"}, ipaddr |-> {"ipport"}, port |-> {"separator"},
     ssl |-> {"ssl_secure", "ssl_insecure", "gnutlscli_path"}, snmp |-> {"community"}]

_add_dependency_options(opts) ==
    (UNION {DEPENDENCY_OPT[o] : o \in opts \cap DOMAIN DEPENDENCY_OPT})
        \cup (IF "ipaddr" \in opts /\ "port" \notin opts THEN {"port_as_ip"} ELSE {})

\* The options that process_input looks for.
AvailOpt(device_opt) ==
    LET all == device_opt \cup _add_dependency_options(device_opt)
    IN IF "port_as_ip" \in all THEN all \cup {"port"} ELSE all

\* device_opt as check_input leaves it: "port" may have come after the first
\* look at the dependencies.
CompleteOpt(device_opt) ==
    AvailOpt(device_opt) \cup _add_dependency_options(AvailOpt(device_opt))

\* The command line is refused for an unknown option, and for a plug of an
\* agent that has none; standard input may hold anything.
ParseAccepts(channel, names, avail) ==
    channel = "cmdline" =>
        /\ names \subseteq avail
        /\ "port_as_ip" \in avail /\ "port" \in names => "port_as_ip" \in names

_parse_input_stdin(names, avail) == names \cap avail

process_input(names, avail) ==
    LET known == _parse_input_stdin(names, avail)
    IN known \cup (IF {"port_as_ip", "port"} \subseteq known THEN {"ipaddr"} ELSE {})

\* _update_metadata derives the default of --ipport from the protocol.
_update_metadata_fails(device_opt, defaults) ==
    /\ "ipport" \in device_opt /\ "ipport" \notin defaults
    /\ device_opt \cap {"community", "secure", "ssl", "web", "telnet"} = {}

\* Mutant: an agent that can speak telnet gets the port of telnet.
DefaultPort_telnet(device_opt, defaults, has) ==
    IF "ipport" \in has THEN "given"
    ELSE IF {"ipport", "ipport_unless_ssh"} \cap defaults # {} THEN "own"
    ELSE IF "telnet" \in device_opt THEN "23"
    ELSE IF "secure" \in has \cup defaults THEN "22" ELSE "443"

\* _set_default_values, --ipport: as given, or the agent's own default, or that
\* of the protocol.  fence_rsb sets its own before, without --ssh.
DefaultPort(device_opt, defaults, has) ==
    IF "ipport" \in has THEN "given"
    ELSE IF "ipport" \notin device_opt THEN "none"
    ELSE IF "ipport" \in defaults \/ ("ipport_unless_ssh" \in defaults /\ "secure" \notin has) THEN "own"
    ELSE IF "community" \in device_opt THEN "161"
    ELSE IF "secure" \in has \cup defaults THEN "22"
    ELSE IF {"ssl", "ssl_secure", "ssl_insecure"} \cap (has \cup defaults) # {} THEN "443"
    ELSE IF "web" \in device_opt THEN "80"
    ELSE IF "telnet" \in device_opt THEN "23" ELSE "none"

\* _set_default_values, all others, with the defaults of all_opt itself.
_set_default_values(device_opt, defaults, has) ==
    has \cup (device_opt \cap (defaults \cup {"ssh_path", "telnet_path", "gnutlscli_path", "separator"}))
        \cup (IF DefaultPort(device_opt, defaults, has) = "none" THEN {} ELSE {"ipport"})

\* Mutant: an identity file is accepted without --ssh.
_validate_input_lax(device_opt, has, act) ==
    /\ "login" \in device_opt /\ "no_login" \notin device_opt => "login" \in has
    /\ "ipaddr" \in device_opt => {"ipaddr", "managed", "target"} \cap has # {}
    /\ "no_password" \in device_opt \/ {"passwd", "passwd_script", "identity_file"} \cap has # {}
    /\ act \notin {"list", "monitor"} /\ {"port", "no_port", "port_as_ip"} \cap device_opt = {"port"} =>
          "port" \in has

\* The options that an agent cannot do without.  Values are valid, and the
\* identity file exists.
_validate_input(device_opt, has, act) ==
    /\ "login" \in device_opt /\ "no_login" \notin device_opt => "login" \in has
    /\ "ipaddr" \in device_opt => {"ipaddr", "managed", "target"} \cap has # {}
    /\ "no_password" \notin device_opt =>
          {"passwd", "passwd_script"} \cap has # {}
             \/ ("identity_file" \in device_opt /\ "identity_file" \in has)
    /\ "identity_file" \in has => "secure" \in has
    /\ act \notin {"list", "monitor"} /\ {"port", "no_port", "port_as_ip"} \cap device_opt = {"port"} =>
          "port" \in has

\* The rest of check_input: the password script has been run, and a way to
\* check the certificate asks for ssl.
CheckedInput(has) ==
    has \cup (IF "passwd_script" \in has THEN {"passwd"} ELSE {})
        \cup (IF {"ssl_secure", "ssl_insecure"} \cap has # {} THEN {"ssl"} ELSE {})

\* The actions that check_input accepts.
AcceptableActions(device_opt) ==
    {"on", "off", "reboot", "status", "monitor", "list"} \
        ((IF "fabric_fencing" \in device_opt THEN {"reboot"} ELSE {})
         \cup (IF "no_status" \in device_opt THEN {"status"} ELSE {})
         \cup (IF "no_on" \in device_opt THEN {"on"} ELSE {})
         \cup (IF "no_off" \in device_opt THEN {"off"} ELSE {})
         \cup (IF "separator" \notin device_opt THEN {"list"} ELSE {}))

----------------------------------------------------------------------------

\* The way of login that fence_login takes.
LoginPath(has) ==
    IF "ssl" \in has THEN "ssl"
    ELSE IF "secure" \notin has THEN "telnet"
    ELSE IF "identity_file" \in has THEN "identity" ELSE "ssh"

\* The options that each way reads: a missing one is a KeyError.
LoginReads ==
    [ssl      |-> {"gnutlscli_path", "ipport", "ipaddr"},
     ssh      |-> {"ssh_path", "login", "ipaddr", "ipport", "passwd", "cmd_prompt"},
     identity |-> {"ssh_path", "login", "ipaddr", "ipport", "identity_file", "cmd_prompt"},
     telnet   |-> {"telnet_path", "ipaddr", "ipport", "login", "passwd", "cmd_prompt"}]

CanLogIn(has) == LoginReads[LoginPath(has)] \subseteq has
=============================================================================
