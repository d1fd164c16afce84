---------------------------- MODULE SdkFunctions ----------------------------
(***************************************************************************)
(* The functions SDKDllInterface.__init__ binds, in its order, by their    *)
(* names in the C library, without the prefix onesdk_ and the suffix _p.   *)
(***************************************************************************)
EXTENDS Sequences

\* Checked: a missing one is reported as INVALID_AGENT_BINARY.
Mandatory == <<"agent_get_current_state", "agent_get_version_string", "stub_get_version">>
LoadInfoFunction == "stub_get_agent_load_info"

\* Not checked: a missing one is an AttributeError of ctypes.
StubArguments ==
  <<"stub_is_sdk_cmdline_arg", "stub_process_cmdline_arg", "stub_set_variable",
    "stub_set_logging_level", "stub_default_logging_function",
    "stub_set_logging_callback", "stub_free_variables">>
InitAndShutdown ==
  <<"initialize_2", "shutdown", "agent_set_warning_callback",
    "agent_set_verbose_callback", "stub_xstrerror">>
ForkAndTechnology ==
  <<"agent_get_fork_state", "ex_api_enable_techtype",
    "ex_agent_add_process_technology">>
Database ==
  <<"databaseinfo_create", "databaserequesttracer_create_sql",
    "databaserequesttracer_set_returned_row_count",
    "databaserequesttracer_set_round_trip_count", "databaseinfo_delete">>
RemoteCalls ==
  <<"outgoingremotecalltracer_create", "outgoingremotecalltracer_set_protocol_name",
    "incomingremotecalltracer_create", "incomingremotecalltracer_set_protocol_name">>
IncomingWebRequest ==
  <<"webapplicationinfo_create", "webapplicationinfo_delete",
    "incomingwebrequesttracer_create",
    "incomingwebrequesttracer_add_request_headers",
    "incomingwebrequesttracer_add_response_headers",
    "incomingwebrequesttracer_add_parameters",
    "incomingwebrequesttracer_set_remote_address",
    "incomingwebrequesttracer_set_status_code">>
InProcessLink == <<"inprocesslink_create", "inprocesslinktracer_create">>
OutgoingWebRequest ==
  <<"outgoingwebrequesttracer_create",
    "outgoingwebrequesttracer_add_request_headers",
    "outgoingwebrequesttracer_add_response_headers",
    "outgoingwebrequesttracer_set_status_code">>
GenericTracer ==
  <<"tracer_start", "tracer_end", "tracer_error",
    "tracer_get_outgoing_dynatrace_string_tag",
    "tracer_get_outgoing_dynatrace_byte_tag",
    "tracer_set_incoming_dynatrace_string_tag",
    "tracer_set_incoming_dynatrace_byte_tag">>
CustomAttributes ==
  <<"customrequestattribute_add_integers", "customrequestattribute_add_floats",
    "customrequestattribute_add_strings">>
Messaging ==
  <<"messagingsysteminfo_create", "messagingsysteminfo_delete",
    "outgoingmessagetracer_create", "outgoingmessagetracer_set_vendor_message_id",
    "outgoingmessagetracer_set_correlation_id",
    "incomingmessagereceivetracer_create", "incomingmessageprocesstracer_create",
    "incomingmessageprocesstracer_set_vendor_message_id",
    "incomingmessageprocesstracer_set_correlation_id">>
CustomService == <<"customservicetracer_create">>
TraceContext == <<"tracecontext_get_current">>

Groups ==
  <<StubArguments, InitAndShutdown, ForkAndTechnology, Database, RemoteCalls,
    IncomingWebRequest, InProcessLink, OutgoingWebRequest, GenericTracer,
    CustomAttributes, Messaging, CustomService, TraceContext>>

Names(seq) == {seq[i] : i \in DOMAIN seq}

Functions ==
  Names(Mandatory) \cup {LoadInfoFunction}
    \cup UNION {Names(Groups[i]) : i \in DOMAIN Groups}
=============================================================================
