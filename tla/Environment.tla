----------------------------- MODULE Environment -----------------------------
(***************************************************************************)
(* class Environment of alpaca/config.{h,cpp}: the keys and addresses of    *)
(* the Alpaca API, read from the variables of the process's environment.    *)
(* A value is "" (never read), "set" (the variable's) or "default".         *)
(***************************************************************************)
Variables == {"APCA_API_KEY_ID", "APCA_API_SECRET_KEY", "APCA_API_BASE_URL",
              "APCA_API_DATA_URL"}

Value == {"", "set", "default"}

EnvironmentType ==
  [parsed_ : BOOLEAN, api_key_id_ : Value, api_secret_key_ : Value,
   api_base_url_ : Value, api_data_url_ : Value]

(* A new Environment: the constructor leaves parsed_ uninitialised. *)
NewEnvironments ==
  {[parsed_ |-> garbage, api_key_id_ |-> "", api_secret_key_ |-> "",
    api_base_url_ |-> "", api_data_url_ |-> ""] : garbage \in BOOLEAN}

OrDefault(variables, v) == IF v \in variables THEN "set" ELSE "default"

(* parse(): the keys are required, and what was read before one is missing  *)
(* stays; the addresses have defaults, the paper trading API's.             *)
ParseOk(variables) == {"APCA_API_KEY_ID", "APCA_API_SECRET_KEY"} \subseteq variables

(* Mutant of Parsed: parsed_ is set before the secret key is read. *)
ParsedEarly(env, variables) ==
  IF "APCA_API_KEY_ID" \notin variables
  THEN env
  ELSE IF "APCA_API_SECRET_KEY" \notin variables
  THEN [env EXCEPT !.parsed_ = TRUE, !.api_key_id_ = "set", !.api_base_url_ = "default"]
  ELSE [parsed_ |-> TRUE, api_key_id_ |-> "set", api_secret_key_ |-> "set",
        api_base_url_ |-> OrDefault(variables, "APCA_API_BASE_URL"),
        api_data_url_ |-> OrDefault(variables, "APCA_API_DATA_URL")]

Parsed(env, variables) ==
  IF "APCA_API_KEY_ID" \notin variables
  THEN env
  ELSE IF "APCA_API_SECRET_KEY" \notin variables
  THEN [env EXCEPT !.api_key_id_ = "set"]
  ELSE [parsed_ |-> TRUE, api_key_id_ |-> "set", api_secret_key_ |-> "set",
        api_base_url_ |-> OrDefault(variables, "APCA_API_BASE_URL"),
        api_data_url_ |-> OrDefault(variables, "APCA_API_DATA_URL")]

(* The start of Handler::run and of Client::Client: the environment is      *)
(* parsed unless it says that it has been.                                  *)
Ready(env, variables) ==
  IF env.parsed_ THEN env ELSE Parsed(env, variables)

ReadyOk(env, variables) == env.parsed_ \/ ParseOk(variables)
=============================================================================
