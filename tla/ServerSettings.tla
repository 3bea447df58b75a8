---------------------------- MODULE ServerSettings ----------------------------
(***************************************************************************)
(* settings.ini, which two programs read for themselves: entrypoint.sh when *)
(* the container starts, for nginx and the status page, and SettingsLoader  *)
(* when the worker starts and before every cycle.                           *)
(***************************************************************************)
EXTENDS Naturals

CONSTANTS
  Empty,         \* no value after the "=", which is None
  Junk,          \* a value that is no number, or no known name
  NoUrl          \* the base URL of an empty SERVER_IP

ASSUME SettingsAssumption == Empty \notin Nat /\ Junk \notin Nat /\ Empty # Junk

Keys == {"SERVER_PORT", "ENABLE_TLS", "EXPORT_TARGETS"}
OutputTargets == {"hb-store", "fpkgi"}

\* quotes: the keys whose value is written between quotation marks.
IsSettings(s) ==
  /\ s.host \in BOOLEAN
  /\ s.port \in Nat \union {Empty, Junk}
  /\ s.tls \in BOOLEAN
  /\ s.targets \subseteq OutputTargets
  /\ s.level \in {"info", Junk}
  /\ s.cron \in {Empty, "five fields", Junk}
  /\ s.quotes \subseteq Keys

DefaultPort(tls) == IF tls THEN 443 ELSE 80

Ports == 1 .. 65535

-----------------------------------------------------------------------------
(* SettingsLoader strips quotation marks; a port that is no number is None, *)
(* one out of range or an unknown log level is an error.                    *)

LoadedPort(s) == IF s.port = Junk THEN Empty ELSE s.port

Loads(s) ==
  /\ LoadedPort(s) = Empty \/ LoadedPort(s) \in Ports
  /\ s.level # Junk

\* base_url: the port is left out where it is the scheme's own.
BaseUrl(s) ==
  IF ~s.host THEN NoUrl
  ELSE [tls  |-> s.tls,
        port |-> IF LoadedPort(s) = Empty THEN DefaultPort(s.tls) ELSE s.port]

-----------------------------------------------------------------------------
(* entrypoint.sh takes the value as it stands: nothing with quotation marks *)
(* is a number, a yes or a target; a port must be one, if there is any.     *)

Plain(s, key) == key \notin s.quotes

ListensTls(s) == s.tls /\ Plain(s, "ENABLE_TLS")

Boots(s, certs) ==
  /\ ListensTls(s) => certs
  /\ Plain(s, "SERVER_PORT")
  /\ s.port = Empty \/ (s.port # Junk /\ s.port \in Ports)

\* Wrong: the port does not depend on ENABLE_TLS.
ListenAlways80(s) ==
  [tls  |-> ListensTls(s),
   port |-> IF s.port = Empty THEN 80 ELSE s.port]

\* Where nginx listens.
Listen(s) ==
  [tls  |-> ListensTls(s),
   port |-> IF s.port = Empty THEN DefaultPort(ListensTls(s)) ELSE s.port]

\* The targets the status page shows.
ShownTargets(s) == IF Plain(s, "EXPORT_TARGETS") THEN s.targets ELSE {}
=============================================================================
