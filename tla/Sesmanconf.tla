----------------------------- MODULE Sesmanconf -----------------------------
(***************************************************************************)
(* The translation lookup of sesmanconf.py: the SesmanConfig singleton     *)
(* (its language and its conf table of sections) and TR(key), which the   *)
(* session manager calls for every message it shows to a user and then    *)
(* formats with `TR(key) % args`.                                          *)
(*                                                                         *)
(* A key is abstracted to its name and the number of "%s" it carries; a    *)
(* message to where it came from and its number of "%s".  The callers of   *)
(* TR are outside this repository: the caller is the environment, which    *)
(* sets SESMANCONF.language to any section name or to an unknown language  *)
(* and asks for any key.                                                   *)
(***************************************************************************)
EXTENDS Naturals

CONSTANT OtherKeys   \* keys a caller may ask for that no table holds

VARIABLES
  language,  \* SESMANCONF.language
  shown      \* the last message TR returned, with the key it was asked for

vars == <<language, shown>>

K(name, params) == [name |-> name, params |-> params]

\* An entry of a language table: the key's name, the number of "%s" in
\* the key and the number of "%s" in its message, as lines 50-137 have them.
T(name, keyParams, msgParams) == <<name, keyParams, msgParams>>

Table(entries) ==
  [k \in {K(e[1], e[2]) : e \in entries} |->
     (CHOOSE e \in entries : K(e[1], e[2]) = k)[3]]

FrTable == Table({
  T("login", 0, 0), T("target", 0, 0), T("password", 0, 0),
  T("diagnostic", 0, 0), T("connection_closed", 0, 0), T("OK", 0, 0),
  T("cancel", 0, 0), T("help", 0, 0), T("close", 0, 0), T("refused", 0, 0),
  T("username", 0, 0), T("password_expire", 0, 0),
  T("session_closed_at", 1, 1), T("too_many_connection", 0, 0),
  T("license_blocker", 0, 0), T("header_error", 0, 0),
  T("unexpected_error", 0, 0), T("unexpected_error_key", 1, 1),
  T("auth_failed", 1, 1), T("auth_failed_wab", 1, 1),
  T("error_recording_path", 1, 1), T("session_recorded", 0, 0),
  T("failed_fetch_port", 2, 2), T("failed_select_target", 1, 1),
  T("valid_authorisation", 0, 0), T("message_not_validated", 0, 0),
  T("not_display_message", 1, 1), T("password_not_specified", 0, 0),
  T("connection_refused", 0, 0), T("authorisation_failed", 1, 1),
  T("unknown_login", 1, 1), T("ACL_error", 1, 1), T("help_message", 0, 0),
  T("forceChangePwd", 0, 0), T("trans_manager_close_cnx", 0, 0),
  T("changepassword", 0, 0) })

EnTable == Table({
  T("login", 0, 0), T("target", 0, 0), T("password", 0, 0),
  T("diagnostic", 0, 0), T("connection_closed", 0, 0), T("OK", 0, 0),
  T("cancel", 0, 0), T("help", 0, 0), T("close", 0, 0), T("refused", 0, 0),
  T("username", 0, 0), T("password_expire", 0, 0),
  T("session_closed_at", 1, 1), T("too_many_connection", 0, 0),
  T("license_blocker", 0, 0), T("header_error", 0, 0),
  T("unexpected_error", 0, 0), T("unexpected_error_key", 1, 1),
  T("auth_failed", 1, 1), T("auth_failed_wab", 1, 1),
  T("error_recording_path", 1, 1), T("session_recorded", 0, 0),
  T("failed_fetch_port", 2, 2), T("failed_select_target", 1, 1),
  T("valid_authorisation", 0, 0), T("message_not_validated", 0, 0),
  T("not_display_message", 0, 0), T("password_not_specified", 0, 0),
  T("connection_refused", 0, 0), T("authorisation_failed", 1, 1),
  T("unknown_login", 1, 1), T("ACL_error", 1, 1), T("help_message", 0, 0),
  T("forceChangePwd", 0, 0), T("trans_manager_close_cnx", 0, 0),
  T("changepassword", 0, 0) })

\* The sections of SesmanConfig.conf; RDP, VNC and sesman hold settings,
\* not translations, and no translation key is among their keys.
Sections == {"RDP", "VNC", "sesman", "fr", "en"}

Conf(s) == CASE s = "fr" -> FrTable
             [] s = "en" -> EnTable
             [] OTHER    -> [k \in {} |-> 0]

TableKeys == DOMAIN FrTable \cup DOMAIN EnTable

Languages == Sections \cup {"de"}

\* SesmanConfig.get: conf.get(para, None); the default argument is ignored.
Get(para) == IF para \in Sections THEN [none |-> FALSE, val |-> Conf(para)]
                                ELSE [none |-> TRUE, val |-> <<>>]

\* TR with the result of key.replace(" %s", "") kept and used for the
\* lookup and the fallback message instead of the original key.
TRReplacedKey(key) ==
  LET got      == Get(language)
      trans    == IF got.none THEN Get("en").val ELSE got.val
      stripped == K(key.name, 0)
  IN IF stripped \in DOMAIN trans
     THEN [from |-> "table", params |-> trans[stripped]]
     ELSE [from |-> "key", params |-> stripped.params]

\* TR(key): the language's table, else the English one, then the message
\* for the original key, else the key itself as the message.
TR(key) ==
  LET got   == Get(language)
      trans == IF got.none THEN Get("en").val ELSE got.val
  IN IF key \in DOMAIN trans
     THEN [from |-> "table", params |-> trans[key]]
     ELSE [from |-> "key", params |-> key.params]

Init ==
  /\ language = "en"
  /\ shown = [key |-> K("", 0), msg |-> [from |-> "none", params |-> 0]]

\* A caller sets SESMANCONF.language.
SetLanguage ==
  /\ \E l \in Languages : language' = l
  /\ UNCHANGED shown

Translate ==
  /\ \E key \in TableKeys \cup OtherKeys :
       shown' = [key |-> key, msg |-> TR(key)]
  /\ UNCHANGED language

Next == SetLanguage \/ Translate

Spec == Init /\ [][Next]_vars

-----------------------------------------------------------------------------

\* Callers format the result with `TR(key) % args`, args matching the
\* key's "%s": the message TR returns, from any table or the key-itself
\* fallback, for any language a caller may set, carries exactly as many
\* "%s" as the key, so the formatting never raises TypeError.
ParamsPreserved == shown.msg.from # "none" => shown.msg.params = shown.key.params

\* The fr and en tables translate the same keys: in either language, TR
\* of a key that one of them translates returns a translated message, not
\* the raw key (the fallback at lines 16-18 meant for unknown keys).
KeyTranslatedInEachLanguage ==
  (shown.msg.from # "none" /\ shown.key \in TableKeys /\ language \in {"fr", "en"})
    => shown.msg.from = "table"
=============================================================================
