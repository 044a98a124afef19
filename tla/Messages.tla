------------------------------ MODULE Messages ------------------------------
(***************************************************************************)
(* The messages of the protocol: their JSON (lib/datasync/message.c), what *)
(* is read from JSON (lib/datasync/parser.c) and what is freed afterwards. *)
(* A JSON value is a record with one field, named for its type; that of   *)
(* an object holds a function from its keys.  A parsed message is a record *)
(* of                                                                      *)
(*   ok    the result of the parser,                                       *)
(*   type  the types set at each level, e.g. <<"DATA", "ACTION", "PUT">>,  *)
(*   u     the fields that were filled, also if the parser gave up later.  *)
(* The text of a JSON value is left as the value, so that the sorting of   *)
(* the members of an update is not seen.                                   *)
(***************************************************************************)
EXTENDS Naturals, Sequences, FiniteSetsExt

Str(s) == [string |-> s]
Long(n) == [int |-> n]
Obj(f) == [object |-> f]
JNull == [null |-> "null"]
Is(type, j) == type \in DOMAIN j

\* Data of the application that json_tokener_parse() refuses.
Malformed == [malformed |-> "malformed"]

ActionType ==
    {"PUT", "MERGE", "LISTEN", "UNLISTEN", "AUTHENTICATE", "UNAUTHENTICATE",
     "ON_DISCONNECT_PUT", "ON_DISCONNECT_MERGE", "ON_DISCONNECT_CANCEL"}

-----------------------------------------------------------------------------
(* Mutants: plausible bugs of the definitions below.                       *)

\* Two codes are swapped.
ActionCodeSwapped ==
    [PUT |-> "p", MERGE |-> "m", LISTEN |-> "u", UNLISTEN |-> "l",
     AUTHENTICATE |-> "auth", UNAUTHENTICATE |-> "unauth",
     ON_DISCONNECT_PUT |-> "o", ON_DISCONNECT_MERGE |-> "om",
     ON_DISCONNECT_CANCEL |-> "oc"]

\* The data of a merge is forgotten.
FreedNoMergeData(type) ==
    CASE type[Len(type)] \in {"PUT", "UPDATE_PUT"} -> {"path", "data", "hash"}
      [] type[Len(type)] = "RESPONSE" -> {"status", "data"}
      [] type[Len(type)] = "HANDSHAKE" -> {"server", "version"}
      [] type[Len(type)] = "CONNECTION_SHUTDOWN" -> {"shutdown_reason"}
      [] type[Len(type)] = "AUTH_REVOKED" -> {"status", "reason"}
      [] type[Len(type)] = "AUTHENTICATE" -> {"cred"}
      [] type[Len(type)] = "UNAUTHENTICATE" -> {}
      [] OTHER -> {"path"}

-----------------------------------------------------------------------------
(* Encoder                                                                 *)

\* json_tokener_parse(): NULL, added as null, if the text is not JSON.
Tokened(data) == IF Is("malformed", data) THEN JNull ELSE data

\* The "b" member of an action.  The requests never set the hash of a put.
ActionBody(type, req) ==
    CASE type \in {"PUT", "MERGE", "ON_DISCONNECT_PUT", "ON_DISCONNECT_MERGE"} ->
            Obj([p |-> Str(req.path), d |-> Tokened(req.data)])
      [] type \in {"LISTEN", "UNLISTEN", "ON_DISCONNECT_CANCEL"} -> Obj([p |-> Str(req.path)])
      [] type = "AUTHENTICATE" -> Obj([cred |-> Str(req.cred)])
      [] type = "UNAUTHENTICATE" -> JNull

ActionCode ==
    [PUT |-> "p", MERGE |-> "m", LISTEN |-> "l", UNLISTEN |-> "u",
     AUTHENTICATE |-> "auth", UNAUTHENTICATE |-> "unauth",
     ON_DISCONNECT_PUT |-> "o", ON_DISCONNECT_MERGE |-> "om",
     ON_DISCONNECT_CANCEL |-> "oc"]

\* wc_datasync_msg_to_json_str(), of the messages that are sent: actions.
msg_to_json(type, r, req) ==
    Obj([t |-> Str("d"),
         d |-> Obj([r |-> Long(r), a |-> Str(ActionCode[type]), b |-> ActionBody(type, req)])])

-----------------------------------------------------------------------------
(* Parser                                                                  *)

\* json_object_object_get_ex()
Has(j, key) == Is("object", j) /\ key \in DOMAIN j.object
IsStr(j, key, s) == Has(j, key) /\ Is("string", j.object[key]) /\ j.object[key].string = s

\* WCPM_CALL_CHILD_PARSER: without the member there is nothing to read from.
Member(j, key) == IF Has(j, key) THEN j.object[key] ELSE JNull

\* _wc_hlp_get_string(), _wc_hlp_get_long(), _wc_hlp_get_json_str(): the member
\* of j that fills a field, and the type it must have.
Field(name, j, key, type) == [name |-> name, j |-> j, key |-> key, type |-> type]
Readable(f) == Has(f.j, f.key) /\ (f.type = "any" \/ Is(f.type, f.j.object[f.key]))

\* wc_msg_t: whether it was parsed, its types, and the members of the unions.
Message(ok, type, u) == [ok |-> ok, type |-> type, u |-> u]

\* The fields are read in their order, up to the first that cannot be.
Read(type, fields) ==
    LET n == Max({m \in 0..Len(fields) : \A i \in 1..m : Readable(fields[i])})
        Value(i) == fields[i].j.object[fields[i].key]
    IN  Message(n = Len(fields), type,
                [name \in {fields[i].name : i \in 1..n} |->
                    Value(CHOOSE i \in 1..n : fields[i].name = name)])

Refused(type) == Message(FALSE, type, <<>>)

parse_ctrl_msg(j) ==
    IF IsStr(j, "t", "h")
    THEN LET d == Member(j, "d")
         IN  Read(<<"CTRL", "HANDSHAKE">>,
                  <<Field("ts", d, "ts", "int"), Field("server", d, "h", "string"),
                    Field("version", d, "v", "string")>>)
    ELSE IF IsStr(j, "t", "s")
    THEN Read(<<"CTRL", "CONNECTION_SHUTDOWN">>, <<Field("shutdown_reason", j, "d", "string")>>)
    ELSE Refused(<<"CTRL">>)

\* The type that the "a" member of an action stands for.
ActionOf ==
    [p |-> "PUT", m |-> "MERGE", l |-> "LISTEN", u |-> "UNLISTEN",
     auth |-> "AUTHENTICATE", unauth |-> "UNAUTHENTICATE",
     o |-> "ON_DISCONNECT_PUT", om |-> "ON_DISCONNECT_MERGE",
     oc |-> "ON_DISCONNECT_CANCEL"]

\* Only a put is read from the "b" member, where msg_to_json() puts the fields
\* of them all.
ActionFields(type, j) ==
    LET b == Member(j, "b")
        hash == Field("hash", b, "h", "string")
    IN  CASE type = "PUT" ->
                (IF Readable(hash) THEN <<hash>> ELSE <<>>)
                \o <<Field("path", b, "p", "string"), Field("data", b, "d", "any")>>
          [] type \in {"MERGE", "ON_DISCONNECT_PUT", "ON_DISCONNECT_MERGE"} ->
                <<Field("path", j, "p", "string"), Field("data", j, "d", "any")>>
          [] type \in {"LISTEN", "UNLISTEN", "ON_DISCONNECT_CANCEL"} ->
                <<Field("path", j, "p", "string")>>
          [] type = "AUTHENTICATE" -> <<Field("cred", j, "cred", "string")>>
          [] type = "UNAUTHENTICATE" -> <<>>

parse_action(j) ==
    LET r == <<Field("r", j, "r", "int")>>
        codes == {c \in DOMAIN ActionOf : IsStr(j, "a", c)}
        type == ActionOf[CHOOSE c \in codes : TRUE]
    IN  IF codes = {} \/ ~Readable(r[1])
        THEN [Read(<<"DATA", "ACTION">>, r) EXCEPT !.ok = FALSE]
        ELSE Read(<<"DATA", "ACTION", type>>, r \o ActionFields(type, j))

parse_response(j) ==
    LET b == Member(j, "b")
    IN  Read(<<"DATA", "RESPONSE">>,
             <<Field("r", j, "r", "int"), Field("status", b, "s", "string"),
               Field("data", b, "d", "any")>>)

parse_push(j) ==
    LET b == Member(j, "b")
        path == Field("path", b, "p", "string")
    IN  IF IsStr(j, "a", "ac")
        THEN Read(<<"DATA", "PUSH", "AUTH_REVOKED">>,
                  <<Field("status", b, "s", "string"), Field("reason", b, "d", "string")>>)
        ELSE IF IsStr(j, "a", "c") THEN Read(<<"DATA", "PUSH", "LISTEN_REVOKED">>, <<path>>)
        ELSE IF IsStr(j, "a", "d")
        THEN Read(<<"DATA", "PUSH", "UPDATE_PUT">>, <<path, Field("data", b, "d", "any")>>)
        ELSE IF IsStr(j, "a", "m")
        THEN Read(<<"DATA", "PUSH", "UPDATE_MERGE">>, <<path, Field("data", b, "d", "any")>>)
        ELSE Refused(<<"DATA", "PUSH">>)

parse_data_msg(j) ==
    IF Has(j, "a") /\ Has(j, "r") /\ Has(j, "b") THEN parse_action(j)
    ELSE IF ~Has(j, "a") /\ Has(j, "r") THEN parse_response(j)
    ELSE IF Has(j, "a") /\ ~Has(j, "r") THEN parse_push(j)
    ELSE Refused(<<"DATA">>)

parse_msg_json(j) ==
    IF IsStr(j, "t", "c") THEN parse_ctrl_msg(Member(j, "d"))
    ELSE IF IsStr(j, "t", "d") THEN parse_data_msg(Member(j, "d"))
    ELSE Refused(<<>>)

\* wc_datasync_msg_free(): the fields that are freed of a message of a type.
msg_free(type) ==
    CASE type[Len(type)] = "PUT" -> {"path", "hash", "data"}
      [] type[Len(type)] \in {"MERGE", "ON_DISCONNECT_PUT", "ON_DISCONNECT_MERGE",
                              "UPDATE_PUT", "UPDATE_MERGE"} -> {"path", "data"}
      [] type[Len(type)] \in {"LISTEN", "UNLISTEN", "ON_DISCONNECT_CANCEL",
                              "LISTEN_REVOKED"} -> {"path"}
      [] type[Len(type)] = "AUTHENTICATE" -> {"cred"}
      [] type[Len(type)] = "AUTH_REVOKED" -> {"reason", "status"}
      [] type[Len(type)] = "RESPONSE" -> {"status", "data"}
      [] type[Len(type)] = "HANDSHAKE" -> {"server", "version"}
      [] type[Len(type)] = "CONNECTION_SHUTDOWN" -> {"shutdown_reason"}
      [] OTHER -> {}
=============================================================================
