--------------------------- MODULE EndpointQueries ---------------------------
(***************************************************************************)
(* Which endpoint of a core a mapping leads to: registration of endpoints  *)
(* (endpoint_init, ep_local_new), the query a peer makes for its endpoint  *)
(* (json_build_map), and its evaluation (endpoint_query, json_filter.c).   *)
(*                                                                         *)
(* A query is a sequence of filters "property sign value" that an endpoint *)
(* must pass one after the other; its properties are those of the endpoint *)
(* and of the component.  Numbers are counted in twentieths; a number with *)
(* a fraction that binary does not have becomes, as a float, the next odd  *)
(* one.                                                                    *)
(***************************************************************************)
EXTENDS EndpointTypes, Integers, Sequences, SequencesExt, FiniteSets

CONSTANTS
  QTypes,     \* the types of endpoints
  Schemas,    \* the hashes of message and response schemata
  Numbers,    \* the numbers a component may give for its property "num"
  UserNames,  \* the names of endpoints
  UserFilters,\* the filters an application may ask for itself
  MaxLocales, \* how many endpoints the core has; a bound
  Absent      \* what is not there

\* The properties of an endpoint that are strings; a filter is about one of them
\* or about the number of the component.
Strings == {"ep_type", "ep_name", "msg_hash", "resp_hash"}

ASSUME EndpointQueriesAssumption ==
  /\ QTypes \subseteq EpTypes /\ Numbers \subseteq Int /\ MaxLocales \in Nat
  /\ Absent \notin QTypes /\ Absent \notin Schemas
  /\ Absent \notin UserNames /\ Absent \notin Numbers
  /\ \A f \in UserFilters : f.prop \in Strings \cup {"num"} /\ f.value # Absent

VARIABLES
  locales,    \* the endpoints of the core in the order of its table
  num,        \* the property "num" of the component
  asked,      \* the mapping being answered: the endpoint of the peer and what its
              \* application asks for,
  found       \* and the endpoint it led to

qrVars == <<locales, num, asked, found>>

-----------------------------------------------------------------------------
(* Endpoints. *)

\* What endpoint_init accepts: a message schema, but for streams, and a
\* response schema for the types with a response; it drops that of the others.
Acceptable(t, msg, resp) ==
  /\ msg = Absent => t \in StreamTypes
  /\ resp = Absent <=> t \notin TwoWay

Endpoints ==
  {e \in [type : QTypes, msg : Schemas \cup {Absent}, resp : Schemas \cup {Absent},
          name : UserNames \cup {Absent}] : Acceptable(e.type, e.msg, e.resp)}

\* ep_local_to_json: the string properties of an endpoint.
EpLocalToJson(e) ==
  [p \in Strings |->
     CASE p = "ep_type" -> e.type [] p = "ep_name" -> e.name
       [] p = "msg_hash" -> e.msg [] p = "resp_hash" -> e.resp]

-----------------------------------------------------------------------------
(* json_filter.c *)

TextFilter(p, v) == [prop |-> p, sign |-> "=", value |-> v]

\* json_get_float: -13 if it is not there, and as a float otherwise.
JsonGetFloat(n) ==
  IF n = Absent THEN -260 ELSE IF n % 10 = 0 THEN n ELSE n + 1

Compare(sign, a, b) ==
  CASE sign = "=" -> a = b [] sign = "!" -> a # b
    [] sign = ">" -> a > b [] sign = "<" -> a < b
    [] OTHER -> FALSE

\* _has_path: strcmp of a string that is not there is a crash; a string is
\* always compared for equality.
HasPath(e, n, f) ==
  CASE f.prop = "num" -> IF Compare(f.sign, JsonGetFloat(n), f.value) THEN "yes" ELSE "no"
    [] f.prop # "num" /\ EpLocalToJson(e)[f.prop] = Absent -> "crash"
    [] OTHER -> IF EpLocalToJson(e)[f.prop] = f.value THEN "yes" ELSE "no"

\* json_filter_validate_array: the first filter that fails decides.
JsonFilterValidate(e, n, q) ==
  LET failed == {i \in DOMAIN q : HasPath(e, n, q[i]) # "yes"}
  IN  IF failed = {} THEN "yes"
      ELSE HasPath(e, n, q[CHOOSE i \in failed : \A j \in failed : i <= j])

-----------------------------------------------------------------------------
(* Queries. *)

\* Mutant: the hashes are asked for before the type.
JsonBuildMapHashFirst(e, user) ==
  (IF e.resp = Absent THEN <<>>
   ELSE <<TextFilter("msg_hash", e.msg), TextFilter("resp_hash", e.resp)>>) \o
  user \o <<TextFilter("ep_type", Matching(e.type))>>

\* Mutant: only the response is asked for.
JsonBuildMapResp(e, user) ==
  user \o <<TextFilter("ep_type", Matching(e.type))>> \o
  (IF e.resp = Absent THEN <<>> ELSE <<TextFilter("resp_hash", e.resp)>>)

\* Mutant: the end that requests asks for the hashes.
JsonBuildMapRequester(e, user) ==
  user \o <<TextFilter("ep_type", Matching(e.type))>> \o
  (IF e.type \notin Requesting THEN <<>>
   ELSE <<TextFilter("msg_hash", e.msg), TextFilter("resp_hash", e.resp)>>)

\* json_build_map: both hashes only if there is a response.
JsonBuildMap(e, user) ==
  user \o <<TextFilter("ep_type", Matching(e.type))>> \o
  (IF e.resp = Absent THEN <<>>
   ELSE <<TextFilter("msg_hash", e.msg), TextFilter("resp_hash", e.resp)>>)

NotAsked == [by |-> Absent]
NotFound == [found |-> "none"]
Crashed == [found |-> "crash"]
Found(e) == [found |-> "endpoint", ep |-> e]

\* endpoint_query: the first endpoint of the table that passes.
EndpointQuery(eps, n, q) ==
  LET hit == {i \in DOMAIN eps : JsonFilterValidate(eps[i], n, q) # "no"}
      i == CHOOSE i \in hit : \A j \in hit : i <= j
  IN  CASE hit = {} -> NotFound
        [] hit # {} /\ JsonFilterValidate(eps[i], n, q) = "crash" -> Crashed
        [] OTHER -> Found(eps[i])

UserQueries == {<<>>} \cup {<<f>> : f \in UserFilters}

QrInit ==
  /\ locales = <<>>
  /\ num \in Numbers \cup {Absent}
  /\ asked = NotAsked
  /\ found = NotFound

\* ep_local_new: the place in the table is that of the id, which is random.  No
\* endpoint is taken out again: ep_local_remove ends in freed memory.
QrRegister ==
  /\ asked = NotAsked /\ Len(locales) < MaxLocales
  /\ \E e \in Endpoints, i \in 1..Len(locales) + 1 : locales' = InsertAt(locales, i, e)
  /\ UNCHANGED <<num, asked, found>>

\* proto_handle_map; the query about the component is read and not used, and
\* the name of the endpoint that asks does not matter.
Query ==
  /\ asked = NotAsked
  /\ \E e \in Endpoints, user \in UserQueries :
       /\ e.name = Absent
       /\ asked' = [by |-> e, user |-> user]
       /\ found' = EndpointQuery(locales, num, JsonBuildMap(e, user))
  /\ UNCHANGED <<locales, num>>

\* The answer goes out, unless there is none.
QrAnswer ==
  /\ asked # NotAsked /\ found # Crashed
  /\ asked' = NotAsked /\ found' = NotFound
  /\ UNCHANGED <<locales, num>>

QrNext == QrRegister \/ Query \/ QrAnswer

QrSpec == QrInit /\ [][QrNext]_qrVars

-----------------------------------------------------------------------------
(* Properties. *)

\* What the filters of an application mean.
Satisfies(e, f) ==
  IF f.prop = "num" THEN num # Absent /\ Compare(f.sign, num, f.value)
  ELSE EpLocalToJson(e)[f.prop] = f.value

\* The filters whose meaning is kept: not a number that is not there, or one
\* with such a fraction.
Kept(f) == f.prop = "num" => num # Absent /\ num % 10 = 0

\* ep_match_type and ep_match_hash, and streams; without a response the hashes
\* do not matter.
Fits(e, p) ==
  /\ EpMatchType(e.type, p.type) \/ {e.type, p.type} = StreamTypes
  /\ e.resp # Absent => e.msg = p.msg /\ e.resp = p.resp

\* Every variable has its type; an endpoint has the schemata of its type.
QrTypeOK ==
  /\ \A i \in DOMAIN locales :
       /\ locales[i].type \in QTypes
       /\ locales[i].msg = Absent => locales[i].type \in StreamTypes
       /\ locales[i].resp # Absent <=> locales[i].type \in TwoWay
  /\ Len(locales) <= MaxLocales
  /\ asked # NotAsked => asked.by \in Endpoints
  /\ found.found \in {"none", "crash", "endpoint"}

\* A mapping leads to an endpoint of the opposite type, for endpoints with a
\* response one of the same schemata, which was in the table and which the
\* application asked for, but for numbers that change their value.
MapsCounterpart ==
  found.found = "endpoint" =>
    /\ Fits(asked.by, found.ep)
    /\ \E i \in DOMAIN locales : locales[i] = found.ep
    /\ \A i \in DOMAIN asked.user : Kept(asked.user[i]) => Satisfies(found.ep, asked.user[i])

\* It is refused only when no endpoint of the core is what was asked for.
RefusesOnlyWithout ==
  found = NotFound /\ asked # NotAsked =>
    \A i \in DOMAIN locales :
      ~ /\ Fits(asked.by, locales[i])
        /\ \A j \in DOMAIN asked.user :
             Kept(asked.user[j]) /\ Satisfies(locales[i], asked.user[j])

\* A mapping leads where it should, or nowhere if there is no such endpoint.
QueryRight == MapsCounterpart /\ RefusesOnlyWithout

\* Either end may map: an endpoint that is found without a query of the
\* application would itself find the one it was found by.
FoundEitherWay ==
  found.found = "endpoint" =>
    EndpointQuery(<<asked.by>>, Absent, JsonBuildMap(found.ep, <<>>)) = Found(asked.by)

\* A query takes the core down only if the application asks for a property that
\* an endpoint of the core lacks: no filter the core adds can do it.
CrashNeedsFilter ==
  found = Crashed =>
    \E i \in DOMAIN asked.user, j \in DOMAIN locales :
      LET f == asked.user[i]
      IN  f.prop \in Strings /\ EpLocalToJson(locales[j])[f.prop] = Absent
=============================================================================
