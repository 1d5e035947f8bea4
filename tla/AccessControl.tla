---------------------------- MODULE AccessControl ----------------------------
(***************************************************************************)
(* The access modules of a core: loading them (access_wrapper.c), their    *)
(* use for a connection (core_proto_check_auth, core_on_disconnect), and   *)
(* the lists and credentials they keep (simple_acc.c, ssl_acc.c,           *)
(* krb5_acc.c, which differ in a few functions only).                      *)
(*                                                                         *)
(* The core calls access_authenticate and access_disconnect; granting and  *)
(* revoking are the modules' interface and have no caller in it.           *)
(***************************************************************************)
EXTENDS Naturals, Sequences, FiniteSets, SequencesExt

CONSTANTS
  Kinds,       \* of {"plain", "ssl", "krb5"}: the libraries
  Subjects,    \* credentials and what lists hold
  Objects,     \* names of endpoints
  Connections, \* addresses of STATEs: one is used again when it was freed
  MaxLoads,    \* how often a library is loaded; a bound
  MaxGrants,   \* how often something is granted or revoked; a bound
  Missing      \* a property the configuration or the message lacks

ASSUME AccessAssumption ==
  /\ Kinds \subseteq {"plain", "ssl", "krb5"}
  /\ "component" \notin Objects
  /\ Missing \notin Subjects \cup Kinds
  /\ \A list \in SUBSET Subjects : list # Missing
  /\ MaxLoads \in Nat /\ MaxGrants \in Nat

\* The name in the configurations of modules/access_modules.
AclName(k) == IF k = "krb5" THEN "acl-kerberos" ELSE "acl-simple"

AllObjects == Objects \cup {"component"}

VARIABLES
  accessModules, \* the library behind each name, or Missing
  accTable,      \* of each library: object -> its list, or Missing
  credTable,     \* of each library: connection -> credential, or Missing
  connIs,        \* of each connection: "free", "open", "accepted" or "refused"
  accessModule,  \* state_ptr->access_module
  accCrashed,
  loads, grants, \* counts, for the bounds
  revoked,       \* history: what was removed from a list since it was granted,
  emptied        \* and the lists that have gone with their last entry

accVars == <<accessModules, accTable, credTable, connIs, accessModule, accCrashed,
             loads, grants, revoked, emptied>>

listVars == <<accTable, grants, revoked, emptied>>
connVars == <<credTable, connIs, accessModule>>

AccInit ==
  /\ accessModules = [n \in {AclName(k) : k \in Kinds} |-> Missing]
  /\ accTable = [k \in Kinds |-> [o \in AllObjects |-> Missing]]
  /\ credTable = [k \in Kinds |-> [c \in Connections |-> Missing]]
  /\ connIs = [c \in Connections |-> "free"]
  /\ accessModule = [c \in Connections |-> Missing]
  /\ accCrashed = FALSE /\ loads = 0 /\ grants = 0
  /\ revoked = {} /\ emptied = {}

LoadedKinds == {accessModules[n] : n \in DOMAIN accessModules} \ {Missing}

-----------------------------------------------------------------------------
(* Loading.  The library's tables are its globals: loading it again makes   *)
(* them new.                                                                *)

\* strtok_r is given what the configuration lists, NULL if it lists nothing;
\* Kerberos' access_set_credential copies from a credential that the
\* configuration need not have, and reads past one that is a name.
LoadCrashes(k, granted, cred) ==
  \/ granted = Missing
  \/ k = "krb5" /\ cred = Missing

AccessLoadModule(k, granted, cred) ==
  /\ ~accCrashed /\ loads < MaxLoads
  /\ loads' = loads + 1
  /\ IF LoadCrashes(k, granted, cred)
     THEN accCrashed' = TRUE /\ UNCHANGED <<accessModules, accTable, credTable, revoked, emptied>>
     ELSE /\ accCrashed' \in (IF k = "krb5" THEN BOOLEAN ELSE {FALSE})
          /\ accessModules' = [accessModules EXCEPT ![AclName(k)] = k]
          /\ accTable' = [accTable EXCEPT ![k] =
               [o \in AllObjects |-> IF o = "component" /\ granted # {} THEN granted ELSE Missing]]
          /\ credTable' = [credTable EXCEPT ![k] = [c \in Connections |-> Missing]]
          /\ revoked' = {x \in revoked : x[1] # k}
          /\ emptied' = {x \in emptied : x[1] # k}
  /\ UNCHANGED <<connIs, accessModule, grants>>

-----------------------------------------------------------------------------
(* Connections. *)

\* state_new
NewConnection(c) ==
  /\ ~accCrashed /\ connIs[c] = "free"
  /\ connIs' = [connIs EXCEPT ![c] = "open"]
  /\ accessModule' = [accessModule EXCEPT ![c] = Missing]
  /\ UNCHANGED <<accessModules, listVars, credTable, accCrashed, loads>>

\* What access_authenticate may return.  The plain module asks about no
\* endpoint, to which the answer is -1; the SSL module does not verify;
\* Kerberos returns nothing of its own when the credential is wrong.
AccessAuthenticate(k) ==
  CASE k = "plain" -> {"yes"}
    [] k = "ssl"   -> {"yes"}
    [] k = "krb5"  -> {"yes", "yes, unverified", "no"}

\* map_update refuses a value that is missing.  The value is the address of a
\* string that core_proto_check_auth frees when it is done, so access_has_access
\* must not look into it, and nobody calls it.
KeptCredential(k, c, cred) == IF cred = Missing THEN credTable[k][c] ELSE cred

\* The modules that may decide about an offer, a sequence of names with
\* credentials: the first one loaded that does not say no.
Decides(offer, i, answers) ==
  /\ accessModules[offer[i].name] # Missing /\ answers[i] # "no"
  /\ \A j \in 1..(i - 1) : accessModules[offer[j].name] = Missing \/ answers[j] = "no"

\* The SSL module takes the length of a credential it was not given.
ReadsMissing(offer, answers) ==
  \E i \in DOMAIN offer :
    /\ accessModules[offer[i].name] = "ssl" /\ offer[i].cred = Missing
    /\ \A j \in 1..(i - 1) : accessModules[offer[j].name] = Missing \/ answers[j] = "no"

\* core_proto_check_auth
CheckAuth(c, offer) ==
  /\ ~accCrashed /\ connIs[c] = "open"
  /\ \E answers \in [DOMAIN offer -> {"yes", "yes, unverified", "no"}] :
       /\ \A i \in DOMAIN offer :
            LET k == accessModules[offer[i].name] IN
              answers[i] \in IF k = Missing THEN {"no"} ELSE AccessAuthenticate(k)
       /\ CASE LoadedKinds = {} ->
                 /\ connIs' = [connIs EXCEPT ![c] = "accepted"]
                 /\ UNCHANGED <<credTable, accessModule, accCrashed>>
            [] LoadedKinds # {} /\ ReadsMissing(offer, answers) ->
                 accCrashed' = TRUE /\ UNCHANGED connVars
            [] LoadedKinds # {} /\ ~ReadsMissing(offer, answers)
                 /\ (\E i \in DOMAIN offer : Decides(offer, i, answers)) ->
                 \E i \in DOMAIN offer :
                   LET k == accessModules[offer[i].name] IN
                     /\ Decides(offer, i, answers)
                     /\ connIs' = [connIs EXCEPT ![c] = "accepted"]
                     /\ accessModule' = [accessModule EXCEPT ![c] = k]
                     /\ credTable' = IF answers[i] = "yes"
                                     THEN [credTable EXCEPT ![k][c] = KeptCredential(k, c, offer[i].cred)]
                                     ELSE credTable
                     /\ UNCHANGED accCrashed
            [] OTHER ->
                 /\ connIs' = [connIs EXCEPT ![c] = "refused"]
                 /\ UNCHANGED <<credTable, accessModule, accCrashed>>
  /\ UNCHANGED <<accessModules, listVars, loads>>

\* Mutant: the module is not told.
AccessDisconnectNot(c) == credTable

\* access_disconnect, of the module that accepted the connection.
AccessDisconnect(c) ==
  IF accessModule[c] = Missing THEN credTable
  ELSE [credTable EXCEPT ![accessModule[c]][c] = Missing]

\* core_on_disconnect; state_free.
Disconnected(c) ==
  /\ ~accCrashed /\ connIs[c] # "free"
  /\ credTable' = AccessDisconnect(c)
  /\ connIs' = [connIs EXCEPT ![c] = "free"]
  /\ UNCHANGED <<accessModules, listVars, accessModule, accCrashed, loads>>

-----------------------------------------------------------------------------
(* Lists. *)

\* acl_add_object: a list begins with what the component's has, and without
\* one of the component there is nothing to read.
AclAddObject(k, o) ==
  IF o = "component" THEN {} ELSE accTable[k]["component"]

\* Mutant: a list is made even if there is one.
AclListAnew(k, o) == AclAddObject(k, o)

\* The list that an entry is added to.
AclList(k, o) ==
  IF accTable[k][o] # Missing THEN accTable[k][o] ELSE AclAddObject(k, o)

\* access_add_access
AccessAddAccess(k, o, subject) ==
  /\ ~accCrashed /\ k \in LoadedKinds /\ grants < MaxGrants
  /\ grants' = grants + 1
  /\ IF AclList(k, o) = Missing
     THEN accCrashed' = TRUE /\ UNCHANGED <<accTable, revoked>>
     ELSE /\ accTable' = [accTable EXCEPT ![k][o] = AclList(k, o) \cup {subject}]
          /\ revoked' = revoked \ {<<k, o, subject>>}
          /\ UNCHANGED accCrashed
  /\ UNCHANGED <<accessModules, connVars, loads, emptied>>

\* access_rm_access: the list of an endpoint goes with its last entry, that of
\* the component stays.
AccessRmAccess(k, o, subject) ==
  /\ ~accCrashed /\ k \in LoadedKinds /\ grants < MaxGrants
  /\ grants' = grants + 1
  /\ accTable[k][o] # Missing
  /\ LET left == accTable[k][o] \ {subject} IN
       IF left = {} /\ o # "component"
       THEN /\ accTable' = [accTable EXCEPT ![k][o] = Missing]
            /\ emptied' = emptied \cup {<<k, o>>}
       ELSE /\ accTable' = [accTable EXCEPT ![k][o] = left]
            /\ UNCHANGED emptied
  /\ revoked' = IF subject \in accTable[k][o] THEN revoked \cup {<<k, o, subject>>} ELSE revoked
  /\ UNCHANGED <<accessModules, connVars, accCrashed, loads>>

-----------------------------------------------------------------------------
Credentials == Subjects \cup {Missing}

\* What another core's modules send: at most two names.
Offers ==
  BoundedSeq([name : DOMAIN accessModules, cred : Credentials], 2)

AccNext ==
  \/ \E k \in Kinds, granted \in (SUBSET Subjects) \cup {Missing}, cred \in Credentials :
       AccessLoadModule(k, granted, cred)
  \/ \E c \in Connections :
       \/ NewConnection(c) \/ Disconnected(c)
       \/ \E offer \in Offers : CheckAuth(c, offer)
  \/ \E k \in Kinds, o \in AllObjects, subject \in Subjects :
       AccessAddAccess(k, o, subject) \/ AccessRmAccess(k, o, subject)

AccSpec == AccInit /\ [][AccNext]_accVars

-----------------------------------------------------------------------------
(* Properties. *)

\* Every variable has its type, and only an accepted connection has a module.
AccTypeOK ==
  /\ \A k \in Kinds :
       /\ \A o \in AllObjects : accTable[k][o] \in (SUBSET Subjects) \cup {Missing}
       /\ \A c \in Connections : credTable[k][c] \in Credentials
  /\ \A c \in Connections :
       /\ connIs[c] \in {"free", "open", "accepted", "refused"}
       /\ accessModule[c] # Missing /\ connIs[c] # "free" => connIs[c] = "accepted"

\* A credential is kept for connections that are accepted and nobody else: not
\* for one that was refused or has ended, whose STATE's address the next one
\* may have, nor in another module than the one it would be asked of.
KeptForAccepted ==
  \A k \in Kinds, c \in Connections :
    credTable[k][c] # Missing => connIs[c] = "accepted" /\ accessModule[c] = k

\* What was removed from a list is not on it again without having been
\* granted, unless the list had gone with its last entry and was copied anew
\* from the component's.
NotGrantedAgain ==
  \A x \in revoked :
    /\ accTable[x[1]][x[2]] # Missing
    /\ x[3] \in accTable[x[1]][x[2]]
    => <<x[1], x[2]>> \in emptied
=============================================================================
