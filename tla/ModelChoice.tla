---------------------------- MODULE ModelChoice ----------------------------
(***************************************************************************)
(* Which model a session runs: the config file that is read, the layers    *)
(* merged under it (extension fragments in scan order, then the catalog),  *)
(* the resolution of a model reference, the default selection and its      *)
(* notes, and the registry that builds clients with the keys of the        *)
(* current auth (tabit-config lib.rs, provider.rs; tabit-session           *)
(* registry.rs, model.rs).                                                 *)
(***************************************************************************)
EXTENDS Integers, Sequences, FiniteSets, SequencesExt, Functions

CONSTANTS
  UserFiles,    \* the provider tables a config file may hold
  Fragments,    \* the packages' fragments, in scan order
  Catalogs,     \* what the downloaded catalog may hold
  Defaults,     \* the default_model entries, [provider, model]
  Pointers,     \* what $TABIT_CONFIG or $TABIT_CONFIG_EXTRA may be: "unset", "missing", "file"
  MaxLogins

None == "none"
Nothing == <<>>                             \* no model
NoDefault == [provider |-> None, model |-> Nothing]  \* no default_model
VARIABLES
  pointers,  \* [config, extra, home]: what each names
  located,   \* the candidate that was read, None (bare machine) or "not_found"
  user,      \* the providers of the file read
  default,   \* its default_model
  config,    \* the merged providers: id -> [key, broken, models]
  pending,   \* the fragments not merged yet
  warned,    \* the ids a fragment lost to an earlier fragment
  booted,    \* the catalog is merged, the registry built
  auth,      \* the keys of auth.toml: id -> key
  clients,   \* the registry's cached clients: id -> the key inside
  logins

choiceVars == <<pointers, located, user, default, config, pending, warned, booted, auth, clients, logins>>

\* Alphabetical order, the order of the config's BTreeMap.
Order == <<"a", "b">>
Walk(conf) == SelectSeq(Order, LAMBDA p : p \in DOMAIN conf)
HasModel(provider, id) == \E i \in DOMAIN provider.models : provider.models[i] = id

-----------------------------------------------------------------------------
\* Loading.
Paths(at) == <<IF at.config # "unset" THEN at.config ELSE at.home, at.extra>>
\* The first candidate that is a file; with none, the empty config unless a pointer was set.
Load(at) ==
  LET files == {i \in DOMAIN Paths(at) : Paths(at)[i] \in {"file", "home"}}
      first == CHOOSE i \in files : \A j \in files : i <= j
  IN IF files # {} THEN IF Paths(at)[first] = "home" THEN "home" ELSE "pointed"
     ELSE IF at.config = "unset" /\ at.extra = "unset" THEN None ELSE "not_found"

ChoiceInit ==
  /\ pointers \in [config : Pointers, extra : Pointers, home : {"home", "missing"}]
  /\ located = Load(pointers)
  /\ user \in (IF located \in {"home", "pointed"} THEN UserFiles ELSE {<<>>})
  /\ default \in (IF located \in {"home", "pointed"} THEN Defaults ELSE {NoDefault})
  /\ config = user /\ pending = Fragments /\ warned = {} /\ booted = FALSE
  /\ auth = <<>> /\ clients = <<>> /\ logins = 0

\* TabitConfig::merge_fragment: the user's provider wins silently, an earlier fragment's loudly.
Merged(conf, fragment) == conf @@ fragment
MergeFragment ==
  /\ pending # <<>> /\ ~booted /\ located # "not_found"
  /\ LET fragment == Head(pending) IN
       /\ config' = Merged(config, fragment)
       /\ warned' = warned \cup {p \in DOMAIN fragment \cap DOMAIN config : p \notin DOMAIN user}
  /\ pending' = Tail(pending)
  /\ UNCHANGED <<pointers, located, user, default, booted, auth, clients, logins>>

\* Every catalog model, the declared ones too.
Missing(provider, models) == SelectSeq(models, LAMBDA id : ~HasModel(provider, id))
\* TabitConfig::merge_catalog: new providers whole, known ones model by model.
Filled(conf, catalog) ==
  [p \in DOMAIN conf \cup DOMAIN catalog |->
     IF p \notin DOMAIN conf THEN catalog[p]
     ELSE IF p \notin DOMAIN catalog THEN conf[p]
     ELSE [conf[p] EXCEPT !.models = @ \o Missing(conf[p], catalog[p].models)]]
MergeCatalog ==
  /\ pending = <<>> /\ ~booted /\ located # "not_found"
  /\ \E catalog \in Catalogs : config' = Filled(config, catalog)
  /\ booted' = TRUE
  /\ UNCHANGED <<pointers, located, user, default, pending, warned, auth, clients, logins>>

-----------------------------------------------------------------------------
\* Resolving.  A model id is a sequence of its slash-separated parts.
Entries == UNION {{<<p, id>> : id \in Range(config[p].models)} : p \in DOMAIN config}
Qualified(e) == <<e[1]>> \o e[2]
\* TabitConfig::model_index: every model under its bare and its qualified id.
Matches(ref) == {e \in Entries : e[2] = ref \/ Qualified(e) = ref}
\* An ambiguous reference settled by one of its models.
ResolveFirst(ref) == IF Matches(ref) # {} THEN CHOOSE e \in Matches(ref) : TRUE ELSE Nothing
\* TabitConfig::resolve_model_ref.
Resolve(ref) == IF Cardinality(Matches(ref)) = 1 THEN CHOOSE e \in Matches(ref) : TRUE ELSE Nothing

Valid(e) == e[1] \in DOMAIN config /\ HasModel(config[e[1]], e[2])

\* ModelRegistry::key_source.
KeySource(p) == IF p \notin DOMAIN config THEN None
                ELSE IF p \in DOMAIN auth THEN "stored"
                ELSE IF config[p].key \in {"env", "keyless"} THEN config[p].key ELSE None
Usable(p) == KeySource(p) # None
\* ModelRegistry::first_usable_model.
FirstUsable == LET ps == SelectSeq(Walk(config), LAMBDA p : Usable(p) /\ config[p].models # <<>>)
               IN IF ps = <<>> THEN Nothing ELSE <<ps[1], config[ps[1]].models[1]>>
\* preferred_selection: the entry default_model stands for, Nothing when it fails to resolve.
Preferred == IF default = NoDefault THEN Nothing
             ELSE IF default.provider = None THEN Resolve(default.model)
             ELSE LET e == <<default.provider, default.model>> IN IF Valid(e) THEN e ELSE Nothing
\* ModelRegistry::preference_error: what a resumed selection must be.
Runs(e) == Valid(e) /\ Usable(e[1])

\* ModelRegistry::default_selection: explicit, resumed, default_model, first usable, none.
DefaultSelection(explicit, resumed) ==
  LET stale == IF resumed # Nothing /\ ~Runs(resumed) THEN <<"resumed">> ELSE <<>>
      passed == IF default # NoDefault THEN Append(stale, "default") ELSE stale
  IN IF explicit # Nothing THEN [ok |-> Valid(explicit), chosen |-> explicit, notes |-> <<>>]
     ELSE IF resumed # Nothing /\ Runs(resumed) THEN [ok |-> TRUE, chosen |-> resumed, notes |-> <<>>]
     ELSE IF Preferred # Nothing /\ Usable(Preferred[1]) THEN [ok |-> TRUE, chosen |-> Preferred, notes |-> stale]
     ELSE IF FirstUsable # Nothing THEN [ok |-> TRUE, chosen |-> FirstUsable, notes |-> passed]
     ELSE [ok |-> TRUE, chosen |-> Nothing, notes |-> Append(passed, "teach")]

-----------------------------------------------------------------------------
\* Building.  A stored key wins over the environment's.
\* Provider::resolve_api_key, then build's keyless arm.
KeyIn(p) == CASE KeySource(p) = "stored" -> auth[p]
              [] KeySource(p) = "env" -> "env"
              [] KeySource(p) = "keyless" -> "empty"
              [] OTHER -> None
\* ModelRegistry::build and client_for: quirks and bad headers refuse the client.
Builds(e) == Valid(e) /\ Usable(e[1]) /\ (e[1] \in DOMAIN clients \/ ~config[e[1]].broken)
Build(e) ==
  /\ booted /\ Builds(e)
  /\ clients' = clients @@ [p \in {e[1]} |-> KeyIn(e[1])]
  /\ UNCHANGED <<pointers, located, user, default, config, pending, warned, booted, auth, logins>>

\* A login or logout: a fresh registry over the same config.
NewWorld(stored) == auth' = stored /\ clients' = <<>>
Login(p, key) ==
  /\ booted /\ p \in DOMAIN config /\ logins < MaxLogins /\ logins' = logins + 1
  /\ NewWorld([q \in {p} |-> key] @@ auth)
  /\ UNCHANGED <<pointers, located, user, default, config, pending, warned, booted>>
Logout(p) ==
  /\ booted /\ p \in DOMAIN auth
  /\ NewWorld(Restrict(auth, DOMAIN auth \ {p}))
  /\ UNCHANGED <<pointers, located, user, default, config, pending, warned, booted, logins>>

ChoiceNext == \/ MergeFragment \/ MergeCatalog
              \/ \E e \in Entries : Build(e)
              \/ \E p \in Range(Order) : Logout(p) \/ \E key \in {"k1", "k2"} : Login(p, key)
ChoiceSpec == ChoiceInit /\ [][ChoiceNext]_choiceVars

-----------------------------------------------------------------------------
\* A pointer that is set is never passed over for the user's own file.
PointerReplaces == located = "home" => pointers.config = "unset"

\* Every layer below leaves the user's providers as they are: fields whole, models first and in order.
UserWins == \A p \in DOMAIN user :
  /\ config[p].key = user[p].key /\ config[p].broken = user[p].broken
  /\ IsPrefix(user[p].models, config[p].models)

\* Merging never makes an id ambiguous inside its own provider.
IdsStayUnique == \A p \in DOMAIN config : IsInjective(config[p].models)

\* What a reference resolves to is the only model that answers to it.
ResolvesExactly == \A e \in Entries : \A ref \in {e[2], Qualified(e)} :
  Resolve(ref) # Nothing => ~\E other \in Entries \ {Resolve(ref)} : ref \in {other[2], Qualified(other)}

Wishes == Entries \cup {Nothing, <<"b", <<"gone">>>>}
\* A session runs what was asked of it, or is told that it does not: an explicit choice is
\* taken or refused, a resumed one and the preference are passed over only with a note.
FallbackIsTold == booted => \A explicit, resumed \in Wishes :
  LET out == DefaultSelection(explicit, resumed)  notes == Range(out.notes) IN
    /\ explicit # Nothing => out.chosen = explicit /\ (out.ok <=> Valid(explicit))
    /\ explicit = Nothing /\ resumed # Nothing /\ out.chosen # resumed => "resumed" \in notes
    /\ explicit = Nothing /\ default # NoDefault /\ out.chosen \notin {resumed, Preferred} => "default" \in notes
    /\ out.chosen = Nothing => "teach" \in notes

\* A selection nobody named is one the catalog of usable providers offers, unless none is.
ChosenIsOffered == booted => \A resumed \in Wishes :
  LET chosen == DefaultSelection(Nothing, resumed).chosen IN
    IF chosen = Nothing THEN FirstUsable = Nothing ELSE chosen \in Entries /\ Usable(chosen[1])

\* The client that serves a request carries the key the current auth resolves to.
ClientsAreCurrent == \A p \in DOMAIN clients : clients[p] = KeyIn(p)

\* NOT true of the code: what default_selection settles on can be built.
ChosenBuilds == booted => LET chosen == DefaultSelection(Nothing, Nothing).chosen
                          IN chosen # Nothing => Builds(chosen)
\* NOT true of the code: qualifying a reference, as the error says, makes it resolve.
QualifiedResolves == \A e \in Entries : Resolve(Qualified(e)) # Nothing
=============================================================================
