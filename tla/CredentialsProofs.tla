--------------------------- MODULE CredentialsProofs ---------------------------
(***************************************************************************)
(* Theorems about Credentials for every file, environment and set of        *)
(* databases: the bundle in use comes from the source reported for it.      *)
(***************************************************************************)
EXTENDS Credentials, TLAPS

-----------------------------------------------------------------------------
(* Strings.                                                                 *)

\* Strip removes white space and nothing else.
LEMMA StripPlain ==
    ASSUME NEW v \in Strings, ~Padded(v)
    PROVE  Strip(v) = v
<1>1. CASE v \in {None, Blank}
  BY <1>1 DEF Strip
<1>2. CASE v \in Texts \X BOOLEAN
  <2>1. PICK t \in Texts, w \in BOOLEAN : v = <<t, w>>
    BY <1>2
  <2>2. v \notin {None, Blank}
    BY <1>2, StringsDiffer
  <2>3. w = FALSE
    BY <2>1, <2>2 DEF Padded
  <2> QED
    BY <2>1, <2>2, <2>3 DEF Strip, Plain, Text
<1> QED
  BY <1>1, <1>2 DEF Strings

\* What it returns is a string without white space around it.
LEMMA StripType ==
    ASSUME NEW v \in Strings
    PROVE  /\ Strip(v) \in Strings /\ ~Padded(Strip(v))
           /\ Strip(v) = None <=> v = None
           /\ Strip(v) = Blank <=> v = Blank
<1>1. CASE v \in {None, Blank}
  BY <1>1 DEF Strip, Padded, Strings
<1>2. CASE v \in Texts \X BOOLEAN
  <2>1. PICK t \in Texts, w \in BOOLEAN : v = <<t, w>>
    BY <1>2
  <2>2. v \notin {None, Blank}
    BY <1>2, StringsDiffer
  <2>3. Strip(v) = <<t, FALSE>>
    BY <2>1, <2>2 DEF Strip, Plain, Text
  <2>4. <<t, FALSE>> \in Texts \X BOOLEAN
    BY <2>1
  <2>5. <<t, FALSE>> \notin {None, Blank}
    BY <2>4, StringsDiffer
  <2> QED
    BY <2>2, <2>3, <2>4, <2>5 DEF Padded, Strings
<1> QED
  BY <1>1, <1>2 DEF Strings

\* Stripping twice is stripping once.
LEMMA StripStrip ==
    ASSUME NEW v \in Strings
    PROVE  Strip(Strip(v)) = Strip(v)
BY StripType, StripPlain

\* The fields of the inputs are strings.
LEMMA GivenStrings ==
    ASSUME NEW g \in Given, NEW t \in Tiers
    PROVE  g[t].token \in Strings /\ g[t].profile \in Strings
BY InputsAreStrings

-----------------------------------------------------------------------------
(* The inductive invariant: what load_config computed is still there when   *)
(* the tiers are looked at, and what they return fits the source.           *)

Loaded ==
    at = "resolve" =>
        /\ Blank \notin Blanks
        /\ config = [token   |-> Strip(Overlaid(File.token, Env("KIROX").token)),
                     profile |-> Strip(Overlaid(File.profile, Env("KIROX").profile))]

SourceInv ==
    /\ given \in Given /\ next \in Nat \ {0}
    /\ Loaded
    /\ auth = Nobody \/ PaddedKirox \/ From(auth.source)

\* The invariant holds before the configuration is loaded.
LEMMA SourceInit == Init => SourceInv
BY DEF Init, SourceInv, Loaded

\* Returning a bundle re-establishes it, provided the bundle fits its source.
LEMMA ReturnStep ==
    ASSUME SourceInv, NEW token, NEW profile, NEW source,
           Return(token, profile, source),
           PaddedKirox \/
           \/ /\ source \in Tiers
              /\ Strip(token) = Strip(given[source].token)
              /\ profile # None => Strip(profile) = Strip(given[source].profile)
           \/ /\ source \in Databases
              /\ token = Plain(source) /\ profile \in {None, Plain(source)}
    PROVE  SourceInv'
<1>1. /\ auth'.token = token /\ auth'.profile = profile /\ auth'.source = source
      /\ given' = given /\ paths' = paths /\ at' = "done" /\ next' = 1
  BY DEF Return, inputs
<1>2. PaddedKirox' = PaddedKirox
  BY <1>1 DEF PaddedKirox, Env
<1>3. given' \in Given /\ next' \in Nat \ {0} /\ Loaded'
  BY <1>1 DEF SourceInv, Loaded
<1>4. CASE PaddedKirox
  BY <1>2, <1>3, <1>4 DEF SourceInv
<1>5. CASE ~PaddedKirox
  <2>1. From(auth.source)'
    BY <1>1, <1>5 DEF From
  <2> QED
    BY <1>3, <2>1 DEF SourceInv
<1> QED
  BY <1>4, <1>5

\* A step that leaves the bundle and the inputs alone keeps it, unless it is
\* load_config.
LEMMA QuietStep ==
    ASSUME SourceInv, UNCHANGED <<inputs, config, auth>>,
           at' # "resolve" \/ at' = at, next' \in {1, next, next + 1}
    PROVE  SourceInv'
<1>1. given' = given /\ auth' = auth /\ config' = config
  BY DEF inputs
<1>2. PaddedKirox' = PaddedKirox /\ From(auth.source)' = From(auth.source)
  BY <1>1 DEF PaddedKirox, Env, From
<1>3. Loaded'
  BY <1>1 DEF SourceInv, Loaded, Blanks, File, Env
<1> QED
  BY <1>1, <1>2, <1>3 DEF SourceInv

\* The crux: a configured value that _resolve takes for the file's is the
\* file's, unless white space hides the variable it came from.
LEMMA ConfigStep ==
    ASSUME SourceInv, TakeConfig, ~PaddedKirox
    PROVE  /\ Strip(config.token) = Strip(File.token)
           /\ TrustedProfile # None => Strip(TrustedProfile) = Strip(File.profile)
<1> DEFINE kt == Env("KIROX").token
           kp == Env("KIROX").profile
           ft == File.token
           fp == File.profile
<1>1. /\ {kt, kp, ft, fp} \subseteq Strings
      /\ Blank \notin {kt, kp, ft, fp}
  BY GivenStrings DEF SourceInv, TakeConfig, Loaded, Blanks, File, Env, Tiers
<1>2. /\ config.token = Strip(Overlaid(ft, kt))
      /\ config.profile = Strip(Overlaid(fp, kp))
  BY DEF SourceInv, TakeConfig, Loaded
<1>3. Strip(kt) = kt /\ Strip(kp) = kp
  BY <1>1, StripPlain DEF PaddedKirox
<1>4. Strip(Strip(ft)) = Strip(ft) /\ Strip(Strip(fp)) = Strip(fp)
  BY <1>1, StripStrip
<1>5. kt = None
  BY <1>1, <1>2, <1>3 DEF TakeConfig, DirectToken, IsKirox, Nonempty, Overlaid
<1>6. TrustedProfile # None => kp = None
  BY <1>1, <1>2, <1>3 DEF TrustedProfile, IsKirox, Nonempty, Overlaid
<1>7. TrustedProfile # None => TrustedProfile = config.profile
  BY DEF TrustedProfile
<1> HIDE DEF kt, kp, ft, fp
<1> QED
  BY <1>2, <1>4, <1>5, <1>6, <1>7 DEF Overlaid, ft, fp

\* Every step preserves the invariant.
LEMMA SourceStep == SourceInv /\ [Next]_vars => SourceInv'
<1> SUFFICES ASSUME SourceInv, [Next]_vars PROVE SourceInv'
  OBVIOUS
<1>1. CASE LoadConfig
  <2>1. given' = given /\ auth' = auth /\ next' = next
    BY <1>1 DEF LoadConfig, inputs
  <2>2. PaddedKirox' = PaddedKirox /\ From(auth.source)' = From(auth.source)
    BY <2>1 DEF PaddedKirox, Env, From
  <2>3. Loaded'
    BY <1>1, <2>1 DEF LoadConfig, Loaded, Blanks, File, Env
  <2> QED
    BY <2>1, <2>2, <2>3 DEF SourceInv
<1>2. CASE TakeExplicit
  <2>1. ExplicitToken = given["explicit"].token
    BY <1>2 DEF TakeExplicit, ExplicitToken, Nonempty
  <2>2. Nonempty(given["explicit"].profile) # None =>
            Nonempty(given["explicit"].profile) = given["explicit"].profile
    BY DEF Nonempty
  <2> QED
    BY <1>2, <2>1, <2>2, ReturnStep DEF TakeExplicit, Tiers
<1>3. CASE TakeConfig
  BY <1>3, ConfigStep, ReturnStep DEF TakeConfig, File, Tiers
<1>4. CASE TakeEnvironment
  <2>1. PICK i \in 1 .. Len(Prefixes) :
            /\ HasToken(Prefixes[i])
            /\ Return(Nonempty(Env(Prefixes[i]).token),
                      Nonempty(Env(Prefixes[i]).profile), Prefixes[i])
    BY <1>4 DEF TakeEnvironment
  <2>2. Prefixes[i] \in {"KIROX", "ASSISTANT"}
    BY DEF Prefixes
  <2> DEFINE p == Prefixes[i]
  <2>3. Nonempty(Env(p).token) = given[p].token
    BY <2>1 DEF HasToken, Nonempty, Env
  <2>4. Nonempty(Env(p).profile) # None =>
            Nonempty(Env(p).profile) = given[p].profile
    BY DEF Nonempty, Env
  <2> QED
    BY <2>1, <2>2, <2>3, <2>4, ReturnStep DEF Tiers
<1>5. CASE NoToken
  BY <1>5, QuietStep DEF NoToken, inputs
<1>6. ASSUME NEW db \in Databases, ReadSqlite(db) PROVE SourceInv'
  BY <1>6, ReturnStep DEF ReadSqlite
<1>7. CASE NoCredentials
  BY <1>7, QuietStep DEF NoCredentials, inputs
<1>8. CASE ReadConfigured
  <2>1. ConfiguredDb \in Databases
    BY <1>8 DEF ReadConfigured, ConfiguredDb, Databases, Configured
  <2> QED
    BY <1>6, <1>7, <1>8, <2>1 DEF ReadConfigured, ConfiguredFails
<1>9. CASE NoConfigured
  BY <1>9, QuietStep DEF NoConfigured, inputs
<1>10. CASE ReadFixed
  <2>1. CASE ReadSqlite(Fixed[next])
    <3>1. next \in 1 .. Len(Fixed)
      BY <1>10, FixedIsSequence DEF SourceInv, ReadFixed
    <3>2. Fixed[next] \in Databases
      BY <3>1 DEF Databases
    <3> QED
      BY <1>6, <2>1, <3>2
  <2>2. CASE NextLocation
    BY <1>10, <2>2, QuietStep DEF NextLocation, inputs
  <2> QED
    BY <1>10, <2>1, <2>2 DEF ReadFixed
<1>11. CASE NoFixed
  BY <1>7, <1>11 DEF NoFixed
<1>12. CASE Refresh
  BY <1>12, QuietStep DEF Refresh, inputs
<1>13. CASE Failed \/ UNCHANGED vars
  BY <1>13, QuietStep DEF Failed, vars, inputs
<1> QED
  BY <1>1, <1>2, <1>3, <1>4, <1>5, <1>8, <1>9, <1>10, <1>11, <1>12, <1>13 DEF Next

\* Whatever the file and the environment hold, as long as no KIROX_* value is
\* padded, the token and the profile in use are those of one source, the
\* reported one, at startup and after every refresh.
THEOREM OneSource == Spec => []BundleFromItsSource
<1>1. SourceInv => BundleFromItsSource
  BY DEF SourceInv, BundleFromItsSource
<1> QED
  BY SourceInit, SourceStep, <1>1, PTL DEF Spec

-----------------------------------------------------------------------------
(* Types.                                                                   *)

\* A refresh starts from credentials, and load_config leaves no blank behind.
TypeInv ==
    /\ TypeOK /\ SourceInv
    /\ refreshing => auth.token \notin {None, Blank}
    /\ at = "resolve" => config.token \in Strings \ {Blank}

\* What _resolve returns is typed if its arguments are.
LEMMA ReturnTypes ==
    ASSUME TypeInv, NEW token, NEW profile, NEW source \in Tiers \cup Databases,
           Return(token, profile, source), token \notin {None, Blank}
    PROVE  TypeOK' /\ ~refreshing' /\ at' # "resolve"
<1>1. Len(Fixed) \in Nat
  BY FixedIsSequence
<1>2. refreshing' = FALSE
  BY DEF Return
<1>3. refreshing' \in BOOLEAN /\ ~refreshing'
  BY <1>2, Zenon
<1>4. ValuesOK' /\ at' # "resolve"
  BY <1>1 DEF Return, inputs, TypeInv, TypeOK, ValuesOK
<1> QED
  BY <1>3, <1>4 DEF TypeOK

\* Every step keeps the types.
LEMMA TypeStep == TypeInv /\ [Next]_vars => TypeInv'
<1> SUFFICES ASSUME TypeInv, [Next]_vars PROVE TypeInv'
  OBVIOUS
<1>1. SourceInv'
  BY SourceStep DEF TypeInv
<1>2. Len(Fixed) \in Nat
  BY FixedIsSequence
<1> USE DEF TypeInv, TypeOK, ValuesOK
<1>3. CASE LoadConfig
  <2>1. at' = "resolve" => config'.token \in Strings \ {Blank}
    <3>1. SUFFICES ASSUME at' = "resolve" PROVE config'.token \in Strings \ {Blank}
      OBVIOUS
    <3>2. Blank \notin Blanks /\ config'.token = Strip(Overlaid(File.token, Env("KIROX").token))
      BY <1>3, <3>1 DEF LoadConfig
    <3>3. Overlaid(File.token, Env("KIROX").token) \in Strings \ {Blank}
      BY <3>2, GivenStrings DEF SourceInv, Overlaid, File, Env, Blanks, Tiers
    <3> QED
      BY <3>2, <3>3, StripType
  <2> QED
    BY <1>1, <1>2, <1>3, <2>1 DEF LoadConfig, inputs
<1>4. CASE TakeExplicit
  <2>1. ExplicitToken \notin {None, Blank}
    BY <1>4, StringsDiffer DEF TakeExplicit, ExplicitToken, Nonempty
  <2> QED
    BY <1>1, <1>4, <2>1, ReturnTypes DEF TakeExplicit, Tiers
<1>5. CASE TakeConfig
  <2>1. config.token \notin {None, Blank}
    BY <1>5 DEF TakeConfig, DirectToken
  <2> QED
    BY <1>1, <1>5, <2>1, ReturnTypes DEF TakeConfig, Tiers
<1>6. CASE TakeEnvironment
  <2>1. PICK i \in 1 .. Len(Prefixes) :
            /\ HasToken(Prefixes[i])
            /\ Return(Nonempty(Env(Prefixes[i]).token),
                      Nonempty(Env(Prefixes[i]).profile), Prefixes[i])
    BY <1>6 DEF TakeEnvironment
  <2>2. Prefixes[i] \in Tiers
    BY DEF Prefixes, Tiers
  <2>3. Nonempty(Env(Prefixes[i]).token) \notin {None, Blank}
    BY <2>1, StringsDiffer DEF HasToken, Nonempty
  <2> QED
    BY <1>1, <2>1, <2>2, <2>3, ReturnTypes
<1>7. ASSUME NEW db \in Databases, ReadSqlite(db) PROVE TypeInv'
  <2>1. Plain(db) \notin {None, Blank}
    <3>1. Plain(db) \in Databases \X BOOLEAN
      BY DEF Plain
    <3> QED
      BY <3>1, StringsDiffer
  <2> QED
    BY <1>1, <1>7, <2>1, ReturnTypes DEF ReadSqlite
<1>8. CASE NoCredentials
  <2>1. refreshing' = FALSE
    BY <1>8 DEF NoCredentials
  <2>2. refreshing' \in BOOLEAN /\ ~refreshing'
    BY <2>1, Zenon
  <2>3. ValuesOK' /\ at' # "resolve"
    BY <1>2, <1>8 DEF NoCredentials, inputs
  <2> QED
    BY <1>1, <2>2, <2>3
<1>9. CASE ReadConfigured
  <2>1. ConfiguredDb \in Databases
    BY <1>9 DEF ReadConfigured, ConfiguredDb, Databases, Configured
  <2> QED
    BY <1>7, <1>8, <1>9, <2>1 DEF ReadConfigured, ConfiguredFails
<1>10. CASE ReadFixed
  <2>1. next \in 1 .. Len(Fixed)
    BY <1>2, <1>10 DEF ReadFixed
  <2>2. Fixed[next] \in Databases
    BY <2>1 DEF Databases
  <2>3. CASE NextLocation
    BY <1>1, <1>2, <2>1, <2>3 DEF NextLocation, inputs
  <2> QED
    BY <1>7, <1>10, <2>2, <2>3 DEF ReadFixed
<1>11. CASE NoToken \/ NoConfigured
  BY <1>1, <1>2, <1>11 DEF NoToken, NoConfigured, inputs
<1>12. CASE Refresh
  BY <1>1, <1>2, <1>12 DEF Refresh, inputs
<1>13. CASE NoFixed
  BY <1>8, <1>13 DEF NoFixed
<1>14. CASE Failed \/ UNCHANGED vars
  BY <1>1, <1>14 DEF Failed, vars
<1> QED
  BY <1>3, <1>4, <1>5, <1>6, <1>9, <1>10, <1>11, <1>12, <1>13, <1>14 DEF Next

\* The types hold before the configuration is loaded.
LEMMA TypeInit == Init => TypeInv
<1> SUFFICES ASSUME Init PROVE TypeInv
  OBVIOUS
<1>1. refreshing = FALSE
  BY DEF Init
<1>2. refreshing \in BOOLEAN /\ ~refreshing
  BY <1>1, Zenon
<1>3. DOMAIN given = Tiers
  BY InputsAreStrings DEF Init
<1>4. ValuesOK /\ at # "resolve"
  BY <1>3, FixedIsSequence DEF Init, ValuesOK, Nobody
<1> QED
  BY <1>2, <1>4, SourceInit DEF TypeInv, TypeOK

\* Every variable keeps to its type: in particular whoever is given
\* credentials is given a token.
THEOREM TypeInvariant == Spec => []TypeOK
<1>2. TypeInv => TypeOK
  BY DEF TypeInv
<1> QED
  BY TypeInit, <1>2, TypeStep, PTL DEF Spec

-----------------------------------------------------------------------------
(* Which database.                                                          *)

DbInv == TypeInv /\ ConfiguredDatabaseOnly

\* Every step keeps away from the known locations if there is a database to
\* use instead.
LEMMA DbStep == DbInv /\ [Next]_vars => DbInv'
<1> SUFFICES ASSUME DbInv, [Next]_vars PROVE ConfiguredDatabaseOnly'
  BY TypeStep DEF DbInv
<1> USE DEF DbInv, ConfiguredDatabaseOnly
<1>1. ASSUME NEW token, NEW profile, NEW source,
             Return(token, profile, source),
             source \in Databases \ Configured => ConfigDb \notin paths
      PROVE  ConfiguredDatabaseOnly'
  <2>1. paths' = paths /\ at' = "done" /\ auth'.source = source
    BY <1>1 DEF Return, inputs
  <2> QED
    BY <1>1, <2>1
<1>2. CASE NoConfigured
  <2>1. None \notin Configured
    BY NamesDiffer DEF Databases
  <2>2. ConfiguredDb = None
    BY <1>2 DEF NoConfigured
  <2>3. ConfigDb \notin paths
    BY <2>1, <2>2 DEF ConfiguredDb, Configured
  <2>4. CASE refreshing
    BY <1>2, <2>3, <2>4 DEF NoConfigured, inputs
  <2>5. CASE ~refreshing
    <3>1. KiroxDb \notin paths /\ AssistantDb \notin paths
      BY <2>1, <2>2, <2>3, <2>5 DEF ConfiguredDb, Configured
    <3>2. paths = {}
      BY <2>3, <3>1 DEF TypeInv, TypeOK, ValuesOK, Configured
    <3> QED
      BY <1>2, <2>3, <3>2 DEF NoConfigured, inputs
  <2> QED
    BY <2>4, <2>5
<1>3. ASSUME NoCredentials PROVE ConfiguredDatabaseOnly'
  BY <1>3 DEF NoCredentials, inputs
<1>4. CASE ReadConfigured
  <2>1. ConfiguredDb \in Configured
    BY <1>4 DEF ReadConfigured, ConfiguredDb, Configured
  <2>2. CASE ReadSqlite(ConfiguredDb)
    BY <1>1, <2>1, <2>2 DEF ReadSqlite
  <2> QED
    BY <1>3, <1>4, <2>2 DEF ReadConfigured, ConfiguredFails
<1>5. CASE ReadFixed
  <2>1. CASE ReadSqlite(Fixed[next])
    BY <1>1, <1>5, <2>1 DEF ReadSqlite, ReadFixed
  <2>2. CASE NextLocation
    BY <2>2 DEF NextLocation, inputs
  <2> QED
    BY <1>5, <2>1, <2>2 DEF ReadFixed
<1>6. CASE TakeExplicit \/ TakeConfig
  BY <1>1, <1>6, NamesDiffer DEF TakeExplicit, TakeConfig, Tiers
<1>7. CASE TakeEnvironment
  <2>1. PICK i \in 1 .. Len(Prefixes) :
            Return(Nonempty(Env(Prefixes[i]).token),
                   Nonempty(Env(Prefixes[i]).profile), Prefixes[i])
    BY <1>7 DEF TakeEnvironment
  <2>2. Prefixes[i] \in Tiers
    BY DEF Prefixes, Tiers
  <2> QED
    BY <1>1, <2>1, <2>2, NamesDiffer
<1>8. CASE LoadConfig \/ NoToken \/ Refresh
  BY <1>8 DEF LoadConfig, NoToken, Refresh, inputs
<1>9. CASE NoFixed
  BY <1>3, <1>9 DEF NoFixed
<1>10. CASE Failed \/ UNCHANGED vars
  BY <1>10 DEF Failed, vars
<1> QED
  BY <1>2, <1>4, <1>5, <1>6, <1>7, <1>8, <1>9, <1>10 DEF Next

\* The known locations are never read while a configured database is to be:
\* a database that was configured and fails is not silently replaced.
THEOREM NoSilentFallback == Spec => []ConfiguredDatabaseOnly
<1>1. Init => DbInv
  BY TypeInit, NamesDiffer DEF Init, DbInv, ConfiguredDatabaseOnly, Nobody
<1>2. DbInv => ConfiguredDatabaseOnly
  BY DEF DbInv
<1> QED
  BY <1>1, <1>2, DbStep, PTL DEF Spec
-----------------------------------------------------------------------------
(* Precedence.                                                              *)

First(i) == Holds(i) /\ \A j \in 1 .. (i - 1) : ~Holds(j)
FirstToken(token) ==
    \A i \in 1 .. 4 : First(i) => Strip(token) = Strip(given[Precedence[i]].token)

\* What came from a tier came from the first one, and stays when a refresh
\* fails; the databases are left to those who have none.
FirstInv ==
    /\ TypeInv
    /\ auth.source \in Tiers => FirstToken(auth.token)
    /\ at \in {"databases", "fixed"} => refreshing \/ \A i \in 1 .. 4 : ~Holds(i)

\* A tier holds a token if the variable, the field or the argument is there
\* and is not white space.
LEMMA Held ==
    ASSUME given \in Given
    PROVE  /\ Holds(1) <=> ExplicitToken # None
           /\ Holds(2) <=> HasToken("KIROX")
           /\ Holds(3) <=> File.token \notin {None, Blank}
           /\ Holds(4) <=> HasToken("ASSISTANT")
<1>1. \A t \in Tiers : /\ Strip(given[t].token) \notin {None, Blank}
                             <=> given[t].token \notin {None, Blank}
                       /\ Nonempty(given[t].token) # None
                             <=> given[t].token \notin {None, Blank}
  BY GivenStrings, StripType, StringsDiffer DEF Nonempty
<1>2. /\ Precedence[1] = "explicit" /\ Precedence[2] = "KIROX"
      /\ Precedence[3] = "config" /\ Precedence[4] = "ASSISTANT"
  BY DEF Precedence
<1> QED
  BY <1>1, <1>2 DEF Holds, ExplicitToken, HasToken, File, Env, Tiers

\* Which of the four is the first, one condition each.
LEMMA WhichIsFirst ==
    /\ First(1) <=> Holds(1)
    /\ First(2) <=> Holds(2) /\ ~Holds(1)
    /\ First(3) <=> Holds(3) /\ ~Holds(1) /\ ~Holds(2)
    /\ First(4) <=> Holds(4) /\ ~Holds(1) /\ ~Holds(2) /\ ~Holds(3)
  BY DEF First

\* What the configuration says of the token once it has been loaded.
LEMMA LoadedToken ==
    ASSUME SourceInv, at = "resolve"
    PROVE  /\ HasToken("KIROX") => /\ config.token # None
                                   /\ Strip(config.token) = Strip(Env("KIROX").token)
           /\ ~HasToken("KIROX") => /\ config.token # None <=> Holds(3)
                                    /\ Strip(config.token) = Strip(File.token)
                                    /\ ~IsKirox(config.token, Env("KIROX").token)
<1> DEFINE kt == Env("KIROX").token
           ft == File.token
<1>1. kt \in Strings \ {Blank} /\ ft \in Strings \ {Blank}
  BY GivenStrings DEF SourceInv, Loaded, Blanks, File, Env, Tiers
<1>2. config.token = Strip(Overlaid(ft, kt))
  BY DEF SourceInv, Loaded
<1>3. HasToken("KIROX") <=> kt # None
  BY <1>1 DEF HasToken, Nonempty
<1>4. Holds(3) <=> ft # None
  BY <1>1, Held DEF SourceInv
<1>5. CASE kt # None
  <2>1. config.token = Strip(kt)
    BY <1>2, <1>5 DEF Overlaid
  <2> QED
    BY <1>1, <1>3, <1>5, <2>1, StripType, StripStrip
<1>6. CASE kt = None
  <2>1. config.token = Strip(ft)
    BY <1>2, <1>6 DEF Overlaid
  <2>2. ~IsKirox(config.token, kt)
    BY <1>6, StringsDiffer DEF IsKirox, Nonempty
  <2> QED
    BY <1>1, <1>3, <1>4, <1>6, <2>1, <2>2, StripType, StripStrip
<1> QED
  BY <1>5, <1>6

\* Every step keeps to the order of precedence.
LEMMA FirstStep == FirstInv /\ [Next]_vars => FirstInv'
<1> SUFFICES ASSUME FirstInv, [Next]_vars PROVE FirstInv'
  OBVIOUS
<1>1. TypeInv' /\ given \in Given /\ given' = given
  BY TypeStep DEF FirstInv, TypeInv, SourceInv, Next, vars, inputs, LoadConfig,
     TakeExplicit, TakeConfig, TakeEnvironment, NoToken, Return, ReadConfigured,
     ReadSqlite, ConfiguredFails, NoCredentials, NoConfigured, ReadFixed,
     NextLocation, NoFixed, Refresh, Failed
<1>2. \A i \in 1 .. 4 : Holds(i)' = Holds(i) /\ First(i)' = First(i)
  BY <1>1 DEF Holds, First
<1>3. ASSUME NEW token, NEW profile, NEW source, Return(token, profile, source),
             source \in Tiers => FirstToken(token)
      PROVE  FirstInv'
  <2>1. auth'.token = token /\ auth'.source = source /\ at' = "done"
    BY <1>3 DEF Return
  <2> QED
    BY <1>1, <1>2, <1>3, <2>1 DEF FirstInv, FirstToken
<1>4. ASSUME auth' = auth,
             at' \in {"databases", "fixed"} => refreshing' \/ \A i \in 1 .. 4 : ~Holds(i)
      PROVE  FirstInv'
  BY <1>1, <1>2, <1>4 DEF FirstInv, FirstToken
<1>5. CASE TakeExplicit
  <2>1. ExplicitToken = given[Precedence[1]].token /\ First(1)
    BY <1>1, <1>5, Held, WhichIsFirst
    DEF TakeExplicit, ExplicitToken, Nonempty, Precedence
  <2>2. FirstToken(ExplicitToken)
    BY <2>1, WhichIsFirst DEF FirstToken
  <2> QED
    BY <1>3, <1>5, <2>2 DEF TakeExplicit
<1>6. CASE TakeConfig
  <2>1. at = "resolve" /\ ~Holds(1) /\ config.token # None
    BY <1>1, <1>6, Held DEF TakeConfig, DirectToken
  <2>2. CASE HasToken("KIROX")
    <3>1. First(2) /\ Strip(config.token) = Strip(given[Precedence[2]].token)
      BY <1>1, <2>1, <2>2, Held, LoadedToken, WhichIsFirst
      DEF FirstInv, TypeInv, Precedence, Env
    <3> QED
      BY <1>3, <1>6, <3>1, WhichIsFirst DEF TakeConfig, FirstToken
  <2>3. CASE ~HasToken("KIROX")
    <3>1. First(3) /\ Strip(config.token) = Strip(given[Precedence[3]].token)
      BY <1>1, <2>1, <2>3, Held, LoadedToken, WhichIsFirst
      DEF FirstInv, TypeInv, Precedence, File
    <3> QED
      BY <1>3, <1>6, <3>1, WhichIsFirst DEF TakeConfig, FirstToken
  <2> QED
    BY <2>2, <2>3
<1>7. CASE TakeEnvironment
  <2>1. at = "resolve" /\ ~Holds(1) /\ ~DirectToken
    BY <1>1, <1>7, Held DEF TakeEnvironment
  <2>2. PICK i \in 1 .. Len(Prefixes) :
            /\ HasToken(Prefixes[i]) /\ \A j \in 1 .. (i - 1) : ~HasToken(Prefixes[j])
            /\ Return(Nonempty(Env(Prefixes[i]).token),
                      Nonempty(Env(Prefixes[i]).profile), Prefixes[i])
    BY <1>7 DEF TakeEnvironment
  <2>3. Nonempty(Env(Prefixes[i]).token) = given[Prefixes[i]].token
    BY <2>2 DEF HasToken, Nonempty, Env
  <2>4. CASE i = 1
    <3>1. First(2) /\ Prefixes[i] = Precedence[2]
      BY <1>1, <2>1, <2>2, <2>4, Held, WhichIsFirst DEF Prefixes, Precedence
    <3> QED
      BY <1>3, <2>2, <2>3, <3>1, WhichIsFirst DEF FirstToken
  <2>5. CASE i = 2
    <3>1. HasToken("ASSISTANT") /\ ~HasToken("KIROX") /\ Prefixes[i] = Precedence[4]
      BY <2>2, <2>5 DEF Prefixes, Precedence
    <3>2. ~Holds(3)
      BY <2>1, <3>1, LoadedToken DEF FirstInv, TypeInv, DirectToken
    <3>3. First(4)
      BY <1>1, <2>1, <3>1, <3>2, Held, WhichIsFirst
    <3> QED
      BY <1>3, <2>2, <2>3, <3>1, <3>3, WhichIsFirst DEF FirstToken
  <2> QED
    BY <2>4, <2>5 DEF Prefixes
<1>8. CASE NoToken
  <2>1. ~HasToken("KIROX") /\ ~HasToken("ASSISTANT")
    <3>1. /\ 1 \in 1 .. Len(Prefixes) /\ Prefixes[1] = "KIROX"
          /\ 2 \in 1 .. Len(Prefixes) /\ Prefixes[2] = "ASSISTANT"
      BY DEF Prefixes
    <3> QED
      BY <1>8, <3>1 DEF NoToken
  <2>2. ~Holds(3)
    BY <1>8, <2>1, LoadedToken DEF NoToken, FirstInv, TypeInv, DirectToken
  <2>3. \A i \in 1 .. 4 : ~Holds(i)
    BY <1>1, <1>8, <2>1, <2>2, Held DEF NoToken
  <2> QED
    BY <1>4, <1>8, <2>3 DEF NoToken
<1>9. ASSUME NEW db \in Databases, ReadSqlite(db) PROVE FirstInv'
  BY <1>3, <1>9, NamesDiffer DEF ReadSqlite
<1>10. CASE NoCredentials
  BY <1>4, <1>10 DEF NoCredentials
<1>11. CASE ReadConfigured
  <2>1. ConfiguredDb \in Databases
    BY <1>11 DEF ReadConfigured, ConfiguredDb, Databases, Configured
  <2> QED
    BY <1>9, <1>10, <1>11, <2>1 DEF ReadConfigured, ConfiguredFails
<1>12. CASE NoConfigured
  BY <1>4, <1>12 DEF NoConfigured, FirstInv
<1>13. CASE ReadFixed
  <2>1. next \in 1 .. Len(Fixed)
    BY <1>13, FixedIsSequence DEF ReadFixed, FirstInv, TypeInv, SourceInv
  <2>2. Fixed[next] \in Databases
    BY <2>1 DEF Databases
  <2>3. CASE NextLocation
    BY <1>4, <1>13, <2>3 DEF NextLocation, ReadFixed, FirstInv
  <2> QED
    BY <1>9, <1>13, <2>2, <2>3 DEF ReadFixed
<1>14. CASE NoFixed
  BY <1>10, <1>14 DEF NoFixed
<1>15. CASE LoadConfig
  BY <1>4, <1>15 DEF LoadConfig
<1>16. CASE Refresh
  <2>1. refreshing'
    BY <1>16 DEF Refresh
  <2> QED
    BY <1>4, <1>16, <2>1 DEF Refresh
<1>17. CASE Failed \/ UNCHANGED vars
  BY <1>4, <1>17 DEF Failed, vars, FirstInv
<1> QED
  BY <1>5, <1>6, <1>7, <1>8, <1>11, <1>12, <1>13, <1>14, <1>15, <1>16, <1>17 DEF Next

\* What is used was held by the first tier that holds a token, whatever else
\* the caller, the file and the environment hold and however often a refresh
\* fails.
THEOREM FirstTier == Spec => []FirstTierWins
<1>1. Init => FirstInv
  BY TypeInit DEF Init, FirstInv, Nobody, Tiers
<1>2. FirstInv => FirstTierWins
  <2>1. Len(Precedence) = 4
    BY DEF Precedence
  <2>2. SUFFICES ASSUME FirstInv, NEW i \in 1 .. 4, First(i)
                 PROVE  /\ at \notin {"databases", "fixed"} \/ refreshing
                        /\ at = "done" /\ auth.source \in Tiers =>
                              Strip(auth.token) = Strip(given[Precedence[i]].token)
    BY <2>1 DEF FirstTierWins, First
  <2> QED
    BY <2>2 DEF FirstInv, FirstToken, First
<1> QED
  BY <1>1, <1>2, FirstStep, PTL DEF Spec
=============================================================================
