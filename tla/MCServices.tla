----------------------------- MODULE MCServices -----------------------------
(***************************************************************************)
(* The services around a session, explored one at a time: they share no    *)
(* variable, so the states of all are the states of each.  part says which *)
(* one moves; the others stay in one of their initial states.              *)
(***************************************************************************)
EXTENDS ResourceCache, GuardianChannel, OwnedProcess, FrameChannel, ScriptHost,
        ConfigLoader, SelectorRules, StdinCodec, ConversionPlan

VARIABLE part

servicesVars == <<cacheVars, channelVars, ownedVars, frameVars, hostVars, loaderVars,
                  selectorVars, codecVars, planVars>>

-----------------------------------------------------------------------------
(* Instances. *)

MCFiles == 1..4

\* Trees, chains of four, cycles of one, two and three files, and files that
\* are included twice, by one file or by two.
MCIncludeLists ==
    << {<<>>, <<1>>, <<2>>, <<3>>, <<2, 1>>, <<2, 2>>, <<2, 3>>, <<3, 2>>},
       {<<>>, <<1>>, <<3>>},
       {<<>>, <<1>>, <<2>>, <<4>>},
       {<<>>} >>

\* Items with a scheme, without one, with no sources and with two of them.
MCSelItems ==
    { [file |-> "x", scheme |-> "s", hasSources |-> TRUE, sources |-> <<<<"x", "s">>>>],
      [file |-> "y", scheme |-> "s", hasSources |-> FALSE, sources |-> <<>>],
      [file |-> "x", scheme |-> "", hasSources |-> TRUE, sources |-> <<>>],
      [file |-> "", scheme |-> "s", hasSources |-> TRUE,
       sources |-> <<<<"", "">>, <<"y", "s">>>>],
      [file |-> "y", scheme |-> "", hasSources |-> TRUE,
       sources |-> <<<<"x", "s">>, <<"y", "t">>>>] }

\* Patterns that match all, one text, or only the empty text.
MCSelRules ==
    { [first |-> "*", second |-> "s"], [first |-> "x", second |-> "t"],
      [first |-> "y", second |-> "*"], [first |-> "", second |-> ""] }

\* One argument of up to three characters, or two of up to two.
MCArgvs ==
    {<<t>> : t \in UNION {[1..n -> Chars] : n \in 0..3}}
        \cup [1..2 -> UNION {[1..n -> Chars] : n \in 0..2}]

MCRule(type, rename, dir, tags, classes) ==
    [type |-> type, rename |-> rename, outputDir |-> dir, tags |-> tags, classes |-> classes]

\* No rule; one for all; one for tagged items; two, one with limits; two alike.
MCMatrices ==
    { <<>>,
      <<MCRule("lua", "r", "d", {}, {})>>,
      <<MCRule("lua", Unset, Unset, {"t"}, {})>>,
      <<MCRule(Unset, "r", Unset, {}, {}), MCRule("lua", Unset, "d", {"t"}, {"c"})>>,
      <<MCRule(Unset, Unset, Unset, {}, {}), MCRule("bin", Unset, Unset, {}, {})>> }

MCTexts == {"", "u"}

MCConfigs == [matrix : MCMatrices, rename : {Unset, "c"}, outputDir : {Unset, "c"}]

MCPlanItems ==
    << [id |-> 1, name |-> "a", tags |-> {"t"}, classes |-> {"c"}],
       [id |-> 2, name |-> "a", tags |-> {"t"}, classes |-> {}],
       [id |-> 3, name |-> "b", tags |-> {}, classes |-> {"c"}] >>

-----------------------------------------------------------------------------

\* A part that does not move rests in one of its initial states.
CacheRests == /\ wants = [i \in Instances |-> CHOOSE v \in Versions : TRUE]
              /\ payload = [e \in Entries |-> Absent]
              /\ CacheInit
OwnedRests == caller = "java" /\ OwnedInit
HostRests == entry = [i \in Invokes |-> "set_name"] /\ HostInit
LoaderRests == /\ includes = [f \in Files |-> CHOOSE l \in IncludeLists[f] : TRUE]
               /\ condition = [f \in Files |-> "good"]
               /\ setters = {}
               /\ LoaderInit
SelectorRests == items = <<>> /\ byScheme = <<>> /\ bySheet = <<>> /\ SelectorInit
CodecRests == argv = (CHOOSE a \in Argvs : TRUE) /\ CodecInit
PlanRests == config = (CHOOSE c \in Configs : TRUE) /\ PlanInit

ServicesInit ==
    /\ part \in {"cache", "channel", "owned", "frame", "host", "loader", "selector", "codec",
                 "plan"}
    /\ ChannelInit /\ FrameInit
    /\ part # "cache" => CacheRests
    /\ part # "owned" => OwnedRests
    /\ part # "host" => HostRests
    /\ part # "loader" => LoaderRests
    /\ part # "selector" => SelectorRests
    /\ part # "codec" => CodecRests
    /\ part # "plan" => PlanRests
    /\ part = "cache" => CacheInit
    /\ part = "owned" => OwnedInit
    /\ part = "host" => HostInit
    /\ part = "loader" => LoaderInit
    /\ part = "selector" => SelectorInit
    /\ part = "codec" => CodecInit
    /\ part = "plan" => PlanInit

ServicesNext ==
    /\ part' = part
    /\ \/ part = "cache" /\ CacheNext
          /\ UNCHANGED <<channelVars, ownedVars, frameVars, hostVars, loaderVars,
                         selectorVars, codecVars, planVars>>
       \/ part = "channel" /\ ChannelNext
          /\ UNCHANGED <<cacheVars, ownedVars, frameVars, hostVars, loaderVars,
                         selectorVars, codecVars, planVars>>
       \/ part = "owned" /\ OwnedNext
          /\ UNCHANGED <<cacheVars, channelVars, frameVars, hostVars, loaderVars,
                         selectorVars, codecVars, planVars>>
       \/ part = "frame" /\ FrameNext
          /\ UNCHANGED <<cacheVars, channelVars, ownedVars, hostVars, loaderVars,
                         selectorVars, codecVars, planVars>>
       \/ part = "host" /\ HostNext
          /\ UNCHANGED <<cacheVars, channelVars, ownedVars, frameVars, loaderVars,
                         selectorVars, codecVars, planVars>>
       \/ part = "loader" /\ LoaderNext
          /\ UNCHANGED <<cacheVars, channelVars, ownedVars, frameVars, hostVars,
                         selectorVars, codecVars, planVars>>
       \/ part = "selector" /\ SelectorNext
          /\ UNCHANGED <<cacheVars, channelVars, ownedVars, frameVars, hostVars,
                         loaderVars, codecVars, planVars>>
       \/ part = "codec" /\ CodecNext
          /\ UNCHANGED <<cacheVars, channelVars, ownedVars, frameVars, hostVars,
                         loaderVars, selectorVars, planVars>>
       \/ part = "plan" /\ PlanNext
          /\ UNCHANGED <<cacheVars, channelVars, ownedVars, frameVars, hostVars,
                         loaderVars, selectorVars, codecVars>>

ServicesSpec == ServicesInit /\ [][ServicesNext]_<<part, servicesVars>>

\* The type invariants of the nine modules.
ServicesTypeOK ==
    /\ CacheTypeOK /\ ChannelTypeOK /\ OwnedTypeOK /\ FrameTypeOK /\ HostTypeOK
    /\ LoaderTypeOK /\ SelectorTypeOK /\ CodecTypeOK /\ PlanTypeOK
=============================================================================
