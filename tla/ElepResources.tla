--------------------------- MODULE ElepResources ---------------------------
(***************************************************************************)
(* The files of an active plugin, by uri (packages/elep: FileContainer's   *)
(* resources, rewrite-utils, ConfigLoader, FileStorage; packages/esys:     *)
(* ResourceManager).  A path is a sequence of tokens, "/" among them, as   *)
(* rewrite rules replace prefixes of text and not of segments.  The plugin *)
(* may be stopped and activated again, and its configuration edited, while *)
(* a request is under way.                                                 *)
(***************************************************************************)
EXTENDS Naturals, Sequences, FiniteSets, SequencesExt

CONSTANTS Tokens,      \* what paths and rules are made of
          Asked,       \* the paths that are asked for
          ProdConfigs, \* configurations [rewrites, spa]: what elep.prod may say; spa has a
                       \* mode, "none", "smart" (true), "single" or "many", and entries
          DevConfigs,  \* and elep.dev: [rewrites, hook], hook for a get hook
          Html,        \* the tokens that end in .html
          Dotted       \* the tokens with a dot inside: Html, and those of other files

\* Texts by texts.
IsRules(r) ==
    /\ DOMAIN r \subseteq Seq(Tokens) /\ IsFiniteSet(DOMAIN r)
    /\ \A k \in DOMAIN r : r[k] \in Seq(Tokens)

ASSUME ResAssumption ==
    /\ "/" \in Tokens /\ Asked \subseteq Seq(Tokens)
    /\ \A c \in ProdConfigs :
          /\ IsRules(c.rewrites)
          /\ c.spa.mode \in {"none", "smart", "single", "many"} /\ c.spa.entries \subseteq Seq(Tokens)
          /\ c.spa.mode = "single" => c.spa.entries # {}
    /\ \A c \in DevConfigs : IsRules(c.rewrites) /\ c.hook \in BOOLEAN

VARIABLES
    inDevMode,    \* of the container
    disk,       \* the configurations as they are in the plugin's directory
    cache,      \* of the loader: <<what was loaded once>>, or <<>>
    copy,       \* the runtime's prodConfig and devConfig, likewise
    hasRuntime,     \* whether the container lists a runtime of the plugin
    request,    \* [op, path, step, target, own]: own, if the runtime is still listed
    served      \* where the answer came from: [from, path]

resvars == <<inDevMode, disk, cache, copy, hasRuntime, request, served>>

Nothing == [prod |-> <<>>, dev |-> <<>>]
Unserved == [from |-> "none", path |-> <<>>]
NoRequest == [op |-> "none", path |-> <<>>, step |-> "none", target |-> <<>>, own |-> FALSE]

\* {...prodConfig?.rewrites, ...devConfig?.rewrites}
Merged(prod, dev) ==
    [k \in DOMAIN prod \cup DOMAIN dev |-> IF k \in DOMAIN dev THEN dev[k] ELSE prod[k]]

\* Mutant: rules are tried in the order they come in.
ByAnyLength(rules) == SetToSeq(DOMAIN rules)

\* The keys, longest first.
SortedKeys(rules) ==
    CHOOSE s \in [1 .. Cardinality(DOMAIN rules) -> DOMAIN rules] :
        IsInjective(s) /\ \A i, j \in DOMAIN s : i < j => Len(s[i]) >= Len(s[j])

Unrooted(p) == IF p # <<>> /\ p[1] = "/" THEN Tail(p) ELSE p
Rooted(p) == IF p # <<>> /\ p[1] = "/" THEN p ELSE <<"/">> \o p

\* applyPrefixRewriteRules: the first key that is a prefix is replaced.
Rewritten(p, rules) ==
    LET keys == SortedKeys(rules)
        fits == { i \in DOMAIN keys : IsPrefix(keys[i], Rooted(p)) }
        from == keys[CHOOSE i \in fits : \A j \in fits : i <= j]
    IN IF fits = {} THEN p
       ELSE Unrooted(rules[from] \o SubSeq(Rooted(p), Len(from) + 1, Len(Rooted(p))))

\* STATIC_ASSET_REGEX: there is a dot in the last segment.
LastSlash(p) == LET is == { i \in DOMAIN p : p[i] = "/" } IN IF is = {} THEN 0 ELSE CHOOSE i \in is : \A j \in is : j <= i
IsAsset(p) == \E i \in LastSlash(p) + 1 .. Len(p) : p[i] \in Dotted

\* The segments of a path that end in .html, from the last one.
PageEnds(p) == { i \in DOMAIN p : p[i] \in Html /\ (i < Len(p) => p[i + 1] = "/") }

\* applySpaFallback: a file is left alone, anything else is a route of an
\* application and leads to its page.
Fallback(p, spa) ==
    IF IsAsset(p) THEN p ELSE
    CASE spa.mode = "none" -> p
      [] spa.mode = "smart" ->
            IF PageEnds(p) = {} THEN p
            ELSE SubSeq(p, 1, CHOOSE i \in PageEnds(p) : \A j \in PageEnds(p) : j <= i)
      [] spa.mode = "many" ->
            LET entries == { e \in spa.entries : IsPrefix(e, p) }
            IN IF entries = {} THEN p ELSE CHOOSE e \in entries : \A f \in entries : Len(f) <= Len(e)
      [] spa.mode = "single" -> Unrooted(CHOOSE e \in spa.entries : TRUE)

----------------------------------------------------------------------------

NewLoader == cache = Nothing

ResInit ==
    /\ inDevMode \in BOOLEAN
    /\ disk \in [prod : ProdConfigs, dev : DevConfigs]
    /\ NewLoader /\ copy = Nothing /\ hasRuntime = FALSE
    /\ request = NoRequest /\ served = Unserved

\* What the plugin's directory says; a file that is not there is one
\* without rules.
ConfigFile(f) == disk[f]

\* _loadConfig: the loader remembers what it found, for good.
LoadConfig(f) == IF cache[f] = <<>> THEN <<ConfigFile(f)>> ELSE cache[f]

\* The runtime's getProdConfig and getDevConfig, which keep a copy.
LoadConfigs ==
    /\ cache' = [prod |-> LoadConfig("prod"),
                 dev  |-> IF inDevMode THEN LoadConfig("dev") ELSE cache.dev]
    /\ copy' = cache'

PluginStarts ==
    /\ ~ hasRuntime
    /\ hasRuntime' = TRUE
    /\ LoadConfigs
    /\ UNCHANGED <<inDevMode, disk, request, served>>

\* The runtime forgets its configurations.
PluginStops ==
    /\ hasRuntime
    /\ hasRuntime' = FALSE /\ copy' = Nothing
    /\ request' = [request EXCEPT !.own = FALSE]
    /\ UNCHANGED <<inDevMode, disk, cache, served>>

Edit ==
    /\ request = NoRequest
    /\ \E c \in [prod : ProdConfigs, dev : DevConfigs] : c # disk /\ disk' = c
    /\ UNCHANGED <<inDevMode, cache, copy, hasRuntime, request, served>>

FindRuntime == hasRuntime

\* ResourceManager finds the container, and that the runtime.
Request(op, p) ==
    /\ request = NoRequest /\ FindRuntime
    /\ request' = [op |-> op, path |-> p, step |-> "resolve", target |-> <<>>, own |-> TRUE]
    /\ UNCHANGED <<inDevMode, disk, cache, copy, hasRuntime, served>>

Rules == Merged(copy'.prod[1].rewrites, IF inDevMode THEN copy'.dev[1].rewrites ELSE <<>>)

\* Rewriting, and for a get the fallback.  The configurations are awaited,
\* and loaded again if the plugin was stopped meanwhile.
Resolve ==
    /\ request.step = "resolve"
    /\ LoadConfigs
    /\ LET t == Rewritten(request.path, Rules)
       IN request' = [request EXCEPT !.target = IF request.op = "get" THEN Fallback(t, copy'.prod[1].spa) ELSE t,
                                     !.step = IF inDevMode /\ request.own /\ copy'.dev[1].hook THEN "hook" ELSE "storage"]
    /\ UNCHANGED <<inDevMode, disk, hasRuntime, served>>

\* What a resource is served from: 404 for nowhere, in a window's request.
Response(from) == [from |-> from, path |-> request.target]

\* The development server answers, or throws, and the file is taken.
DevAnswers(ok) ==
    /\ request.step = "hook"
    /\ request' = [request EXCEPT !.step = IF ok THEN "done" ELSE "storage"]
    /\ served' = IF ok THEN Response("server") ELSE served
    /\ UNCHANGED <<inDevMode, disk, cache, copy, hasRuntime>>

\* #getStoredResource: the file at the path, if the storage has it.
StoredResource(ok) == Response(IF ok THEN "file" ELSE "nowhere")

Stored(ok) ==
    /\ request.step = "storage"
    /\ request' = [request EXCEPT !.step = "done"]
    /\ served' = StoredResource(ok)
    /\ UNCHANGED <<inDevMode, disk, cache, copy, hasRuntime>>

\* The three operations on what a plugin has at a path.
Get(p)  == Request("get", p)
Put(p)  == Request("put", p)
List(p) == Request("list", p)

ResNext ==
    \/ PluginStarts \/ PluginStops \/ Edit \/ Resolve
    \/ \E p \in Asked : Get(p) \/ Put(p) \/ List(p)
    \/ \E ok \in BOOLEAN : DevAnswers(ok) \/ Stored(ok)

ResSpec == ResInit /\ [][ResNext]_resvars

----------------------------------------------------------------------------

\* What the rules promise: the most specific prefix counts, and the
\* development configuration before the other.
Promised(p) ==
    LET dev  == IF inDevMode THEN cache.dev[1].rewrites ELSE <<>>
        keys == DOMAIN dev \cup DOMAIN cache.prod[1].rewrites
        fits == { k \in keys : IsPrefix(k, Rooted(p)) }
        best == CHOOSE k \in fits : \A l \in fits : IsPrefix(l, k)
        to   == IF best \in DOMAIN dev THEN dev[best] ELSE cache.prod[1].rewrites[best]
    IN IF fits = {} THEN p ELSE Unrooted(to \o SubSeq(Rooted(p), Len(best) + 1, Len(Rooted(p))))

\* A uri stands for one file in all operations, by the configuration that the
\* loader read first, whatever is edited or restarted later; a get departs from
\* it only for a path that names no file, and then for a page of the
\* application: an entry that is configured, of several the most specific, or,
\* in smart mode, the nearest page on the way to the path.
ServesOneFile ==
    served # Unserved =>
        LET spa  == cache.prod[1].spa
            file == Promised(request.path)
        IN \/ served.path = file
           \/ /\ request.op = "get" /\ ~ IsAsset(file)
              /\ CASE spa.mode = "none" -> FALSE
                   [] spa.mode = "smart" ->
                        /\ IsPrefix(served.path \o <<"/">>, file)
                        /\ Last(served.path) \in Html
                        /\ \A i \in Len(served.path) + 2 .. Len(file) :
                              file[i] \in Html => i < Len(file) /\ file[i + 1] # "/"
                   [] spa.mode = "many" ->
                        /\ served.path \in spa.entries /\ IsPrefix(served.path, file)
                        /\ \A e \in spa.entries : IsPrefix(e, file) => IsPrefix(e, served.path)
                   [] spa.mode = "single" -> served.path \in { Unrooted(e) : e \in spa.entries }

=============================================================================
