---------------------------- MODULE MCEndpoints ----------------------------
(***************************************************************************)
(* The transports and the clients together: a behaviour is about the one   *)
(* exchange its caller makes, and each of them is one part of the states.  *)
(***************************************************************************)
EXTENDS HttpTransport, GrpcWeb, GrpcNode, LightReads, PublicReads,
        ArtifactLoad, AssetCache

Http == {"http.read", "http.send"}
Web == {"web.stream", "web.unary"}
Rpc == {"rpc.read", "rpc.send", "rpc.stream"}
Light == LightStreams \cup LightUnary

\* The bodies: messages of no, of one and of the most bytes, one that is too long, frames
\* after the trailers, none of them, a status that is an error, and an unknown frame.
Framed(kind, length, ok) == [kind |-> kind, length |-> length, ok |-> ok]
Message(length) == Framed("data", length, TRUE)
Trailers == Framed("trailer", 1, TRUE)
MCBodies ==
    {<<Message(1), Message(0), Trailers>>, <<Message(2), Message(1), Trailers>>,
     <<Message(2), Trailers>>, <<Message(3), Trailers>>, <<Message(0)>>, <<Trailers>>,
     <<Trailers, Message(0)>>, <<Message(1), Trailers, Trailers>>,
     <<Message(0), Framed("trailer", 1, FALSE)>>, <<Framed("unknown", 1, TRUE)>>}

\* Two branches from the first block, the transaction on both or on one, and an extension.
MCChains ==
    <<<<"a", "b1", "c1">>, <<"a", "b2", "c2">>, <<"a", "b2", "c3", "d3">>>>
MCCarriers == {"c1", "b2"}
MCRootHeights == <<2, 3>>

\* An executable as it should be, and ones that have each of the faults of a manifest.
File(url, kind, bytes) ==
    [url |-> url, kind |-> kind, bytes |-> bytes, confined |-> TRUE, reviewed |-> TRUE]
Files3 == <<File("w", "module", 1), File("k", "worker", 1), File("b", "wasm", 2)>>
Executable == [canonical |-> TRUE, profile |-> TRUE, files |-> Files3]
Listing(files) == [Executable EXCEPT !.files = files]
MCInventories ==
    {Executable, [Executable EXCEPT !.profile = FALSE], [Executable EXCEPT !.canonical = FALSE],
     [Executable EXCEPT !.files[1].confined = FALSE], [Executable EXCEPT !.files[2].url = "w"],
     [Executable EXCEPT !.files[3].reviewed = FALSE], [Executable EXCEPT !.files[3].bytes = 3],
     [Executable EXCEPT !.files[2].bytes = 2, !.files[1].bytes = 2],
     [Executable EXCEPT !.files[2].kind = "wasm"], Listing(SubSeq(Files3, 1, 2)),
     Listing(Files3 \o <<File("g", "glue", 1), File("h", "glue", 1)>>)}
MCKinds == {"module", "worker", "wasm"}

Init ==
    /\ exchange \in Http \cup Web \cup Rpc \cup Light
                   \cup PublicExchanges \cup {"artifacts", "proving"}
    /\ CallerInit
    /\ HttpInit /\ RpcInit
    /\ PubInit /\ (exchange # "public.wait" => ~pub.timed)
    /\ ProveInit /\ (~Proving => prove.options = PackageOptions /\ prove.memory = {})
    /\ ArtInit /\ (~Loading => art.inventory = Executable)
    /\ WebInit /\ (exchange \notin Web => wire.body = <<Trailers>>)
    /\ LightInit /\ (exchange \notin Light => ~light.alike /\ ~light.verified)

vars == <<http, web, frame, wire, rpc, light, pub, best, art, prove, caller>>

Over == "over" \in {http.at, web.at, rpc.at, light.at, pub.at, art.at, prove.at}
Done == Over /\ UNCHANGED vars

Next ==
    \/ HttpNext /\ UNCHANGED <<web, frame, wire, rpc, light, pub, best, art, prove>>
    \/ WebNext /\ UNCHANGED <<http, rpc, light, pub, best, art, prove>>
    \/ RpcNext /\ UNCHANGED <<http, web, frame, wire, light, pub, best, art, prove>>
    \/ LightNext /\ UNCHANGED <<http, web, frame, wire, rpc, pub, best, art, prove>>
    \/ PubNext /\ UNCHANGED <<http, web, frame, wire, rpc, light, art, prove>>
    \/ ArtNext /\ UNCHANGED <<http, web, frame, wire, rpc, light, pub, best, prove>>
    \/ ProveNext /\ UNCHANGED <<http, web, frame, wire, rpc, light, pub, best, art>>
    \/ Done

\* Continuations run and timers fire; a server, an application and the consumer of a
\* stream need not do anything.
Fairness ==
    /\ WF_vars(HttpStep /\ UNCHANGED <<web, frame, wire, rpc, light, pub, best, art, prove>>)
    /\ WF_vars(Elapse /\ UNCHANGED <<web, frame, wire, rpc, light, pub, best, art, prove>>)
    /\ WF_vars(Timer /\ UNCHANGED <<web, frame, wire, rpc, light, pub, best, art, prove>>)
    /\ WF_vars(WebStep /\ UNCHANGED <<http, rpc, light, pub, best, art, prove>>)
    /\ WF_vars(WebElapse /\ UNCHANGED <<http, rpc, light, pub, best, art, prove>>)
    /\ WF_vars(WebTimer /\ UNCHANGED <<http, rpc, light, pub, best, art, prove>>)
    /\ WF_vars(RpcStep /\ UNCHANGED <<http, web, frame, wire, light, pub, best, art, prove>>)
    /\ WF_vars(RpcElapse /\ UNCHANGED <<http, web, frame, wire, light, pub, best, art, prove>>)
    /\ WF_vars(RpcTimer /\ UNCHANGED <<http, web, frame, wire, light, pub, best, art, prove>>)
    /\ WF_vars(LightStep /\ UNCHANGED <<http, web, frame, wire, rpc, pub, best, art, prove>>)
    /\ WF_vars(PubStep /\ UNCHANGED <<http, web, frame, wire, rpc, light, art, prove>>)
    /\ WF_vars(WaitElapses /\ UNCHANGED <<http, web, frame, wire, rpc, light, art, prove>>)
    /\ WF_vars(ArtStep /\ UNCHANGED <<http, web, frame, wire, rpc, light, pub, best, prove>>)
    /\ WF_vars(ArtElapse /\ UNCHANGED <<http, web, frame, wire, rpc, light, pub, best, prove>>)
    /\ WF_vars(ArtTimer /\ UNCHANGED <<http, web, frame, wire, rpc, light, pub, best, prove>>)
    /\ WF_vars(StartupTimer /\ UNCHANGED <<http, web, frame, wire, rpc, light, pub, best, prove>>)
    /\ WF_vars(ProveStep /\ UNCHANGED <<http, web, frame, wire, rpc, light, pub, best, art>>)
    /\ WF_vars(WaitEnds /\ UNCHANGED <<http, web, frame, wire, rpc, light, art, prove>>)

Spec == Init /\ [][Next]_vars /\ Fairness

-----------------------------------------------------------------------------

\* What a stream gives on is what the server sent, whole and in order, on gRPC-web in
\* whatever chunks it came, for a range of blocks linked from one to the next, for an
\* executable verified before any of it is used, and proving assets that are the pinned ones
\* whatever the loader, the cache and other processes do.
StreamsExact == FramesExact /\ BlocksLinked /\ ArtifactsVerified /\ AssetsWhole

\* What is taken is given back: the iterators of a transport, and the proving assets of a
\* wallet that is closed.
GivenBack == IteratorsGivenBack /\ AssetsGivenBack

\* Each exchange keeps what EndpointCall promises: no transaction is sent twice or for a
\* caller that has aborted, what is told of it is true, and nothing is left behind.
At ==
    CASE exchange \in Http -> http.at
      [] exchange \in Web -> web.at
      [] exchange \in Rpc -> rpc.at
      [] exchange \in Light -> light.at
      [] Loading -> art.at
      [] Proving -> prove.at
      [] OTHER -> pub.at
Part ==
    CASE exchange \in Http -> [sent |-> http.sent, outcome |-> http.outcome, held |-> http.held]
      [] exchange \in Web -> [sent |-> web.sent, outcome |-> web.outcome, held |-> web.held]
      [] exchange \in Rpc -> [sent |-> rpc.sent, outcome |-> rpc.outcome, held |-> rpc.held]
      [] exchange \in Light ->
            [sent |-> light.sent, outcome |-> light.outcome,
             held |-> IF light.open = {} THEN {} ELSE {"operation"}]
      [] Loading -> [sent |-> art.sent, outcome |-> art.outcome, held |-> art.held]
      [] Proving -> [sent |-> prove.sent, outcome |-> prove.outcome, held |-> prove.held]
      [] OTHER -> [sent |-> pub.sent, outcome |-> pub.outcome, held |-> {}]

Call == INSTANCE EndpointCall WITH
    limit <- CASE Loading -> 1 + Len(Files) [] Proving -> 2 [] OTHER -> Attempts,
    write <- exchange \in {"http.send", "rpc.send", "light.send"},
    stage <- IF At \in {"idle", "over"} THEN At ELSE "open",
    sent <- Part.sent,
    outcome <- Part.outcome,
    held <- Part.held
ImplementsCall == Call!Spec

\* Every exchange comes to an end, or to the next item of its stream, whatever the server
\* does: by its own time limit, or, where there is none, once it is aborted.  None have an
\* exchange over the transport of an application, a wait for a transaction that was given
\* none, which polls for as long as it is not confirmed (public.ts: waitForTransaction),
\* and a load of proving assets, for whose end close() waits.
RpcOpen == rpc.at \notin {"idle", "load", "item", "over"}
LightCut == cut /\ light.at \notin {"idle", "item", "over"}
PubBounded ==
    pub.at \notin {"idle", "over"} /\ (exchange = "public.wait" => pub.timed \/ cut)
ProvingCut == Proving /\ Stopped /\ prove.at \notin {"idle", "over"}
PackageLeft == prove.at = "over" /\ prove.loader.at \in {"head", "body"}
ExchangesEnd ==
    /\ http.at # "idle" ~> http.at = "over"
    /\ Pulling ~> ~Pulling
    /\ RpcOpen ~> ~RpcOpen
    /\ LightCut ~> ~LightCut
    /\ art.at # "idle" ~> art.at = "over"
    /\ PubBounded ~> pub.at = "over"
    /\ ProvingCut ~> ~ProvingCut
    /\ PackageLeft ~> ~PackageLeft
    /\ prove.life = "closing" ~> prove.life = "closed"
=============================================================================
