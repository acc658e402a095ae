------------------------------- MODULE MCHosts -------------------------------
(***************************************************************************)
(* What stands around the kernel's runs, one part at a time: a client of   *)
(* the SDK, behind a worker or a process, or the playground page before    *)
(* the kernel worker; the parses the kernel makes of the texts they send;  *)
(* the headers in them, character by character; the values a stage of a    *)
(* run hands to the cache and the channels.  The others keep still.        *)
(***************************************************************************)
EXTENDS HostClient, PlaygroundHost, ParseCache, CacheValue, HeaderScanner

CONSTANTS narrow, wide

VARIABLE program

MCMaxEdits == "worker" :> 3 @@ "serve" :> 2
MCMaxCalls == [link \in Links |-> 4]

MCOpenTexts == {<<wide>>}

(* An interval whose header is typed on: after its name, inside a string,  *)
(* inside a list of strings.                                               *)
MCOpenings == {<<"g", " ">>, <<"g", " ", "k", "=", "\"">>, <<"g", " ", "k", "=", "[", "\"">>}
MCSnippets ==
  { <<"k">>, <<" ">>, <<"|">>, <<"\"">>, <<"'">>, <<"\\">>, <<"[">>, <<"]">>, <<",">>, <<"=">>,
    <<"\"", " ">>, <<"|", "g", " ", "k", "=", "\"">> }

hostsVars == <<program, host, serveVars, playgroundVars, parseCacheVars, invocation, headerVars>>

NoPage == [EmptyPage(FixtureText) EXCEPT !.due = FALSE]

(* The page has no part in what another program is answered.               *)
NothingPast == [events |-> 0, faulty |-> TRUE, asked |-> {}, runs |-> <<>>]

NoInvocation == InputOf("foreign")
NoHeader == text = <<>> /\ pieces = 0
NoHost ==
  /\ EndpointInit /\ ServeInit /\ host = EmptyHost("worker")
  /\ page = NoPage /\ past = NothingPast

HostsInit ==
  \/ /\ program = "client" /\ HostClientInit
     /\ page = NoPage /\ past = NothingPast
     /\ ParseCacheInit /\ invocation = NoInvocation /\ NoHeader
  \/ /\ program = "page" /\ PlaygroundInit
     /\ ServeInit /\ host = EmptyHost("worker")
     /\ ParseCacheInit /\ invocation = NoInvocation /\ NoHeader
  \/ /\ program = "parser" /\ ParseCacheInit
     /\ NoHost /\ invocation = NoInvocation /\ NoHeader
  \/ /\ program = "values" /\ CacheValueInit
     /\ NoHost /\ ParseCacheInit /\ NoHeader
  \/ /\ program = "headers" /\ HeaderInit
     /\ NoHost /\ ParseCacheInit /\ invocation = NoInvocation

OfClient(Action) ==
  program = "client" /\ Action /\ UNCHANGED <<program, pageVars, parseCacheVars, invocation, headerVars>>
OfPage(Action) ==
  program = "page" /\ Action /\ UNCHANGED <<program, host, serveVars, parseCacheVars, invocation, headerVars>>
OfParser(Action) ==
  program = "parser" /\ Action /\ UNCHANGED <<program, host, serveVars, playgroundVars, invocation, headerVars>>
OfValues(Action) ==
  program = "values" /\ Action /\ UNCHANGED <<program, host, serveVars, playgroundVars, parseCacheVars, headerVars>>
OfHeaders(Action) ==
  program = "headers" /\ Action /\ UNCHANGED <<program, host, serveVars, playgroundVars, parseCacheVars, invocation>>

HostsNext ==
  \/ OfClient(HostClientNext) \/ OfPage(PlaygroundNext) \/ OfParser(ParseCacheNext)
  \/ OfValues(CacheValueNext) \/ OfHeaders(Type)

(* HostClientFairness and PlaygroundFairness: program never changes, so    *)
(* that what is fair to one of two actions of two programs is fair to both. *)
HostsFairness ==
  /\ WF_hostsVars(OfClient(Worker) \/ OfPage(Endpoint({TRUE}) /\ UNCHANGED pageVars))
  /\ WF_hostsVars(OfClient(Deliver) \/ OfPage(DeliverToPage))
  /\ WF_hostsVars(OfClient(Process) \/ OfPage(DebounceElapses))
  /\ WF_hostsVars(OfPage(CommandTimesOut))

HostsSpec == HostsInit /\ [][HostsNext]_hostsVars /\ HostsFairness

(* ParseIsOfItsText and HeadersReadAlike: it does not matter how a text    *)
(* comes to be read, from the pieces of an older parse or from its first   *)
(* character, by the parser or by the reference (runtime/editor-kernel.js:22-39, *)
(* runtime/parser.js:124-227, reference/scoped_text.py:22-84).             *)
TextsAreReadAlike ==
  /\ program = "parser" => ParseIsOfItsText
  /\ program = "headers" => HeadersReadAlike

(* EveryEditIsAnswered, of the page's: the last edit is shown in the end   *)
(* (app/page.tsx:1459-1522, 1535-1649).                                    *)
PageAnswersEveryEdit == program = "page" => EveryEditIsAnswered

=============================================================================
