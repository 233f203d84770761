------------------------------ MODULE MCLibrary ------------------------------
(***************************************************************************)
(* Small instances, for TLC, of the parts of the program that a caller     *)
(* uses on its own and step by step: the connection pool, the tree of the  *)
(* Windows epoll, the pattern matcher, the command line with the request   *)
(* editor, the random numbers and their hash.  A behaviour is one of them  *)
(* at work, the others idle.                                               *)
(***************************************************************************)
EXTENDS ConnPool, RbTree, Smack, Conf, Rand, Sha512, Bitwise

VARIABLE subject   \* the part at work

libVars == <<vars, treeVars, smackVars, confVars, randVars, shaVars, subject>>

Subjects == {"pool", "tree", "smack", "conf", "rand", "sha"}

LibInit ==
  /\ subject \in Subjects
  /\ Init /\ TreeInit /\ ShaInit
  /\ IF subject = "smack" THEN SmackInit
     ELSE /\ patterns = <<>> /\ machine = <<>> /\ text = <<>> /\ found = <<>>
          /\ search = [row |-> 0, left |-> 0]
  /\ IF subject = "conf" THEN ConfInit ELSE args = <<>> /\ conf = NewConf /\ misread = FALSE
  /\ IF subject = "rand" THEN RandInit ELSE ctx = <<>> /\ given = <<>> /\ stirs = <<>>

LibNext ==
  /\ UNCHANGED subject
  /\ \/ /\ subject = "pool" /\ Next
        /\ UNCHANGED <<treeVars, smackVars, confVars, randVars, shaVars>>
     \/ /\ subject = "tree" /\ TreeNext
        /\ UNCHANGED <<vars, smackVars, confVars, randVars, shaVars>>
     \/ /\ subject = "smack" /\ SmackNext
        /\ UNCHANGED <<vars, treeVars, confVars, randVars, shaVars>>
     \/ /\ subject = "conf" /\ ConfNext
        /\ UNCHANGED <<vars, treeVars, smackVars, randVars, shaVars>>
     \/ /\ subject = "rand" /\ RandNext
        /\ UNCHANGED <<vars, treeVars, smackVars, confVars, shaVars>>
     \/ /\ subject = "sha" /\ ShaNext
        /\ UNCHANGED <<vars, treeVars, smackVars, confVars, randVars>>

LibSpec == LibInit /\ [][LibNext]_libVars

------------------------------------------------------------------------------
(* Smack: two patterns over two letters, which are prefixes and suffixes of   *)
(* each other, anchored or not, without regard to case; and the names of a    *)
(* header as http-response.c gives them, "l" for the line feed before a name. *)
MCToLower == "a" :> "a" @@ "b" :> "b" @@ "B" :> "b" @@ ":" :> ":" @@ "l" :> "l"
MCAlphabet == <<"l", ":", "B", "a", "b">>

Texts == { <<"a">>, <<"b">>, <<"a", "b">>, <<"b", "a">>, <<"a", "a">>, <<"a", "b", "a">>, <<"b", "B">> }
Pats == [text : Texts, begin : BOOLEAN, end : BOOLEAN]
Pat(word, begin) == [text |-> word, begin |-> begin, end |-> FALSE]
Header2 == << Pat(<<"a", ":">>, TRUE), Pat(<<"a", "b", ":">>, TRUE), Pat(<<":">>, FALSE), Pat(<<"l">>, FALSE) >>

(* Two patterns with an anchor at their end are two texts: smack_add_prefixes *)
(* forgets the first of two equal ones.                                       *)
Distinct(ps) ==
  ~(ps[1].end /\ ps[2].end /\ ps[1].begin = ps[2].begin /\ ps[1].text = ps[2].text)

MCPatternSets == {ps \in Pats \X Pats : Distinct(ps)} \cup {Header2}

------------------------------------------------------------------------------
(* Conf *)
Base == [ dashes |-> 0, option |-> "", glued |-> None, number |-> 0, hosts |-> None,
          url |-> None, tokens |-> <<"v">>, lines |-> <<>> ]
Opt(o) == [Base EXCEPT !.dashes = 2, !.option = o]
UrlOf(scheme, host, port, path) ==
  [Base EXCEPT !.url = [scheme |-> scheme, host |-> host, port |-> port, path |-> path]]

MCWhat ==
     "" :> [Base EXCEPT !.tokens = <<>>]
  @@ "h" :> [Base EXCEPT !.hosts = <<"a1", "a2">>, !.tokens = <<"w">>]
  @@ "g" :> [Base EXCEPT !.hosts = <<"a2">>]
  @@ "n" :> Base
  @@ "5" :> [Base EXCEPT !.number = 5, !.tokens = <<"5">>]
  @@ "f" :> [Base EXCEPT !.lines = <<<<"http-X", "h">>, <<"count", "5">>>>]
  @@ "http://h/p" :> UrlOf("http", <<"h">>, None, <<"/", "p">>)
  @@ "http://g:81" :> UrlOf("http", <<"g">>, 81, <<>>)
  @@ "http://n:x" :> UrlOf("http", <<"h">>, 0, <<"x">>)
  @@ "https://h" :> UrlOf("https", <<"h">>, None, <<>>)
  @@ "--count" :> Opt("count") @@ "--targetip" :> Opt("targetip")
  @@ "--shutdown" :> Opt("shutdown") @@ "--conf" :> Opt("conf")
  @@ "--http-host" :> Opt("http-host") @@ "--http-X" :> Opt("http-X")
  @@ "--http-method" :> Opt("http-method") @@ "--http-url" :> Opt("http-url")
  @@ "-n" :> [Opt("count") EXCEPT !.dashes = 1]
  @@ "-c5" :> [Opt("concurrency") EXCEPT !.dashes = 1, !.glued = "5"]
MCArgs == DOMAIN MCWhat \ {"", "n"}
MCHeader ==
  "http-host" :> <<"host">> @@ "http-X" :> <<"X">> @@ "http-method" :> <<"method">> @@ "http-url" :> <<"url">>
MCLower == "Host" :> "host"
MCMisreads == {{}, {3}}

------------------------------------------------------------------------------
(* Rand *)
MCMix(a, b) == a ^^ b
MCNonce == [s \in Seeds |-> IF s = "s" THEN 1 ELSE 0]
==============================================================================
