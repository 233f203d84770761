-------------------------------- MODULE Conf ---------------------------------
(***************************************************************************)
(* main_conf_read() of main-conf.c: the command line is read argument by   *)
(* argument, a URL, or an option with its value in the same argument or    *)
(* the next one, and each changes the configuration and the request at     *)
(* once, so that their order matters.                                      *)
(***************************************************************************)
EXTENDS HttpRequest

CONSTANTS
  Args,       \* the arguments a caller may give
  What,       \* what each of them, or the name of a host, or "", is to the code:
              \*   dashes, option, glued   "--option", "-x" or "-x" and a value
              \*   number                  what strtoul() makes of it
              \*   hosts                   the addresses it names, or None
              \*   url                     its parts as a URL, or None
              \*   tokens                  itself, as a part of the request
              \*   lines                   the options in the file of that name
  Header,     \* the field each option http-... names
  MaxArgs,    \* a bound
  Misreads,   \* the offsets that is_eol() may take for line ends, sets of them
  None

Url == [scheme : {"http", "https"}, host : Seq(DOMAIN What), port : {None} \cup Nat, path : Seq(STRING)]
Argument ==
  [ dashes : 0..2, option : STRING, glued : {None} \cup DOMAIN What, number : Nat,
    hosts : {None} \cup Seq(STRING), url : {None} \cup Url, tokens : Seq(STRING),
    lines : Seq(STRING \X DOMAIN What) ]

ASSUME ConfAssumption ==
  /\ MaxArgs \in Nat
  /\ Args \cup {""} \subseteq DOMAIN What
  /\ \A a \in DOMAIN What : What[a] \in Argument
  /\ \A o \in DOMAIN Header : Header[o] \in Seq(STRING)
  /\ DOMAIN Header \cap {"concurrency", "count", "targetip", "sourceip", "shutdown"} = {}

VARIABLES
  args,     \* argv[1..]
  conf,     \* main_conf_t, main_conf_read()'s own variables, and for the properties
            \* the request the edits ask for, the arguments that were not values,
            \* and the options that were set
  misread   \* is_eol() may have found a line end where there is none

confVars == <<args, conf, misread>>

(* ended is "done", "bad" when NULL is returned, "exit" for exit(1). *)
NewConf ==
  [ concurrency |-> 0, count |-> 0, server |-> None, path |-> None, port |-> 80,
    request |-> <<>>, targets |-> <<>>, sources |-> <<>>, shutdown |-> FALSE,
    i |-> 1, more |-> 0, ended |-> "no",
    edited |-> FALSE, asked |-> FreshRequest, read |-> <<>>, options |-> {} ]

ConfInit ==
  /\ args \in UNION {[1..n -> Args] : n \in 1..MaxArgs}
  /\ conf = NewConf
  /\ misread = FALSE

------------------------------------------------------------------------------
EditRequest(c, name, value, eol) ==
  [c EXCEPT !.request = Edit(@, name, value, eol),
            !.edited = TRUE, !.asked = Edited(@, name, value)]

Exit(c) == [c EXCEPT !.ended = "exit"]

(* Mutant for AsAsked: the port of an earlier URL is kept. *)
PortOfMutant(url, port) == IF port = 80 /\ url.port # None THEN url.port ELSE port

PortOf(url, port) == IF url.port = None THEN port ELSE url.port

Rooted(path) == path # <<>> /\ path[1] \in {"/", "\\"}

(* _parse_url(): the path's length is taken before the slash is put in front  *)
(* of it, and a length of 0 stands for all of it.                             *)
ParseUrl(c, url, eol) ==
  LET path == IF Rooted(url.path) THEN url.path ELSE <<"/">> \o url.path
      sent == IF url.path = <<>> THEN path ELSE SubSeq(path, 1, Len(url.path))
      named == [c EXCEPT !.server = url.host, !.path = path, !.port = PortOf(url, @)]
  IN IF url = None \/ (url.scheme = "http" /\ url.host = <<>>) THEN [c EXCEPT !.ended = "bad"]
     ELSE IF url.scheme = "https" THEN Exit(c)
     ELSE EditRequest(EditRequest(named, <<"url">>, sent, eol), <<"Host">>, url.host, eol)

SetCount(c, field, n) == IF n < 1 THEN Exit(c) ELSE [c EXCEPT ![field] = n, !.more = 0]

(* _add_addresses() and _add_sources() *)
AddAddresses(c, field, hosts) ==
  IF hosts = None \/ (hosts = <<>> /\ c[field] = <<>>) THEN Exit(c)
  ELSE [c EXCEPT !.more = 1,
                 ![field] = @ \o [j \in DOMAIN hosts |-> [host |-> hosts[j], port |-> c.port]]]

(* _set_parm().  Only what returns 1 has its value skipped: the value of a    *)
(* count is read again, as an argument.                                       *)
SetOption(b, option, value, eol) ==
  LET v == What[value]
      c == [b EXCEPT !.options = @ \cup {option}]
  IN CASE option \in {"concurrency", "count"} -> SetCount(c, option, v.number)
       [] option = "targetip" -> AddAddresses(c, "targets", v.hosts)
       [] option = "sourceip" -> AddAddresses(c, "sources", v.hosts)
       [] option = "shutdown" -> [c EXCEPT !.shutdown = TRUE, !.more = 0]
       [] option \in DOMAIN Header ->
            [EditRequest(c, Header[option], v.tokens, eol) EXCEPT !.more = 1]
       [] OTHER -> [c EXCEPT !.more = 0]

(* conf_file(): what its lines return is ignored.  A file that names another  *)
(* one is left out.                                                           *)
ReadFile(c, lines, eol) ==
  LET Line(d, l) == IF d.ended = "no" THEN SetOption(d, l[1], l[2], eol) ELSE d
      after[k \in 0..Len(lines)] == IF k = 0 THEN c ELSE Line(after[k - 1], lines[k])
  IN [after[Len(lines)] EXCEPT !.more = 1]

SetParm(c, option, value, eol) ==
  IF option = "conf" THEN ReadFile(c, What[value].lines, eol) ELSE SetOption(c, option, value, eol)

(* One turn of the loop.  -c and -n take the next argument for their value    *)
(* only when it does not begin with a dash.                                   *)
Turn(c, eol) ==
  LET a     == What[args[c.i]]
      next  == IF c.i < Len(args) THEN args[c.i + 1] ELSE ""
      counts == a.option \in {"concurrency", "count"}
      Skip(d, n) == [d EXCEPT !.i = @ + 1 + n, !.read = Append(@, args[c.i])]
  IN CASE a.dashes = 0 -> Skip(ParseUrl(c, a.url, eol), 0)
       [] a.dashes = 2 -> LET d == SetParm(c, a.option, next, eol) IN Skip(d, d.more)
       [] a.dashes = 1 /\ ~counts -> Skip(c, 0)
       [] a.dashes = 1 /\ counts /\ a.glued # None -> Skip(SetOption(c, a.option, a.glued, eol), 0)
       [] OTHER -> IF next = "" \/ What[next].dashes > 0 THEN Exit(c)
                   ELSE Skip(SetOption(c, a.option, next, eol), 1)

(* What follows the loop. *)
Finish(c) ==
  LET full == [c EXCEPT !.concurrency = IF @ = 0 THEN 1 ELSE @,
                        !.count = IF @ <= 1 THEN 1000 ELSE @,
                        !.port = IF @ = 0 THEN 80 ELSE @]
      looked == AddAddresses(full, "targets", What[full.server[1]].hosts)
  IN IF c.server = None THEN Exit(c)
     ELSE IF c.targets # <<>> THEN [full EXCEPT !.ended = "done"]
     ELSE [looked EXCEPT !.ended = IF @ = "exit" THEN "bad" ELSE "done"]

Read ==
  /\ conf.ended = "no"
  /\ \E eol \in Misreads :
       /\ conf' = IF conf.i <= Len(args) THEN Turn(conf, eol) ELSE Finish(conf)
       /\ misread' = (misread \/ eol # {})
  /\ UNCHANGED args

ConfNext == Read

ConfSpec == ConfInit /\ [][ConfNext]_confVars

------------------------------------------------------------------------------
(* However many edits there are, the request is the one they ask for: each    *)
(* part and each field has the last value it was given, a field stays where   *)
(* it was first put, and the rest is left alone.  Unless is_eol() misreads.   *)
RequestEdited ==
  misread \/ conf.request = IF conf.edited THEN Written(conf.asked) ELSE <<>>

UrlsIn(c) == {j \in DOMAIN c.read : What[c.read[j]].dashes = 0}
PortsIn(c) == {j \in UrlsIn(c) : What[c.read[j]].url.port # None}
UrlAt(c, at) == What[c.read[Max(at)]].url

UrlEdited(c) == \E o \in c.options \cap DOMAIN Header : Same(Header[o], <<"url">>)

(* When the program starts, it does so with what the last URL says: server,   *)
(* port, path and request line, and with addresses that were looked up for    *)
(* that port.  Except that the path is cut if it does not begin with a slash  *)
(* (main-conf.c:253-265), that --http-url may come after it, and that         *)
(* --targetip may come before it.                                             *)
AsAsked ==
  conf.ended = "done" =>
    LET url == UrlAt(conf, UrlsIn(conf))
        given == UrlAt(conf, PortsIn(conf)).port
        targets == {conf.targets[j].port : j \in DOMAIN conf.targets}
    IN /\ conf.server = url.host
       /\ conf.port = IF PortsIn(conf) = {} THEN 80 ELSE IF given = 0 THEN 80 ELSE given
       /\ conf.concurrency >= 1 /\ conf.count > 1 /\ targets # {}
       /\ "targetip" \notin conf.options => targets = {conf.port}
       /\ (url.path = <<>> \/ Rooted(url.path)) /\ ~UrlEdited(conf) => conf.asked.url = conf.path
==============================================================================
