------------------------------ MODULE CookieJar ------------------------------
(***************************************************************************)
(* burl's cookie_jar over several runs of burl: what Set-Cookie fields put *)
(* into it, what goes into the Cookie field of a request, and what becomes *)
(* of it when it is written with --cookie-jar and read again with --cookie.*)
(*                                                                         *)
(* Host names are sequences of labels; a leading dot is an empty label.    *)
(* Paths are sequences of characters, because path_match looks at one of   *)
(* them by its index.  The list of cookies is a set: its order, and how    *)
(* often it holds a cookie that two files have in common, show in the      *)
(* field only.  SameSite and Partitioned are never looked at again.        *)
(***************************************************************************)
EXTENDS Integers, Sequences, SequencesExt

CONSTANTS
    Urls,           \* URLs that are requested
    Forms,          \* the Set-Cookie fields servers answer with
    SecureNames,    \* names that begin with "__Secure-"
    HostNames,      \* names that begin with "__Host-"
    PublicSuffixes, \* of the list in libpsl
    Files,          \* cookie files
    Empty,          \* the empty value
    Tabbed,         \* labels and characters of a path with a tab in them
    Hashed,         \* labels that begin with a #
    Second,         \* how many periods of std::chrono::system_clock are a second
    Zone,           \* how far the local time is behind GMT, in seconds
    EpochMax,       \* largest number of seconds a std::uint32_t holds, 2^32 - 1
    MaxSets,        \* bound: Set-Cookie fields received
    MaxRuns,        \* bound: starts of burl
    MaxTime,        \* bound: the clock, in periods
    None            \* boost::none

Url == [secure : BOOLEAN, host : Seq(STRING) \ {<<>>}, path : Seq(STRING)]

\* A parsed Set-Cookie field.  The expiry is that of the last Expires or Max-Age, in
\* seconds.
Form ==
    [name : STRING, value : STRING, secure : BOOLEAN, http_only : BOOLEAN,
     expiry : [kind : {"never", "date", "age"}, t : Int],
     domain : (Seq(STRING) \ {<<>>}) \cup {None}, path : (Seq(STRING) \ {<<>>}) \cup {None}]

ASSUME UrlsAssumption == \A u \in Urls : u \in Url
ASSUME FormsAssumption == \A f \in Forms : f \in Form
ASSUME TimeAssumption ==
    Zone \in Int /\ Second \in Nat \ {0} /\ EpochMax \in Nat /\ None \notin Int
ASSUME BoundsAssumption == MaxSets \in Nat /\ MaxRuns \in Nat /\ MaxTime \in Nat

VARIABLES
    psl,        \* the program was built with libpsl
    now,        \* the clock, in periods since the epoch
    phase,      \* "up" while burl runs
    runs,       \* how often it was started
    cookies,    \* cookies_
    file,       \* the lines of each cookie file
    \* history
    log,        \* the Set-Cookie fields received, with URL and time
    known,      \* those that the jar has taken notice of ...
    knownSaved, \* ... and each file
    saved,      \* the jar that was written to each file
    junked      \* with --junk-session-cookies: the number received before

vars == <<psl, now, phase, runs, cookies, file, log, known, knownSaved, saved, junked>>

-------------------------------------------------------------------------------
(***************************************************************************)
(* parse_cookie.                                                           *)
(***************************************************************************)

\* The requirements on the name's prefix; an error is thrown by extract_cookies.
Valid(f) ==
    /\ f.name \in SecureNames => f.secure
    /\ f.name \in HostNames => f.secure /\ f.path = <<"/">> /\ f.domain = None

\* Max-Age counts from now, to the period; a date is in GMT, but std::mktime in
\* parse_date takes it for local time.
Expires(f, at) ==
    CASE f.expiry.kind = "never" -> None
      [] f.expiry.kind = "age" -> at + f.expiry.t * Second
      [] f.expiry.kind = "date" -> (f.expiry.t + Zone) * Second

-------------------------------------------------------------------------------
(***************************************************************************)
(* add.                                                                    *)
(***************************************************************************)

\* The path of the URL up to its last slash.
DefaultPath(path) ==
    LET slashes == {i \in 2..Len(path) : path[i] = "/"}
    IN IF slashes = {} THEN <<"/">> ELSE SubSeq(path, 1, Max(slashes) - 1)

\* domain_match for a cookie with a Domain attribute: the host or a subdomain.
TailMatch(host, domain) ==
    LET d == IF Head(domain) = "" THEN Tail(domain) ELSE domain
    IN IsSuffix(d, host)

\* psl_is_cookie_domain_acceptable of libpsl.
Acceptable(host, domain) ==
    host = domain \/ (TailMatch(host, domain) /\ domain \notin PublicSuffixes)

\* The cookie that field f in a response to url becomes.
Made(url, f, at, n) ==
    [name |-> f.name, value |-> f.value, expires |-> Expires(f, at),
     domain |-> IF f.domain = None THEN url.host ELSE f.domain,
     path |-> IF f.path = None THEN DefaultPath(url.path) ELSE f.path,
     secure |-> f.secure, http_only |-> f.http_only,
     tailmatch |-> f.domain # None, serial |-> n]

\* The early returns of add in front of the replacement.
Takes(url, f) ==
    /\ Valid(f)
    /\ ~ (psl /\ f.domain # None /\ Acceptable(url.host, f.domain))
    /\ f.secure => url.secure

Key(c) == <<c.name, c.path, c.domain>>

\* Fault: a cookie that has expired is dropped before it replaces the old one.
AddedIfLive(jar, c) ==
    IF c.expires # None /\ c.expires < now THEN jar
    ELSE {o \in jar : Key(o) # Key(c)} \cup {c}

\* The cookie replaces one with the same key; a server that sends an expired one
\* only removes it.
Added(jar, c) ==
    {o \in jar : Key(o) # Key(c)}
    \cup (IF c.expires # None /\ c.expires < now THEN {} ELSE {c})

\* extract_cookies: a Set-Cookie field of a response to url.  After one that is not
\* valid it throws: the later fields of that response are as if they were not sent.
Receive(url, f) ==
    /\ phase = "up"
    /\ Len(log) < MaxSets
    /\ log' = Append(log, [url |-> url, form |-> f, at |-> now])
    /\ IF Takes(url, f)
       THEN /\ cookies' = Added(cookies, Made(url, f, now, Len(log) + 1))
            /\ known' = known \cup {Len(log) + 1}
       ELSE UNCHANGED <<cookies, known>>
    /\ UNCHANGED <<psl, now, phase, runs, file, knownSaved, saved, junked>>

-------------------------------------------------------------------------------
(***************************************************************************)
(* make_field.                                                             *)
(***************************************************************************)

DomainMatch(host, c) == IF c.tailmatch THEN TailMatch(host, c.domain) ELSE host = c.domain

\* path_match; the character looked at is the one the code looks at.
PathMatch(path, cpath) ==
    \/ path = <<>>
    \/ /\ IsPrefix(cpath, path)
       /\ \/ Len(path) = Len(cpath)
          \/ Last(cpath) = "/"
          \/ path[Len(path) - Len(cpath) + 1] = "/"

Live(c) == c.expires = None \/ c.expires > now

\* The cookies make_field sends to url.
Field(url) ==
    {c \in cookies : /\ Live(c)
                     /\ DomainMatch(url.host, c)
                     /\ PathMatch(url.path, c.path)
                     /\ c.secure => url.secure}

\* set_cookies, for any URL: what has expired is erased on the way.
Request ==
    /\ phase = "up"
    /\ cookies' = {c \in cookies : Live(c)}
    /\ UNCHANGED <<psl, now, phase, runs, file, log, known, knownSaved, saved, junked>>

-------------------------------------------------------------------------------
(***************************************************************************)
(* The cookie file.  The history number travels with its line.             *)
(***************************************************************************)

Flag(b) == IF b THEN "TRUE" ELSE "FALSE"

\* The comment at the top.
Title == [mark |-> "# Netscape HTTP Cookie File"]

\* Fault: the time of expiry is rounded to the nearest second.
LineRounded(c) ==
    [mark |-> IF c.http_only THEN "#HttpOnly_" ELSE "", domain |-> c.domain,
     tailmatch |-> Flag(c.tailmatch), path |-> c.path, secure |-> Flag(c.secure),
     expires |-> IF c.expires = None THEN 0 ELSE (c.expires + Second \div 2) \div Second,
     name |-> c.name, value |-> c.value, serial |-> c.serial]

\* operator<<: no expiry is written as 0, any other one in whole seconds.
Line(c) ==
    [mark |-> IF c.http_only THEN "#HttpOnly_" ELSE "", domain |-> c.domain,
     tailmatch |-> Flag(c.tailmatch), path |-> c.path, secure |-> Flag(c.secure),
     expires |-> IF c.expires = None THEN 0 ELSE c.expires \div Second,
     name |-> c.name, value |-> c.value, serial |-> c.serial]

\* A line that begins with a #, except "#HttpOnly_".  (A Domain that itself begins
\* with "#HttpOnly_" is left out.)
IsComment(line) ==
    \/ line.mark \notin {"", "#HttpOnly_"}
    \/ line.mark = "" /\ Head(line.domain) \in Hashed

NoTab(text) == \A i \in DOMAIN text : text[i] \notin Tabbed

\* netscape_parser: the expiry has 32 bits, a token is not empty, and a tab ends a
\* token, so that one too many makes the line fail.
Parses(line) ==
    /\ line.expires \in 0..EpochMax
    /\ line.value # Empty
    /\ NoTab(line.domain) /\ NoTab(line.path)

\* Fault: the flags are taken in the wrong order.
ParsedSwapped(line) ==
    [name |-> line.name, value |-> line.value,
     expires |-> IF line.expires = 0 THEN None ELSE line.expires * Second,
     domain |-> line.domain, path |-> line.path, secure |-> line.tailmatch = "TRUE",
     http_only |-> line.mark = "#HttpOnly_", tailmatch |-> line.secure = "TRUE",
     serial |-> line.serial]

\* parse_netscape_cookie.
Parsed(line) ==
    [name |-> line.name, value |-> line.value,
     expires |-> IF line.expires = 0 THEN None ELSE line.expires * Second,
     domain |-> line.domain, path |-> line.path, secure |-> line.secure = "TRUE",
     http_only |-> line.mark = "#HttpOnly_", tailmatch |-> line.tailmatch = "TRUE",
     serial |-> line.serial]

\* operator>>: what it makes a cookie of; a file that does not exist has no lines.
Lines(f) == {line \in file[f] : ~ IsComment(line)}

\* clear_session_cookies.
WithoutSession(jar) == {c \in jar : c.expires # None}

\* co_main begins, with a --cookie <file> for each of the files reads and with or
\* without --junk-session-cookies.  A line that does not parse ends it with an
\* exception.  What the jar is then known to have taken notice of is what all of
\* the files have.
Start(reads, junk) ==
    /\ phase = "down"
    /\ runs < MaxRuns
    /\ runs' = runs + 1
    /\ LET lines == UNION {Lines(f) : f \in reads}
           jar == {Parsed(line) : line \in lines}
       IN IF \E line \in lines : ~ Parses(line)
          THEN UNCHANGED <<phase, cookies, known, junked>>
          ELSE /\ phase' = "up"
               /\ cookies' = IF junk THEN WithoutSession(jar) ELSE jar
               /\ known' = {n \in 1..Len(log) :
                               reads # {} /\ \A f \in reads : n \in knownSaved[f]}
               /\ junked' = IF junk THEN Len(log) ELSE 0
    /\ UNCHANGED <<psl, now, file, log, knownSaved, saved>>

\* co_main ends and writes the jar to --cookie-jar f, after an error or an interrupt
\* too.
Save(f) ==
    /\ phase = "up"
    /\ phase' = "down"
    /\ file' = [file EXCEPT ![f] = {Line(c) : c \in cookies} \cup {Title}]
    /\ saved' = [saved EXCEPT ![f] = cookies]
    /\ knownSaved' = [knownSaved EXCEPT ![f] = known]
    /\ cookies' = {} /\ known' = {}
    /\ UNCHANGED <<psl, now, runs, log, junked>>

\* It ends without --cookie-jar, or is killed.
Leave ==
    /\ phase = "up"
    /\ phase' = "down"
    /\ cookies' = {} /\ known' = {}
    /\ UNCHANGED <<psl, now, runs, file, log, knownSaved, saved, junked>>

Tick ==
    /\ now < MaxTime
    /\ now' = now + 1
    /\ UNCHANGED <<psl, phase, runs, cookies, file, log, known, knownSaved, saved, junked>>

-------------------------------------------------------------------------------
Init ==
    /\ psl \in BOOLEAN
    /\ now = Second
    /\ phase = "down" /\ runs = 0
    /\ cookies = {}
    /\ file = [f \in Files |-> {}] /\ saved = [f \in Files |-> {}]
    /\ log = <<>>
    /\ known = {} /\ knownSaved = [f \in Files |-> {}] /\ junked = 0

Next ==
    \/ \E url \in Urls, f \in Forms : Receive(url, f)
    \/ Request
    \/ \E reads \in SUBSET Files, junk \in BOOLEAN : Start(reads, junk)
    \/ \E f \in Files : Save(f)
    \/ Leave
    \/ Tick

Spec == Init /\ [][Next]_vars

-------------------------------------------------------------------------------
(***************************************************************************)
(* Properties.                                                             *)
(***************************************************************************)

Entry == [url : Urls, form : Forms, at : Nat]

Cookie ==
    [name : {f.name : f \in Forms}, value : {f.value : f \in Forms},
     expires : {t \in Nat : t >= Second} \cup {None},
     domain : {u.host : u \in Urls} \cup {f.domain : f \in Forms},
     path : {DefaultPath(u.path) : u \in Urls} \cup {f.path : f \in Forms},
     secure : BOOLEAN, http_only : BOOLEAN, tailmatch : BOOLEAN, serial : Nat]

\* What is in a file that jar was written to, or in a file that does not exist.
Holds(lines, jar) ==
    lines \in {{Line(c) : c \in jar}, {Line(c) : c \in jar} \cup {Title}}

TypeOK ==
    /\ psl \in BOOLEAN
    /\ now \in Nat /\ now >= Second
    /\ phase \in {"up", "down"}
    /\ runs \in 0..MaxRuns
    /\ cookies \in SUBSET Cookie
    /\ saved \in [Files -> SUBSET Cookie]
    /\ DOMAIN file = Files
    /\ \A f \in Files : Holds(file[f], saved[f])
    /\ log \in Seq(Entry)
    /\ known \subseteq 1..Len(log)
    /\ knownSaved \in [Files -> SUBSET (1..Len(log))]
    /\ junked \in 0..Len(log)

\* What the server that set a cookie said about it.
Set(c) == log[c.serial]

\* A cookie that was set with Secure was set over TLS and goes out over TLS only; one
\* that was set without a Domain goes back to the host that set it and to no other
\* one; and one with a "__Host-" name is always both.  That holds after any number
\* of restarts, through the text of the cookie file.
SentInScope ==
    \A url \in Urls : \A c \in Field(url) :
        /\ Set(c).form.secure => url.secure /\ Set(c).url.secure
        /\ Set(c).form.domain = None => url.host = Set(c).url.host
        /\ c.name \in HostNames =>
            url.secure /\ Set(c).url.secure /\ url.host = Set(c).url.host

\* No cookie is sent once its time is over (for a date: by the local clock).
NotSentExpired ==
    \A url \in Urls : \A c \in Field(url) :
        LET at == Expires(Set(c).form, Set(c).at) IN at # None => at > now

\* A cookie in the jar is the last one with its key that the jar, or the file it was
\* read from, took notice of: a value that was replaced or removed by its server
\* does not come back.  (Of several files that were read together, all must have
\* taken notice: what one of them lacks, an older one brings back.)
LatestWins ==
    \A c \in cookies : \A n \in known :
        n > c.serial =>
            Key(Made(log[n].url, log[n].form, log[n].at, n)) # Key(c)

\* With --junk-session-cookies no session cookie of an earlier run is in the jar.
SessionJunked ==
    \A c \in cookies : Set(c).form.expiry.kind = "never" => c.serial > junked

\* d is cookie c, but may expire earlier.
Earlier(d, c) ==
    /\ d = [c EXCEPT !.expires = d.expires]
    /\ d.expires = None <=> c.expires = None
    /\ c.expires # None => d.expires <= c.expires

\* The jars that the format of the file can hold: every cookie has a value, a time of
\* expiry of 32 bits, no tab in its domain and path, and a domain without a # in front.
Storable(jar) ==
    \A c \in jar :
        /\ c.value # Empty
        /\ c.expires = None \/ c.expires \div Second <= EpochMax
        /\ NoTab(c.domain) /\ NoTab(c.path) /\ Head(c.domain) \notin Hashed

\* Of what --cookie-jar has written in such a jar, --cookie loses and invents nothing:
\* every cookie comes back as it was, a session cookie as a session cookie, any other
\* one with a time of expiry that is less than a second earlier and never later; and
\* no other cookie comes back.
RestoresJar ==
    [][\A reads \in SUBSET Files :
        (Start(reads, FALSE) /\ \A f \in reads : Storable(saved[f])) =>
            /\ phase' = "up"
            /\ \A f \in reads : \A c \in saved[f] : \E d \in cookies' :
                Earlier(d, c) /\ (c.expires # None => c.expires < d.expires + Second)
            /\ \A d \in cookies' : \E f \in reads : \E c \in saved[f] : Earlier(d, c)]_vars
=============================================================================
