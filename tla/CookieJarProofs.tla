--------------------------- MODULE CookieJarProofs ---------------------------
(***************************************************************************)
(* Proofs about CookieJar, for any URLs, Set-Cookie fields, number of runs *)
(* and builds.                                                             *)
(*                                                                         *)
(* The invariant says of the jar and of the files alike that a cookie is   *)
(* still what its server sent, up to a time of expiry that the file has    *)
(* made earlier (Genuine), and the last of its key (Latest).  That has to  *)
(* hold of the files although no property mentions it, because the next    *)
(* run starts from them.                                                   *)
(***************************************************************************)
EXTENDS CookieJar, TLAPS

\* A Set-Cookie field that the jar could take.
TakenEntry == {e \in Entry : Valid(e.form) /\ (e.form.secure => e.url.secure)}

\* A cookie with the field it was made from.
MadeFrom ==
    {p \in Cookie \X TakenEntry :
        Earlier(p[1], Made(p[2].url, p[2].form, p[2].at, p[1].serial))}

\* A field with a cookie of the same key.
SameKey ==
    {p \in Entry \X Cookie : Key(Made(p[1].url, p[1].form, p[1].at, 0)) = Key(p[2])}

Genuine(jar) ==
    \A c \in jar : c.serial \in 1..Len(log) /\ <<c, log[c.serial]>> \in MadeFrom

Latest(jar, ks) ==
    \A c \in jar : \A n \in ks : n > c.serial => <<log[n], c>> \notin SameKey

IInv ==
    /\ TypeOK
    /\ Genuine(cookies) /\ \A f \in Files : Genuine(saved[f])
    /\ Latest(cookies, known) /\ \A f \in Files : Latest(saved[f], knownSaved[f])
    /\ SessionJunked

-------------------------------------------------------------------------------
(***************************************************************************)
(* Lemmas on the operators.                                                *)
(***************************************************************************)

\* Seconds and periods.
LEMMA Whole ==
    ASSUME NEW t \in Int
    PROVE  /\ t * Second \in Int
           /\ t >= 1 => t * Second >= Second
<1>1. Second \in Nat /\ Second > 0
  BY TimeAssumption
<1>2. t * Second \in Int
  BY <1>1
<1>3. ASSUME t >= 1 PROVE t * Second >= Second
  <2>1. t * Second = Second + (t - 1) * Second
    BY <1>1
  <2>2. (t - 1) * Second >= 0
    BY <1>1, <1>3
  <2> QED
    BY <1>1, <1>2, <2>1, <2>2
<1> QED
  BY <1>2, <1>3

\* Cutting a time to whole seconds.
LEMMA Cut ==
    ASSUME NEW t \in Nat, t >= Second
    PROVE  /\ t \div Second \in Nat \ {0}
           /\ (t \div Second) * Second \in Nat
           /\ (t \div Second) * Second >= Second
           /\ (t \div Second) * Second <= t
           /\ t < (t \div Second) * Second + Second
<1>1. Second \in Nat /\ Second > 0
  BY TimeAssumption
<1> DEFINE q == t \div Second
<1>2. q \in Int /\ Second * q <= t /\ t < Second * q + Second
  BY <1>1
<1>3. q * Second = Second * q
  BY <1>1, <1>2
<1>4. q >= 1
  <2> SUFFICES ASSUME q <= 0 PROVE FALSE
    BY <1>2
  <2>1. Second * q <= 0
    BY <1>1, <1>2
  <2> QED
    BY <1>1, <1>2, <2>1
<1>5. q * Second \in Int /\ q * Second >= Second
  BY <1>2, <1>4, Whole
<1> QED
  BY <1>1, <1>2, <1>3, <1>4, <1>5

\* A Set-Cookie field has no expiry exactly if it names none.
LEMMA ExpiresType ==
    ASSUME NEW f \in Forms, NEW at \in Nat
    PROVE  /\ Expires(f, at) \in Int \cup {None}
           /\ Expires(f, at) = None <=> f.expiry.kind = "never"
<1>1. /\ f.expiry.kind \in {"never", "date", "age"}
      /\ f.expiry.t \in Int
  BY FormsAssumption DEF Form
<1>2. CASE f.expiry.kind = "never"
  BY <1>2 DEF Expires
<1>3. CASE f.expiry.kind = "age"
  <2>1. Expires(f, at) = at + f.expiry.t * Second
    BY <1>3 DEF Expires
  <2>2. f.expiry.t * Second \in Int
    BY <1>1, Whole
  <2>3. Expires(f, at) \in Int
    BY <2>1, <2>2
  <2> QED
    BY <2>3, <1>3, TimeAssumption
<1>4. CASE f.expiry.kind = "date"
  <2>1. Expires(f, at) = (f.expiry.t + Zone) * Second
    BY <1>4 DEF Expires
  <2>2. f.expiry.t + Zone \in Int
    BY <1>1, TimeAssumption
  <2>3. Expires(f, at) \in Int
    BY <2>1, <2>2, Whole
  <2> QED
    BY <2>3, <1>4, TimeAssumption
<1> QED
  BY <1>1, <1>2, <1>3, <1>4

\* What a field becomes has the type of a cookie unless its time is over.
LEMMA MadeType ==
    ASSUME NEW url \in Urls, NEW f \in Forms, NEW at \in Nat, at >= Second, NEW n \in Nat,
           Expires(f, at) = None \/ ~ (Expires(f, at) < at)
    PROVE  Made(url, f, at, n) \in Cookie
<1>1. f.secure \in BOOLEAN /\ f.http_only \in BOOLEAN
  BY FormsAssumption DEF Form
<1>2. Expires(f, at) \in {t \in Nat : t >= Second} \cup {None}
  BY ExpiresType, TimeAssumption
<1>3. (IF f.domain = None THEN url.host ELSE f.domain)
        \in {u.host : u \in Urls} \cup {g.domain : g \in Forms}
  OBVIOUS
<1>4. (IF f.path = None THEN DefaultPath(url.path) ELSE f.path)
        \in {DefaultPath(u.path) : u \in Urls} \cup {g.path : g \in Forms}
  OBVIOUS
<1>5. (f.domain # None) \in BOOLEAN
  OBVIOUS
<1>6. f.name \in {g.name : g \in Forms} /\ f.value \in {g.value : g \in Forms}
  OBVIOUS
<1> QED
  BY <1>1, <1>2, <1>3, <1>4, <1>5, <1>6 DEF Made, Cookie

\* Reading a line gives back the cookie it was written for, less than a second short.
LEMMA ParsedLine ==
    ASSUME NEW c \in Cookie
    PROVE  /\ Parsed(Line(c)) \in Cookie
           /\ Earlier(Parsed(Line(c)), c)
           /\ c.expires # None => c.expires < Parsed(Line(c)).expires + Second
<1> DEFINE d == Parsed(Line(c))
<1>1. d.name = c.name /\ d.value = c.value
  BY DEF Parsed, Line
<1>2. c.expires = None \/ (c.expires \in Nat /\ c.expires >= Second)
  BY DEF Cookie
<1>3. c.expires = None => d.expires = None
  BY DEF Parsed, Line
<1>4. ASSUME c.expires # None
      PROVE  /\ d.expires = (c.expires \div Second) * Second
             /\ d.expires \in Nat /\ d.expires >= Second
             /\ d.expires <= c.expires /\ c.expires < d.expires + Second
  <2>1. c.expires \in Nat /\ c.expires >= Second
    BY <1>2, <1>4
  <2>2. Line(c).expires = c.expires \div Second
    BY <1>4 DEF Line
  <2>3. Line(c).expires # 0
    BY <2>1, <2>2, Cut
  <2>4. d.expires = (c.expires \div Second) * Second
    BY <2>2, <2>3 DEF Parsed
  <2> QED
    BY <2>1, <2>4, Cut
<1>5. c.secure \in BOOLEAN /\ c.http_only \in BOOLEAN /\ c.tailmatch \in BOOLEAN
  BY DEF Cookie
<1>6. d.secure = c.secure
  BY <1>5 DEF Parsed, Line, Flag
<1>7. d.tailmatch = c.tailmatch
  BY <1>5 DEF Parsed, Line, Flag
<1>8. d.http_only = c.http_only
  BY <1>5 DEF Parsed, Line
<1>9. d = [name |-> c.name, value |-> c.value, expires |-> d.expires,
        domain |-> c.domain, path |-> c.path, secure |-> c.secure,
        http_only |-> c.http_only, tailmatch |-> c.tailmatch, serial |-> c.serial]
  BY <1>1, <1>6, <1>7, <1>8 DEF Parsed, Line
<1>10. d = [c EXCEPT !.expires = d.expires]
  BY <1>9 DEF Cookie
<1>11. d.expires \in {t \in Nat : t >= Second} \cup {None}
  BY <1>3, <1>4
<1>12. d \in Cookie
  BY <1>10, <1>11 DEF Cookie
<1>13. d.expires = None <=> c.expires = None
  BY <1>3, <1>4, TimeAssumption
<1> QED
  BY <1>4, <1>10, <1>12, <1>13 DEF Earlier

\* The lines of a file that are no comments are those of cookies, of all cookies if none
\* has a domain that begins with a #.
LEMMA LinesOfSaved ==
    ASSUME TypeOK, NEW f \in Files
    PROVE  /\ Lines(f) \subseteq {Line(c) : c \in saved[f]}
           /\ \A c \in saved[f] : Head(c.domain) \notin Hashed => Line(c) \in Lines(f)
<1>1. \A c \in saved[f] : Head(c.domain) \notin Hashed => ~ IsComment(Line(c))
  BY DEF IsComment, Line
<1>2. IsComment(Title)
  BY DEF IsComment, Title
<1> QED
  BY <1>1, <1>2 DEF Lines, TypeOK, Holds

\* The rest of a cookie does not depend on when it expires.
LEMMA EarlierFields ==
    ASSUME NEW c, NEW d, Earlier(d, c), NEW url, NEW f, NEW at, NEW n, c = Made(url, f, at, n)
    PROVE  /\ d.name = c.name /\ d.domain = c.domain /\ d.path = c.path
           /\ d.secure = c.secure /\ d.tailmatch = c.tailmatch
<1>1. d = [c EXCEPT !.expires = d.expires]
  BY DEF Earlier
<1> QED
  BY <1>1 DEF Made

\* An earlier cookie made earlier still is an earlier cookie.
LEMMA EarlierTwice ==
    ASSUME NEW c \in Cookie, NEW d \in Cookie, Earlier(d, c),
           NEW url \in Urls, NEW f \in Forms, NEW at \in Nat, NEW n,
           Earlier(c, Made(url, f, at, n))
    PROVE  Earlier(d, Made(url, f, at, n))
<1> DEFINE m == Made(url, f, at, n)
<1>1. d = [c EXCEPT !.expires = d.expires] /\ c = [m EXCEPT !.expires = c.expires]
  BY DEF Earlier
<1>2. d = [m EXCEPT !.expires = d.expires]
  BY <1>1 DEF Made
<1>3. m.expires = Expires(f, at)
  BY DEF Made
<1>4. m.expires \in Int \cup {None}
  BY <1>3, ExpiresType
<1>5. c.expires \in Nat \cup {None} /\ d.expires \in Nat \cup {None}
  BY DEF Cookie
<1>6. /\ d.expires = None <=> c.expires = None
      /\ c.expires = None <=> m.expires = None
      /\ c.expires # None => d.expires <= c.expires
      /\ m.expires # None => c.expires <= m.expires
  BY DEF Earlier
<1>7. m.expires # None => d.expires <= m.expires
  <2> SUFFICES ASSUME m.expires # None PROVE d.expires <= m.expires
    OBVIOUS
  <2>1. d.expires \in Nat /\ c.expires \in Nat /\ m.expires \in Int
    BY <1>4, <1>5, <1>6
  <2> QED
    BY <2>1, <1>6, TimeAssumption
<1> QED
  BY <1>2, <1>6, <1>7 DEF Earlier

\* The parts of a cookie that decide where it is sent.
LEMMA MadeFields ==
    ASSUME NEW url, NEW f, NEW at, NEW n, NEW m, m = Made(url, f, at, n)
    PROVE  /\ m.secure = f.secure
           /\ f.domain = None => ~ m.tailmatch /\ m.domain = url.host
<1>1. Made(url, f, at, n).secure = f.secure
  BY Zenon DEF Made
<1>2. Made(url, f, at, n).tailmatch = (f.domain # None)
  BY Zenon DEF Made
<1>3. Made(url, f, at, n).domain = IF f.domain = None THEN url.host ELSE f.domain
  BY DEF Made
<1> QED
  BY <1>1, <1>2, <1>3, Zenon

\* The number of a cookie is not part of its key.
LEMMA KeyOfMade ==
    ASSUME NEW url, NEW f, NEW at, NEW m, NEW n
    PROVE  Key(Made(url, f, at, m)) = Key(Made(url, f, at, n))
  BY DEF Key, Made

-------------------------------------------------------------------------------
(***************************************************************************)
(* The invariant.                                                          *)
(***************************************************************************)

\* The invariant holds at first.
LEMMA InitIInv == Init => IInv
<1> SUFFICES ASSUME Init PROVE IInv
  OBVIOUS
<1>1. TypeOK
  BY BoundsAssumption, TimeAssumption DEF Init, TypeOK, Holds
<1> QED
  BY <1>1 DEF Init, IInv, Genuine, Latest, SessionJunked

\* A longer log keeps what is known of a jar.
LEMMA AppendKeeps ==
    ASSUME TypeOK, NEW e \in Entry, log' = Append(log, e), NEW jar, NEW ks \in SUBSET (1..Len(log)),
           Genuine(jar), Latest(jar, ks)
    PROVE  /\ \A c \in jar : c.serial \in 1..Len(log') /\ <<c, log'[c.serial]>> \in MadeFrom
           /\ \A c \in jar : \A n \in ks : n > c.serial => <<log'[n], c>> \notin SameKey
<1>1. /\ Len(log') = Len(log) + 1 /\ Len(log) \in Nat
      /\ \A k \in 1..Len(log) : log'[k] = log[k]
  BY DEF TypeOK
<1>2. 1..Len(log) \subseteq 1..Len(log')
  BY <1>1
<1>3. \A c \in jar : c.serial \in 1..Len(log') /\ <<c, log'[c.serial]>> \in MadeFrom
  BY <1>1, <1>2 DEF Genuine
<1> QED
  BY <1>1, <1>3 DEF Latest

\* A response keeps it.
LEMMA ReceiveKeeps ==
    ASSUME IInv, NEW url \in Urls, NEW f \in Forms, Receive(url, f)
    PROVE  IInv'
<1> DEFINE n == Len(log) + 1
           c == Made(url, f, now, n)
           e == [url |-> url, form |-> f, at |-> now]
<1>1. /\ TypeOK
      /\ log' = Append(log, e)
      /\ e \in Entry
      /\ n \in Nat
      /\ UNCHANGED <<psl, now, phase, runs, file, knownSaved, saved, junked>>
  <2>1. TypeOK
    BY DEF IInv
  <2>2. log' = Append(log, e) /\ UNCHANGED <<psl, now, phase, runs, file, knownSaved, saved, junked>>
    BY DEF Receive
  <2>3. e \in Entry /\ n \in Nat
    BY <2>1 DEF TypeOK, Entry
  <2> QED
    BY <2>1, <2>2, <2>3
<1>2. /\ log' \in Seq(Entry) /\ Len(log') = n /\ log'[n] = e
      /\ \A k \in 1..Len(log) : log'[k] = log[k]
  BY <1>1 DEF TypeOK
<1>3. known \subseteq 1..Len(log) /\ knownSaved \in [Files -> SUBSET (1..Len(log))]
      /\ junked \in 0..Len(log) /\ Len(log) \in Nat
  BY <1>1 DEF TypeOK
<1>4. (\A g \in Files : Genuine(saved[g]) /\ Latest(saved[g], knownSaved[g]))'
  <2> SUFFICES ASSUME NEW g \in Files
               PROVE  /\ \A o \in saved[g] : o.serial \in 1..Len(log')
                                             /\ <<o, log'[o.serial]>> \in MadeFrom
                      /\ \A o \in saved[g] : \A k \in knownSaved[g] :
                            k > o.serial => <<log'[k], o>> \notin SameKey
    BY <1>1 DEF Genuine, Latest
  <2>1. Genuine(saved[g]) /\ Latest(saved[g], knownSaved[g])
        /\ knownSaved[g] \in SUBSET (1..Len(log))
    BY <1>3 DEF IInv
  <2> QED
    BY <1>1, <2>1, AppendKeeps
<1>11. /\ \A o \in cookies : o.serial \in 1..Len(log') /\ <<o, log'[o.serial]>> \in MadeFrom
       /\ \A o \in cookies : \A k \in known : k > o.serial => <<log'[k], o>> \notin SameKey
  BY <1>1, <1>3, AppendKeeps DEF IInv
<1>12. knownSaved' \in [Files -> SUBSET (1..Len(log'))] /\ junked' \in 0..Len(log')
  <2>1. 1..Len(log) \subseteq 1..n /\ 0..Len(log) \subseteq 0..n
    BY <1>3
  <2> QED
    BY <1>1, <1>2, <1>3, <2>1
<1>5. CASE ~ Takes(url, f)
  <2>1. UNCHANGED <<cookies, known>>
    BY <1>5 DEF Receive
  <2>2. TypeOK'
    <3>1. known' \subseteq 1..Len(log')
      BY <1>2, <1>3, <2>1
    <3> QED
      BY <1>1, <1>2, <1>12, <2>1, <3>1 DEF TypeOK
  <2>3. Genuine(cookies)' /\ Latest(cookies, known)'
    BY <1>11, <2>1 DEF Genuine, Latest
  <2>4. SessionJunked'
    BY <1>1, <1>2, <1>3, <2>1 DEF IInv, Genuine, SessionJunked, Set
  <2> QED
    BY <1>4, <2>2, <2>3, <2>4 DEF IInv
<1>6. CASE Takes(url, f)
  <2>1. cookies' = Added(cookies, c) /\ known' = known \cup {n}
    BY <1>6 DEF Receive
  <2>2. c.expires = Expires(f, now) /\ c.serial = n
    BY DEF Made
  <2>3. cookies' \subseteq {o \in cookies : Key(o) # Key(c)} \cup {c}
    BY <2>1 DEF Added
  <2>4. \A o \in cookies : o.serial \in 1..Len(log) /\ o.serial # n
    <3>1. \A o \in cookies : o.serial \in 1..Len(log)
      BY DEF IInv, Genuine
    <3>2. \A k \in 1..Len(log) : k # n
      BY <1>3
    <3> QED
      BY <3>1, <3>2
  <2>5. ASSUME c \in cookies'
        PROVE  c \in Cookie /\ <<c, e>> \in MadeFrom
    <3>1. c \notin cookies
      BY <2>2, <2>4
    <3>2. c.expires = None \/ ~ (c.expires < now)
      BY <2>1, <2>5, <3>1 DEF Added
    <3>3. c \in Cookie
      BY <1>1, <2>2, <3>2, MadeType DEF TypeOK
    <3>4. e \in TakenEntry
      BY <1>1, <1>6 DEF Takes, TakenEntry
    <3>5. Earlier(c, c)
      <4>1. c = [c EXCEPT !.expires = c.expires]
        BY DEF Made
      <4>2. c.expires # None => c.expires <= c.expires
        BY <3>3 DEF Cookie
      <4> HIDE DEF c
      <4> QED
        BY <4>1, <4>2 DEF Earlier
    <3>6. c = Made(e.url, e.form, e.at, c.serial)
      BY <2>2
    <3> HIDE DEF c, e
    <3> QED
      BY <3>3, <3>4, <3>5, <3>6 DEF MadeFrom
  <2>6. TypeOK'
    <3>1. cookies' \in SUBSET Cookie
      BY <1>1, <2>3, <2>5 DEF TypeOK
    <3>2. known' \subseteq 1..Len(log')
      <4>1. 1..Len(log) \subseteq 1..n /\ n \in 1..n
        BY <1>3
      <4> QED
        BY <1>2, <1>3, <2>1, <4>1
    <3> QED
      BY <1>1, <1>2, <1>12, <3>1, <3>2 DEF TypeOK
  <2>7. Genuine(cookies)'
    <3> SUFFICES ASSUME NEW o \in cookies'
                 PROVE  o.serial \in 1..Len(log') /\ <<o, log'[o.serial]>> \in MadeFrom
      BY DEF Genuine
    <3>1. CASE o = c
      <4>1. n \in 1..Len(log')
        BY <1>2, <1>3
      <4> QED
        BY <3>1, <4>1, <1>2, <2>2, <2>5
    <3>2. CASE o # c
      BY <3>2, <1>11, <2>3
    <3> QED
      BY <3>1, <3>2
  <2>8. Latest(cookies, known)'
    <3> SUFFICES ASSUME NEW o \in cookies', NEW k \in known', k > o.serial
                 PROVE  <<log'[k], o>> \notin SameKey
      BY DEF Latest
    <3>1. o # c
      BY <1>3, <2>1, <2>2
    <3>2. o \in cookies /\ Key(o) # Key(c)
      BY <2>3, <3>1
    <3>3. CASE k = n
      <4>1. Key(Made(url, f, now, 0)) = Key(c)
        BY KeyOfMade
      <4>2. log'[k] = e
        BY <3>3, <1>2
      <4> QED
        BY <3>2, <4>1, <4>2 DEF SameKey
    <3>4. CASE k # n
      BY <3>2, <3>4, <1>11, <2>1
    <3> QED
      BY <3>3, <3>4
  <2>9. SessionJunked'
    <3> SUFFICES ASSUME NEW o \in cookies', log'[o.serial].form.expiry.kind = "never"
                 PROVE  o.serial > junked
      BY <1>1 DEF SessionJunked, Set
    <3>1. CASE o = c
      BY <3>1, <2>2, <1>3
    <3>2. CASE o # c
      BY <3>2, <1>2, <1>3, <2>3, <2>4 DEF IInv, SessionJunked, Set
    <3> QED
      BY <3>1, <3>2
  <2> QED
    BY <1>4, <2>6, <2>7, <2>8, <2>9 DEF IInv
<1> QED
  BY <1>5, <1>6

\* What a new run reads is what was written, but may expire earlier.
LEMMA ReadsSaved ==
    ASSUME IInv, NEW f \in Files, NEW line \in Lines(f)
    PROVE  \E c \in saved[f] : /\ line = Line(c) /\ Earlier(Parsed(line), c)
                               /\ Parsed(line) \in Cookie
                               /\ Parsed(line).serial \in 1..Len(log)
                               /\ Parsed(line).serial = c.serial
                               /\ Key(Parsed(line)) = Key(c)
                               /\ <<Parsed(line), log[c.serial]>> \in MadeFrom
<1>1. TypeOK
  BY DEF IInv
<1>2. PICK c \in saved[f] : line = Line(c)
  BY <1>1, LinesOfSaved
<1>3. c \in Cookie
  BY <1>1 DEF TypeOK
<1> DEFINE d == Parsed(Line(c))
           m == Made(log[c.serial].url, log[c.serial].form, log[c.serial].at, c.serial)
<1>4. d \in Cookie /\ Earlier(d, c)
  BY <1>3, ParsedLine
<1>5. d = [c EXCEPT !.expires = d.expires]
  BY <1>4 DEF Earlier
<1>6. d.serial = c.serial /\ d.name = c.name /\ d.path = c.path /\ d.domain = c.domain
  <2> HIDE DEF d
  <2> QED
    BY <1>3, <1>5 DEF Cookie
<1>7. Key(d) = Key(c)
  BY <1>6 DEF Key
<1>8. c.serial \in 1..Len(log) /\ <<c, log[c.serial]>> \in MadeFrom
  BY DEF IInv, Genuine
<1>9. log[c.serial] \in TakenEntry /\ Earlier(c, m)
  BY <1>8 DEF MadeFrom
<1>10. log[c.serial].url \in Urls /\ log[c.serial].form \in Forms /\ log[c.serial].at \in Nat
  BY <1>9 DEF TakenEntry, Entry
<1>11. Earlier(d, m)
  BY <1>3, <1>4, <1>9, <1>10, EarlierTwice
<1>12. <<d, log[c.serial]>> \in MadeFrom
  <2> HIDE DEF d
  <2> QED
    BY <1>4, <1>6, <1>9, <1>11 DEF MadeFrom
<1> QED
  BY <1>2, <1>4, <1>6, <1>7, <1>8, <1>12

\* A new run of burl keeps it.
LEMMA StartKeeps ==
    ASSUME IInv, NEW reads \in SUBSET Files, NEW junk \in BOOLEAN, Start(reads, junk)
    PROVE  IInv'
<1> DEFINE lines == UNION {Lines(f) : f \in reads}
           jar == {Parsed(line) : line \in lines}
<1>1. /\ TypeOK
      /\ UNCHANGED <<psl, now, file, log, knownSaved, saved>>
      /\ runs' \in 0..MaxRuns
  <2>1. TypeOK
    BY DEF IInv
  <2>2. /\ UNCHANGED <<psl, now, file, log, knownSaved, saved>>
        /\ runs < MaxRuns /\ runs' = runs + 1
    BY DEF Start
  <2>3. runs \in 0..MaxRuns
    BY <2>1 DEF TypeOK
  <2> QED
    BY <2>1, <2>2, <2>3, BoundsAssumption
<1>2. (\A f \in Files : Genuine(saved[f]) /\ Latest(saved[f], knownSaved[f]))'
  BY <1>1 DEF IInv, Genuine, Latest
<1>3. CASE \E line \in lines : ~ Parses(line)
  <2>1. UNCHANGED <<phase, cookies, known, junked>>
    BY <1>3 DEF Start
  <2>2. TypeOK'
    BY <1>1, <2>1 DEF TypeOK
  <2>3. Genuine(cookies)' /\ Latest(cookies, known)' /\ SessionJunked'
    BY <1>1, <2>1 DEF IInv, Genuine, Latest, SessionJunked, Set
  <2> QED
    BY <1>2, <2>2, <2>3 DEF IInv
<1>4. CASE ~ \E line \in lines : ~ Parses(line)
  <2>1. /\ phase' = "up"
        /\ cookies' = IF junk THEN WithoutSession(jar) ELSE jar
        /\ known' = {n \in 1..Len(log) : reads # {} /\ \A f \in reads : n \in knownSaved[f]}
        /\ junked' = IF junk THEN Len(log) ELSE 0
    BY <1>4 DEF Start
  <2>2. cookies' \subseteq jar
    BY <2>1 DEF WithoutSession
  <2>3. ASSUME NEW o \in cookies'
        PROVE  /\ o \in Cookie /\ o.serial \in 1..Len(log)
               /\ <<o, log[o.serial]>> \in MadeFrom
               /\ \A n \in known' : n > o.serial => <<log[n], o>> \notin SameKey
    <3>1. PICK f \in reads : \E line \in Lines(f) : o = Parsed(line)
      BY <2>2
    <3>2. PICK c \in saved[f] : /\ o \in Cookie /\ o.serial \in 1..Len(log)
                                /\ o.serial = c.serial /\ Key(o) = Key(c)
                                /\ <<o, log[c.serial]>> \in MadeFrom
      BY <3>1, ReadsSaved
    <3>3. c \in Cookie
      BY <1>1 DEF TypeOK
    <3>4. ASSUME NEW n \in known', n > o.serial
          PROVE  <<log[n], o>> \notin SameKey
      <4>1. n \in knownSaved[f]
        BY <2>1
      <4>2. <<log[n], c>> \notin SameKey
        BY <3>2, <3>4, <4>1 DEF IInv, Latest
      <4> QED
        BY <3>2, <3>3, <4>2 DEF SameKey
    <3> QED
      BY <3>2, <3>4
  <2>4. TypeOK'
    <3>1. cookies' \in SUBSET Cookie
      BY <2>3
    <3>2. known' \subseteq 1..Len(log) /\ junked' \in 0..Len(log)
      BY <1>1, <2>1 DEF TypeOK
    <3> QED
      BY <1>1, <2>1, <3>1, <3>2 DEF TypeOK
  <2>5. Genuine(cookies)' /\ Latest(cookies, known)'
    BY <1>1, <2>3 DEF Genuine, Latest
  <2>6. SessionJunked'
    <3> SUFFICES ASSUME NEW o \in cookies', log[o.serial].form.expiry.kind = "never"
                 PROVE  o.serial > junked'
      BY <1>1 DEF SessionJunked, Set
    <3>1. /\ log[o.serial] \in Entry
          /\ Earlier(o, Made(log[o.serial].url, log[o.serial].form, log[o.serial].at, o.serial))
      BY <2>3 DEF MadeFrom, TakenEntry
    <3>2. o.expires = None <=> Expires(log[o.serial].form, log[o.serial].at) = None
      BY <3>1 DEF Earlier, Made
    <3>3. o.expires = None
      BY <3>1, <3>2, ExpiresType DEF Entry
    <3>4. ~ junk
      BY <2>1, <3>3 DEF WithoutSession
    <3>5. o.serial \in 1..Len(log) /\ junked' = 0
      BY <2>1, <2>3, <3>4
    <3> QED
      BY <3>5
  <2> QED
    BY <1>2, <2>4, <2>5, <2>6 DEF IInv
<1> QED
  BY <1>3, <1>4

\* Every step keeps it.
LEMMA NextKeeps == IInv /\ [Next]_vars => IInv'
<1> SUFFICES ASSUME IInv, [Next]_vars PROVE IInv'
  OBVIOUS
<1> USE DEF Genuine, Latest, SessionJunked, Set
<1>1. ASSUME NEW url \in Urls, NEW f \in Forms, Receive(url, f)
      PROVE  IInv'
  BY <1>1, ReceiveKeeps
<1>2. CASE Request
  <2>1. TypeOK'
    BY <1>2 DEF IInv, TypeOK, Request
  <2> QED
    BY <1>2, <2>1 DEF IInv, Request
<1>3. ASSUME NEW reads \in SUBSET Files, NEW junk \in BOOLEAN, Start(reads, junk)
      PROVE  IInv'
  BY <1>3, StartKeeps
<1>4. ASSUME NEW f \in Files, Save(f)
      PROVE  IInv'
  <2>1. /\ cookies' = {} /\ known' = {}
        /\ file' = [file EXCEPT ![f] = {Line(c) : c \in cookies} \cup {Title}]
        /\ saved' = [saved EXCEPT ![f] = cookies]
        /\ knownSaved' = [knownSaved EXCEPT ![f] = known]
        /\ UNCHANGED <<psl, now, runs, log, junked>> /\ phase' = "down"
    BY <1>4 DEF Save
  <2>2. saved' \in [Files -> SUBSET Cookie] /\ knownSaved' \in [Files -> SUBSET (1..Len(log))]
    BY <2>1 DEF IInv, TypeOK
  <2>3. ASSUME NEW g \in Files
        PROVE  Holds(file'[g], saved'[g])
    <3>1. CASE g = f
      BY <2>1, <3>1 DEF IInv, TypeOK, Holds
    <3>2. CASE g # f
      BY <2>1, <3>2 DEF IInv, TypeOK
    <3> QED
      BY <3>1, <3>2
  <2>4. TypeOK'
    BY <2>1, <2>2, <2>3 DEF IInv, TypeOK
  <2>5. ASSUME NEW g \in Files
        PROVE  Genuine(saved[g])' /\ Latest(saved[g], knownSaved[g])'
    BY <2>1 DEF IInv, TypeOK
  <2> QED
    BY <2>1, <2>4, <2>5 DEF IInv
<1>5. CASE Leave
  <2>1. TypeOK'
    BY <1>5 DEF IInv, TypeOK, Leave
  <2> QED
    BY <1>5, <2>1 DEF IInv, Leave
<1>6. CASE Tick
  <2>1. now' \in Nat /\ now' >= Second
    BY <1>6, TimeAssumption DEF IInv, TypeOK, Tick
  <2>2. TypeOK'
    BY <1>6, <2>1 DEF IInv, TypeOK, Tick
  <2> QED
    BY <1>6, <2>2 DEF IInv, Tick
<1>7. CASE UNCHANGED vars
  <2>1. TypeOK'
    BY <1>7 DEF IInv, TypeOK, vars
  <2> QED
    BY <1>7, <2>1 DEF IInv, vars
<1> QED
  BY <1>1, <1>2, <1>3, <1>4, <1>5, <1>6, <1>7 DEF Next

\* The inductive invariant holds in every state.
THEOREM Invariance == Spec => []IInv
  BY InitIInv, NextKeeps, PTL DEF Spec

-------------------------------------------------------------------------------
(***************************************************************************)
(* The properties.                                                         *)
(***************************************************************************)

\* The jar's variables keep their types; a stored time of expiry is positive, so that the
\* 0 that stands for none in the file is never taken for one.
THEOREM TypeCorrect == Spec => []TypeOK
<1>1. IInv => TypeOK
  BY DEF IInv
<1> QED
  BY <1>1, Invariance, PTL

\* What is known of a cookie that make_field sends.
LEMMA SentIsGenuine ==
    ASSUME IInv, NEW url \in Urls, NEW c \in Field(url)
    PROVE  /\ Set(c) \in Entry /\ c \in Cookie
           /\ Valid(Set(c).form)
           /\ Set(c).form.secure => Set(c).url.secure
           /\ Earlier(c, Made(Set(c).url, Set(c).form, Set(c).at, c.serial))
           /\ c.name = Set(c).form.name
           /\ c.secure = Set(c).form.secure
           /\ Set(c).form.domain = None => ~ c.tailmatch /\ c.domain = Set(c).url.host
           /\ Live(c) /\ DomainMatch(url.host, c) /\ (c.secure => url.secure)
<1> DEFINE m == Made(Set(c).url, Set(c).form, Set(c).at, c.serial)
<1>1. c \in cookies /\ Live(c) /\ DomainMatch(url.host, c) /\ (c.secure => url.secure)
  BY DEF Field
<1>2. <<c, Set(c)>> \in MadeFrom
  BY <1>1 DEF IInv, Genuine, Set
<1>3. /\ Set(c) \in Entry /\ c \in Cookie
      /\ Valid(Set(c).form)
      /\ Set(c).form.secure => Set(c).url.secure
      /\ Earlier(c, m)
  BY <1>2 DEF MadeFrom, TakenEntry
<1>4. /\ m.secure = Set(c).form.secure
      /\ Set(c).form.domain = None => ~ m.tailmatch /\ m.domain = Set(c).url.host
  BY MadeFields
<1>5. m.name = Set(c).form.name
  BY DEF Made
<1>6. c.name = m.name /\ c.domain = m.domain /\ c.secure = m.secure /\ c.tailmatch = m.tailmatch
  BY <1>3, EarlierFields
<1> HIDE DEF m
<1>7. /\ c.secure = Set(c).form.secure /\ c.name = Set(c).form.name
      /\ Set(c).form.domain = None => ~ c.tailmatch /\ c.domain = Set(c).url.host
  BY <1>4, <1>5, <1>6, Zenon
<1> QED
  BY <1>1, <1>3, <1>7 DEF m

\* Secure cookies are set and sent over TLS only, host-only cookies return to their host
\* only, and "__Host-" cookies are both (parse_cookie, add, make_field, and the flags
\* in the cookie file).
THEOREM CookiesInScope == Spec => []SentInScope
<1>1. IInv => SentInScope
  <2> SUFFICES ASSUME IInv, NEW url \in Urls, NEW c \in Field(url)
               PROVE  /\ Set(c).form.secure => url.secure /\ Set(c).url.secure
                      /\ Set(c).form.domain = None => url.host = Set(c).url.host
                      /\ c.name \in HostNames =>
                          url.secure /\ Set(c).url.secure /\ url.host = Set(c).url.host
    BY DEF SentInScope
  <2>1. Set(c).form.secure => url.secure /\ Set(c).url.secure
    BY SentIsGenuine
  <2>2. Set(c).form.domain = None => url.host = Set(c).url.host
    BY SentIsGenuine DEF DomainMatch
  <2>3. ASSUME c.name \in HostNames
        PROVE  Set(c).form.secure /\ Set(c).form.domain = None
    BY <2>3, SentIsGenuine DEF Valid
  <2> QED
    BY <2>1, <2>2, <2>3
<1> QED
  BY <1>1, Invariance, PTL

\* make_field sends nothing that has expired, whatever the file made of the time.
THEOREM ExpiredNotSent == Spec => []NotSentExpired
<1>1. IInv => NotSentExpired
  <2> SUFFICES ASSUME IInv, NEW url \in Urls, NEW c \in Field(url),
                      Expires(Set(c).form, Set(c).at) # None
               PROVE  Expires(Set(c).form, Set(c).at) > now
    BY DEF NotSentExpired
  <2> DEFINE e == Expires(Set(c).form, Set(c).at)
  <2>1. Earlier(c, Made(Set(c).url, Set(c).form, Set(c).at, c.serial))
    BY SentIsGenuine
  <2>2. c.expires # None /\ c.expires <= e
    BY <2>1 DEF Earlier, Made
  <2>3. Set(c) \in Entry /\ c \in Cookie /\ Live(c)
    BY SentIsGenuine
  <2>4. e \in Int
    BY <2>3, ExpiresType DEF Entry
  <2>5. c.expires \in Nat /\ c.expires > now
    BY <2>2, <2>3 DEF Cookie, Live
  <2> QED
    BY <2>2, <2>4, <2>5 DEF IInv, TypeOK
<1> QED
  BY <1>1, Invariance, PTL

\* A cookie that its server replaced or removed does not come back (add, save, load).
THEOREM LatestCookies == Spec => []LatestWins
<1>1. IInv => LatestWins
  <2> SUFFICES ASSUME IInv, NEW c \in cookies, NEW n \in known, n > c.serial
               PROVE  Key(Made(log[n].url, log[n].form, log[n].at, n)) # Key(c)
    BY DEF LatestWins
  <2>1. <<log[n], c>> \notin SameKey
    BY DEF IInv, Latest
  <2>2. log[n] \in Entry /\ c \in Cookie
    BY DEF IInv, TypeOK
  <2>3. Key(Made(log[n].url, log[n].form, log[n].at, 0)) # Key(c)
    BY <2>1, <2>2 DEF SameKey
  <2> QED
    BY <2>3, KeyOfMade
<1> QED
  BY <1>1, Invariance, PTL

\* clear_session_cookies leaves no session cookie of an earlier run.
THEOREM SessionCookiesJunked == Spec => []SessionJunked
<1>1. IInv => SessionJunked
  BY DEF IInv
<1> QED
  BY <1>1, Invariance, PTL

\* operator>> gives back what operator<< wrote of a jar that the format can hold, less
\* than a second of its cookies' time short, and nothing else.
THEOREM JarRestored == Spec => RestoresJar
<1>1. IInv /\ [Next]_vars =>
        [\A reads \in SUBSET Files :
            (Start(reads, FALSE) /\ \A f \in reads : Storable(saved[f])) =>
                /\ phase' = "up"
                /\ \A f \in reads : \A c \in saved[f] : \E d \in cookies' :
                    Earlier(d, c) /\ (c.expires # None => c.expires < d.expires + Second)
                /\ \A d \in cookies' : \E f \in reads : \E c \in saved[f] : Earlier(d, c)]_vars
  <2> SUFFICES ASSUME IInv, NEW reads \in SUBSET Files, Start(reads, FALSE),
                      \A f \in reads : Storable(saved[f])
               PROVE  /\ phase' = "up"
                      /\ \A f \in reads : \A c \in saved[f] : \E d \in cookies' :
                          Earlier(d, c) /\ (c.expires # None => c.expires < d.expires + Second)
                      /\ \A d \in cookies' : \E f \in reads : \E c \in saved[f] : Earlier(d, c)
    OBVIOUS
  <2> DEFINE lines == UNION {Lines(f) : f \in reads}
  <2>1. TypeOK
    BY DEF IInv
  <2>2. ASSUME NEW f \in reads, NEW c \in saved[f]
        PROVE  Parses(Line(c)) /\ Line(c) \in lines /\ c \in Cookie
    <3>1. /\ c \in Cookie /\ c.value # Empty
          /\ c.expires = None \/ c.expires \div Second <= EpochMax
          /\ NoTab(c.domain) /\ NoTab(c.path) /\ Head(c.domain) \notin Hashed
      BY <2>1 DEF TypeOK, Storable
    <3>2. /\ Line(c).value = c.value /\ Line(c).domain = c.domain /\ Line(c).path = c.path
          /\ Line(c).expires = IF c.expires = None THEN 0 ELSE c.expires \div Second
      BY DEF Line
    <3>3. Line(c).expires \in 0..EpochMax
      <4>1. CASE c.expires = None
        BY <4>1, <3>2, TimeAssumption
      <4>2. CASE c.expires # None
        <5>1. c.expires \in Nat /\ c.expires >= Second
          BY <3>1, <4>2 DEF Cookie
        <5>2. c.expires \div Second \in Nat
          BY <5>1, Cut
        <5> QED
          BY <3>1, <3>2, <4>2, <5>2, TimeAssumption
      <4> QED
        BY <4>1, <4>2
    <3>4. Line(c) \in Lines(f)
      BY <2>1, <3>1, LinesOfSaved
    <3> QED
      BY <3>1, <3>2, <3>3, <3>4 DEF Parses
  <2>3. ASSUME NEW line \in lines
        PROVE  Parses(line)
    <3>1. PICK f \in reads : line \in Lines(f)
      OBVIOUS
    <3>2. PICK c \in saved[f] : line = Line(c)
      BY <2>1, <3>1, LinesOfSaved
    <3> QED
      BY <2>2, <3>2
  <2>4. phase' = "up" /\ cookies' = {Parsed(line) : line \in lines}
    BY <2>3 DEF Start
  <2>5. ASSUME NEW f \in reads, NEW c \in saved[f]
        PROVE  \E d \in cookies' :
                   Earlier(d, c) /\ (c.expires # None => c.expires < d.expires + Second)
    <3>1. Parsed(Line(c)) \in cookies'
      BY <2>2, <2>4
    <3> QED
      BY <2>2, <3>1, ParsedLine
  <2>6. ASSUME NEW d \in cookies'
        PROVE  \E f \in reads : \E c \in saved[f] : Earlier(d, c)
    <3>1. PICK f \in reads : \E line \in Lines(f) : d = Parsed(line)
      BY <2>4
    <3>2. PICK line \in Lines(f) : d = Parsed(line)
      BY <3>1
    <3>3. \E c \in saved[f] : Earlier(Parsed(line), c)
      BY ReadsSaved
    <3> QED
      BY <3>2, <3>3
  <2> QED
    BY <2>4, <2>5, <2>6
<1> QED
  BY <1>1, Invariance, PTL DEF Spec, RestoresJar
=============================================================================
