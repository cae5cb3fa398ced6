----------------------------- MODULE FdContext ------------------------------
(***************************************************************************)
(* What the hooks know of a descriptor (fdmanager.h, fdmanager.cc), and    *)
(* the conversions between it and what the program asks for.               *)
(***************************************************************************)
EXTENDS Integers

CONSTANT Null                       \* an empty shared_ptr<FdContext>

\* FdContext::FdContext and init() for a socket.  "by" is not in the code: it
\* names whose socket the context was made for.
New(by) == [by |-> by, user |-> FALSE, sys |-> TRUE, recv |-> -1, send |-> -1]

getFdContext(cs, fd) == IF fd \in DOMAIN cs THEN cs[fd] ELSE Null

\* fdcontexts_.resize(fd * 1.5) when fd is not an index of it
Resized(cs, fd) ==
  IF fd \in DOMAIN cs THEN cs
  ELSE [i \in 0 .. ((3 * fd) \div 2) - 1 |-> getFdContext(cs, i)]

addFd(cs, fd, by) == [Resized(cs, fd) EXCEPT ![fd] = New(by)]
delFd(cs, fd) == IF fd \in DOMAIN cs THEN [cs EXCEPT ![fd] = Null] ELSE cs

\* Division and remainder of C, which round towards zero.
Quot(a, b) == IF a >= 0 THEN a \div b ELSE -((-a) \div b)
Rem(a, b) == a - b * Quot(a, b)

\* Socket::setRecvTimeout and setSendTimeout make a timeval of milliseconds,
\* the hooked setsockopt makes milliseconds of the timeval.
Timeval(ms) == [sec |-> Quot(ms, 1000), usec |-> Rem(ms, 1000) * 1000]
Millis(tv) == tv.sec * 1000 + Quot(tv.usec, 1000)

\* Mutant: the two directions are mixed up.
setTimeoutSwapped(c, type, tv) ==
  IF type = "send" THEN [c EXCEPT !.recv = Millis(tv)] ELSE [c EXCEPT !.send = Millis(tv)]

setTimeout(c, type, tv) ==
  IF type = "recv" THEN [c EXCEPT !.recv = Millis(tv)] ELSE [c EXCEPT !.send = Millis(tv)]

\* fcntl(F_GETFL): the flag the program sees, given the one of the kernel.
GetFl(c, kernel) == IF c = Null THEN kernel ELSE c.user

\* Mutant: the kernel gets what the program asked for.
SetFlRaw(c, nonblock) == nonblock

\* fcntl(F_SETFL): the flag the kernel gets.
SetFl(c, nonblock) == IF c = Null THEN nonblock ELSE c.sys
=============================================================================
