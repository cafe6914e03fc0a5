-------------------------------- MODULE MCQio -------------------------------
(* Instances of Qio for TLC: the ways the kernel uses its queues. *)
EXTENDS Qio, TLC

Symm == Permutations(Readers) \cup Permutations(Writers)

Use(mode, kicks, sizes, limits, ops) ==
  [mode |-> mode, kick |-> kicks, noblock |-> FALSE, inilim |-> 4, limits |-> limits,
   sizes |-> sizes, ops |-> ops, excl |-> TRUE]
Opened == {"qclose", "qhangup", "qreopen"}

\* devpipe.c
pipe == Use("stream", FALSE, {0, 3}, {}, Opened \cup {"qread", "qbread", "qwrite"})
\* The rq of a conversation: udp.c, tcp.c.
udprq == Use("msg", FALSE, {0, 2}, {}, Opened \cup {"qread", "qbread", "qpass"})
tcprq == Use("coalesce", FALSE, {0, 2}, {}, Opened \cup {"qread", "qpassnolim"})
\* tcp's wq: tcpkick runs after each write, acknowledgements discard.
tcpwq == Use("stream", TRUE, {3}, {6}, Opened \cup {"qwrite", "Qkick", "qdiscard", "qsetlimit"})
\* The rq of an interface, closed and reopened under its readers: ipifc.c.
ipifcrq == [Use("stream", FALSE, {2}, {}, {"qclose", "qreopen", "qread", "qpass"})
              EXCEPT !.excl = FALSE]
\* devuart.c; uartflow, the kick of the iq, is not about the queue.
uartiq == Use("stream", FALSE, {1, 2}, {2}, Opened \cup {"qread", "qproduce", "qsetlimit"})
uartoq == Use("stream", TRUE, {1, 2}, {2},
              Opened \cup {"qwrite", "qconsume", "qflush", "qsetlimit", "qnoblock"})
\* The oq of the console, which is never closed: devuart.c, devcons.c.
serialoq == Use("stream", TRUE, {1}, {2},
                {"qhangup", "qwrite", "qiwrite", "qconsume", "qflush", "qsetlimit", "qnoblock"})
\* What an Ethernet receives, and the end of an association: netif.c, wifi.c.
netifin == Use("msg", FALSE, {0, 2}, {},
               {"qclose", "qreopen", "qread", "qpass", "qwrite", "qflush"})
\* The oq of an Ethernet, and transmit after each write: devether.c.
etheroq == Use("msg", TRUE, {2}, {}, {"qwrite", "Qkick", "qget", "qflush", "qnoblock"})
\* /dev/kprint: devcons.c.
kprintoq == [Use("coalesce", FALSE, {1}, {}, {"qhangup", "qreopen", "qread", "qwrite", "qiwrite"})
               EXCEPT !.noblock = TRUE, !.excl = FALSE]

MCUses == {pipe, udprq, tcprq, tcpwq, ipifcrq, uartiq, uartoq, serialoq, netifin, etheroq, kprintoq}
=============================================================================
