----------------------------- MODULE MCTcmNode -----------------------------
(* Instances of TcmNode for TLC. *)
EXTENDS TcmNode, TLC

\* Invocations are told apart by nothing but their names.
Symmetry == Permutations(Cli)

\* Making and taking down storage objects and groups, failures included.
DeviceCommands == {"createdev", "establishdev", "addtgptgp", "addtgptgpwithmd", "addlungp", "dellungp",
                   "freedev", "delhba", "unload", "link"}

\* The start script (tcm_dump writes --establishdev, --setunitserialwithmd and
\* --addtgptgpwithmd), serials that change, the removals and the machine's own restarts.
RestoreCommands == {"establishdev", "setunitserial", "setunitserialwithmd", "praptpl",
                    "addtgptgpwithmd", "deltgptgp", "freedev", "unload", "access", "reboot"}

\* Serials and the registrations saved under them.
SerialCommands == {"establishdev", "setunitserial", "setunitserialwithmd", "praptpl",
                   "freedev", "link", "register", "deregister", "reboot"}
=============================================================================
