---------------------------- MODULE MCHttpDaemon -----------------------------
(* HttpDaemon with two connections and three processes: one of the         *)
(* daemon's user (1), which is in the daemon's group, one of another user  *)
(* (2), and the daemon (3).  Numbers of bodies are given in halves.        *)
EXTENDS HttpDaemon

MCGroup == [p \in Pids |-> IF p = 2 THEN 2 ELSE 3]

Post(route, pid, arg, parts) == [route |-> route, pid |-> pid, arg |-> arg, parts |-> parts]

(* Every branch of every handler is reached by one of these: fractions,    *)
(* numbers outside the range, outside long and outside rlim_t, and pids    *)
(* that stand for no process, one, or several.                             *)
MCRequests ==
    { Post("signal", 1, 9, 2), Post("signal", 1, -1, 1), Post("signal", 1, NoValue, 0),
      Post("signal", 2, 9, 1), Post("signal", 0, 15, 1), Post("signal", -1, 9, 1),
      Post("signal", -2, 9, 1),
      Post("renice", 1, 10, 2), Post("renice", 1, 39, 1), Post("renice", 1, -41, 1),
      Post("renice", 1, 50, 1), Post("renice", 1, NoValue, 1), Post("renice", 0, 10, 1),
      Post("renice", -3, 10, 1),
      Post("cpu", 1, 7, 1), Post("cpu", 1, NoValue, 1), Post("cpu", 1, 200, 1),
      Post("ram", 1, -1, 1), Post("ram", 0, 66, 1),
      Post("test", 1, NoValue, 0), Post("read", 1, NoValue, 0),
      Post("unknown", 1, NoValue, 0) }

(* For the runs about one route. *)
MCSignalRequests == { Post("signal", 1, 15, 1) }
MCReniceRequests == { Post("renice", 1, 10, 1), Post("renice", 1, NoValue, 1) }
=============================================================================
