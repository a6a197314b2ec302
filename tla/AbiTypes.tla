----------------------------- MODULE AbiTypes ------------------------------
(***************************************************************************)
(* The types of CloudABI that are written to types.hpp, in the order in    *)
(* which they are, with the names that CloudABI has for them.  The lists   *)
(* are read off types.hpp.                                                 *)
(***************************************************************************)
EXTENDS AbiStructs, TypeGenerator

Types1 == <<
  Enum("advice", {"dontneed", "noreuse", "normal", "random", "sequential",
    "willneed"}),
  Alias("backlog"),
  Enum("clockid", {"monotonic", "process_cputime_id", "realtime",
    "thread_cputime_id"}),
  Enum("condvar", {"has_no_waiters"}),
  Enum("device", {}),
  Enum("errno", {"2big", "acces", "addrinuse", "addrnotavail",
    "afnosupport", "again", "already", "badf", "badmsg", "busy", "canceled",
    "child", "connaborted", "connrefused", "connreset", "deadlk",
    "destaddrreq", "dom", "dquot", "exist", "fault", "fbig", "hostunreach",
    "idrm", "ilseq", "inprogress", "intr", "inval", "io", "isconn", "isdir",
    "loop", "mfile", "mlink", "msgsize", "multihop", "nametoolong",
    "netdown", "netreset", "netunreach", "nfile", "nobufs", "nodev",
    "noent", "noexec", "nolck", "nolink", "nomem", "nomsg", "noprotoopt",
    "nospc", "nosys", "notconn", "notdir", "notempty", "notrecoverable",
    "notsock", "notsup", "notty", "nxio", "overflow", "ownerdead", "perm",
    "pipe", "proto", "protonosupport", "prototype", "range", "rofs",
    "spipe", "srch", "stale", "timedout", "txtbsy", "xdev", "notcapable"}),
  Flags("eventrwflags", {"hangup"}),
  Enum("eventtype", {"clock", "condvar", "fd_read", "fd_write",
    "lock_rdlock", "lock_wrlock", "proc_terminate"}),
  Alias("exitcode")>>

Types2 == <<
  Flags("fdflags", {"append", "dsync", "nonblock", "rsync", "sync"}),
  Flags("fdsflags", {"flags", "rights"}),
  Alias("filedelta"),
  Alias("filesize"),
  Enum("filetype", {"unknown", "block_device", "character_device",
    "directory", "fifo", "poll", "process", "regular_file", "shared_memory",
    "socket_dgram", "socket_seqpacket", "socket_stream", "symbolic_link"}),
  Flags("fsflags", {"atim", "atim_now", "mtim", "mtim_now", "size"}),
  Enum("inode", {}),
  Alias("linkcount"),
  Enum("lock", {"unlocked", "wrlocked", "kernel_managed", "bogus"}),
  Flags("lookupflags", {"symlink_follow"}),
  Flags("mflags", {"anon", "fixed", "private", "shared"})>>

Types3 == <<
  Flags("mprot", {"exec", "write", "read"}),
  Flags("msflags", {"async", "invalidate", "sync"}),
  Flags("msgflags", {"ctrunc", "eor", "peek", "trunc", "waitall"}),
  Alias("nthreads"),
  Flags("oflags", {"creat", "directory", "excl", "trunc"}),
  Flags("rights", {"fd_datasync", "fd_read", "fd_seek", "fd_stat_put_flags",
    "fd_sync", "fd_tell", "fd_write", "file_advise", "file_allocate",
    "file_create_directory", "file_create_file", "file_create_fifo",
    "file_link_source", "file_link_target", "file_open", "file_readdir",
    "file_readlink", "file_rename_source", "file_rename_target",
    "file_stat_fget", "file_stat_fput_size", "file_stat_fput_times",
    "file_stat_get", "file_stat_put_times", "file_symlink", "file_unlink",
    "mem_map", "mem_map_exec", "poll_fd_readwrite", "poll_modify",
    "poll_proc_terminate", "poll_wait", "proc_exec", "sock_accept",
    "sock_bind_directory", "sock_bind_socket", "sock_connect_directory",
    "sock_connect_socket", "sock_listen", "sock_shutdown", "sock_stat_get"})>>

Types4 == <<
  Enum("sa_family", {"unspec", "inet", "inet6", "unix"}),
  Enum("scope", {"private", "shared"}),
  Flags("sdflags", {"rd", "wr"}),
  Enum("signal", {"abrt", "alrm", "bus", "chld", "cont", "fpe", "hup",
    "ill", "int", "kill", "pipe", "quit", "segv", "stop", "sys", "term",
    "trap", "tstp", "ttin", "ttou", "urg", "usr1", "usr2", "vtalrm", "xcpu",
    "xfsz"}),
  Flags("ssflags", {"clear_error"}),
  Flags("sstate", {"acceptconn"}),
  Flags("subclockflags", {"abstime"}),
  Flags("subflags", {"add", "clear", "delete", "disable", "enable",
    "oneshot"}),
  Flags("subrwflags", {"poll"})>>

Types5 == <<
  Enum("tid", {}),
  Alias("timestamp"),
  Flags("ulflags", {"removedir"}),
  Alias("userdata"),
  Enum("whence", {"cur", "end", "set"}),
  Struct("event"),
  Struct("fdstat"),
  Struct("filestat"),
  Struct("recv_in"),
  Struct("send_in"),
  Struct("send_out"),
  Struct("sockaddr"),
  Struct("sockstat"),
  Struct("subscription"),
  Struct("recv_out")>>

(* Those that types.hpp leaves to other headers, of whatever kind.         *)
Elsewhere == <<Alias("fd"), Struct("ciovec"), Struct("iovec")>>

AbiTypeList == Elsewhere \o Types1 \o Types2 \o Types3 \o Types4 \o Types5
=============================================================================
