---------------------------- MODULE MCFtpSession ----------------------------
(* Instances of FtpSession for TLC: two or three directories and a file.   *)
EXTENDS FtpSession

CONSTANTS a, b, d, f, home

MCDirs  == {a, b}
MCDirs3 == {a, b, d}
MCFiles == {f}
MCRoot  == <<RemoteDir>>
MCRoots == {MCRoot}

\* remotedir is a directory other than the login directory, or "/"
MCRootsSlash == {MCRoot, << >>}
MCHome  == <<home>>

\* directory a cannot be entered, and exists once more inside b, with a d
MCDeepTree ==
  {MCHome, MCRoot, MCRoot \o <<b>>, MCRoot \o <<b, a>>, MCRoot \o <<f>>,
   MCRoot \o <<d>>, MCRoot \o <<b, a, d>>, MCRoot \o <<b, a, d, a>>}

\* directory a can be entered, b cannot; the login directory has an a too
MCOpenTree ==
  {MCHome, MCHome \o <<a>>} \cup UNION {{r, r \o <<a>>, r \o <<f>>} : r \in MCRootsSlash}
=============================================================================
