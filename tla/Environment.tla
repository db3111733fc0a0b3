------------------------------ MODULE Environment ------------------------------
(***************************************************************************)
(* The environment manager (shell_mgr_env_run in modules/shell/shell_mgr.c)*)
(* on a terminal and on a pipe.  The buffers for a name and a value are    *)
(* local to the function and not initialized.  On a terminal linenoise     *)
(* gives NULL for Ctrl-C and Ctrl-D, which empties the buffer, and for ESC *)
(* a line with that one character, which nobody tells from a typed one; on *)
(* a pipe that has ended the buffer is left as it was.                     *)
(***************************************************************************)
EXTENDS Prompt

CONSTANTS Var, Value, \* bound: names and values that users type, which fit the buffers
          Esc,        \* the line of an ESC, as a name or a value
          Unset,      \* the value of a variable that is not set
          Empty       \* the empty string, as a name or a value

ASSUME EnvironmentAssumption ==
  /\ Empty \notin Var \union Value \union {Esc}
  /\ Unset \notin Value \union {Empty, Esc}

EnvNames == Var \union {Esc}
EnvValues == Value \union {Empty, Esc}

VARIABLES
  terminal, \* is_interactive
  eof,      \* standard input has ended
  env,      \* the environment, which every child inherits
  nameBuf,  \* name_buf
  valBuf,   \* val_buf
  named,    \* history: the name that the user has given for a value to come
  typed,    \* history: the environment that the user has asked for
  dropped   \* history: the names left without an answer to the prompt for a value

envVars == <<pc, told, terminal, eof, env, nameBuf, valBuf, named, typed, dropped>>

EnvInit ==
  /\ pc = "prompt" /\ told = "nothing"
  /\ terminal \in BOOLEAN /\ eof = FALSE
  /\ env \in [EnvNames -> Value \union {Unset}] /\ typed = env
  /\ nameBuf = Empty /\ valBuf = Empty
  /\ named = Esc /\ dropped = {}

\* The buffers hold anything when the function begins.
EnvEnter ==
  /\ pc = "prompt" /\ pc' = "env"
  /\ nameBuf' \in EnvNames \union {Empty}
  /\ valBuf' \in EnvValues
  /\ told' = "nothing"
  /\ UNCHANGED <<terminal, eof, env, named, typed, dropped>>

EnvChoose ==
  /\ pc = "env" /\ ~eof
  /\ pc' \in {"env.query", "env.set", "env.remove"}
  /\ told' = "nothing"
  /\ UNCHANGED <<terminal, eof, env, nameBuf, valBuf, named, typed, dropped>>

\* A pipe that has ended, and a terminal that goes while the menu reads from it,
\* give no choice: the menu is shown again for ever.
EnvMenuEnds ==
  /\ pc = "env" /\ ~eof /\ eof' = TRUE
  /\ UNCHANGED <<pc, told, terminal, env, nameBuf, valBuf, named, typed, dropped>>

\* "Return", or ESC on a terminal; the end of a pipe is no answer.  A terminal that
\* is gone before the menu is shown again leaves it, too.
EnvLeave ==
  /\ pc = "env" /\ (~eof \/ terminal) /\ pc' = "prompt"
  /\ UNCHANGED <<told, terminal, eof, env, nameBuf, valBuf, named, typed, dropped>>

-----------------------------------------------------------------------------
\* What a prompt leaves in its buffer: a line, the line of an ESC, nothing, or
\* what there is without an answer.
Answered(line, new) == ~eof /\ new = line /\ UNCHANGED eof
Escaped(new) == terminal /\ ~eof /\ new = Esc /\ UNCHANGED eof
Cancelled(new) == terminal /\ new = Empty /\ eof' \in {eof, TRUE}
Ended(old, new) == ~terminal /\ new = old /\ eof' = TRUE

\* The user has given a name, or none.
Given(n, new) == (n \in Var /\ Answered(n, new)) \/ (n = Esc /\ Escaped(new))
NotGiven(old, new) == Answered(Empty, new) \/ Cancelled(new) \/ Ended(old, new)

EnvSay(what) == pc' = "env" /\ told' = what

EnvQuery ==
  /\ pc = "env.query"
  /\ (\E n \in EnvNames : Given(n, nameBuf')) \/ NotGiven(nameBuf, nameBuf')
  /\ EnvSay(IF nameBuf' = Empty THEN "empty-name"
         ELSE IF env[nameBuf'] = Unset THEN "not-set" ELSE "shown")
  /\ UNCHANGED <<terminal, env, valBuf, named, typed, dropped>>

\* setenv and unsetenv, which refuse a name with a "=" in it.
Put(n, v, ok) ==
  IF ok THEN env' = [env EXCEPT ![n] = v] /\ EnvSay(IF v = Unset THEN "removed" ELSE "set")
  ELSE UNCHANGED env /\ EnvSay("refused")

\* The user wants n to have the value v, or has given no value for it.
Wants(n, v, ok) ==
  /\ typed' = IF ok THEN [typed EXCEPT ![n] = v] ELSE typed
  /\ dropped' = IF ok THEN dropped \ {n} ELSE dropped
Drops(n, ok) == UNCHANGED typed /\ dropped' = IF ok THEN dropped \union {n} ELSE dropped

\* Without a name there is no prompt for a value, and nothing is set - but for
\* a name that the end of a pipe has left in the buffer.
AskName ==
  /\ pc = "env.set"
  /\ UNCHANGED <<terminal, valBuf, typed, dropped>>
  /\ \/ \E n \in EnvNames : /\ Given(n, nameBuf') /\ named' = n
                         /\ pc' = "env.value" /\ UNCHANGED <<told, env>>
     \/ /\ NotGiven(nameBuf, nameBuf') /\ UNCHANGED named
        /\ IF nameBuf' = Empty THEN EnvSay("empty-name") /\ UNCHANGED env
           ELSE \E ok \in BOOLEAN : Put(nameBuf', valBuf, ok)

\* The variable is set whether or not there was a value.
AskValue ==
  /\ pc = "env.value"
  /\ UNCHANGED <<terminal, nameBuf, named>>
  /\ \E ok \in BOOLEAN :
       /\ \/ \E v \in Value \union {Empty} : Answered(v, valBuf') /\ Wants(named, v, ok)
          \/ Escaped(valBuf') /\ Drops(named, ok)
          \/ Cancelled(valBuf') /\ Drops(named, ok)
          \/ Ended(valBuf, valBuf') /\ Drops(named, ok)
       /\ Put(nameBuf, valBuf', ok)

\* Mutant of EnvRemove: an unanswered prompt leaves the earlier name.
EnvRemoveAnyway ==
  /\ pc = "env.remove"
  /\ UNCHANGED <<terminal, valBuf, named>>
  /\ \E ok \in BOOLEAN :
       /\ \/ \E n \in EnvNames : Given(n, nameBuf') /\ Wants(n, Unset, ok)
          \/ UNCHANGED <<eof, nameBuf, typed, dropped>>
       /\ IF nameBuf' = Empty THEN EnvSay("empty-name") /\ UNCHANGED env
          ELSE Put(nameBuf', Unset, ok)

EnvRemove ==
  /\ pc = "env.remove"
  /\ UNCHANGED <<terminal, valBuf, named>>
  /\ \E ok \in BOOLEAN :
       /\ \/ \E n \in EnvNames : Given(n, nameBuf') /\ Wants(n, Unset, ok)
          \/ NotGiven(nameBuf, nameBuf') /\ UNCHANGED <<typed, dropped>>
       /\ IF nameBuf' = Empty THEN EnvSay("empty-name") /\ UNCHANGED env
          ELSE Put(nameBuf', Unset, ok)

EnvNext ==
  \/ EnvEnter \/ EnvChoose \/ EnvMenuEnds \/ EnvLeave
  \/ EnvQuery \/ AskName \/ AskValue \/ EnvRemove

EnvSpec == EnvInit /\ [][EnvNext]_envVars

-----------------------------------------------------------------------------
\* The variables have their types.
EnvTypeOK ==
  /\ pc \in {"prompt", "env", "env.query", "env.set", "env.value", "env.remove"}
  /\ env \in [EnvNames -> EnvValues \union {Unset}]
  /\ nameBuf \in EnvNames \union {Empty}
  /\ valBuf \in EnvValues
  /\ named \in EnvNames /\ dropped \subseteq EnvNames
  /\ eof \in BOOLEAN /\ terminal \in BOOLEAN

\* Until a pipe has ended, every variable is as the user has last asked for with
\* the lines typed, whatever the uninitialized buffers hold: a prompt left
\* without an answer never acts on an earlier name or value, nor on another
\* variable (shell_mgr_env_run).  What it does act on is the variable whose value
\* was asked for: that becomes empty, or an ESC, and ESC at the prompt for a
\* name is taken for a name.
EnvironmentAsTyped ==
  terminal \/ ~eof =>
    \A n \in EnvNames : IF n \in dropped THEN env[n] \in {Empty, Esc} ELSE env[n] = typed[n]
===============================================================================
